------------------------------ MODULE Packages ------------------------------
(***************************************************************************)
(* Packages and classes: the queue of requests of prepare/session.py, the  *)
(* load markers of reading/loads.py, the option scopes of                  *)
(* reading/options.py and the replay of option bodies in                   *)
(* reading/dispatcher.py.  A request is guarded by an ordinary meaning     *)
(* that groups restore and unexecuted source may have changed; the options *)
(* of an open package are known only while nothing unexecuted could have   *)
(* declared or processed any.                                              *)
(*                                                                         *)
(* trueMarkers and the field `real' of a frame are not in the program:     *)
(* they are what TeX has while the same source runs, including the source  *)
(* that is retained.  As reading_assumptions says, retained source in      *)
(* which no load is visible loads nothing new.  A marker is set by a load, *)
(* or \let to \relax or to another marker, in any group.                   *)
(***************************************************************************)
EXTENDS SaveJournal, Integers, SequencesExt

CONSTANTS
  Sources,      (* Packages and classes.                                      *)
  Classes,      (* The classes among them.                                    *)
  Options,      (* Option names.                                              *)
  MaxSteps,     (* Bound on the steps of a behaviour.                         *)
  MaxDeclared,  (* Bound on the declarations of one package.                  *)
  MaxGroups     (* Bound on the open groups.                                  *)

VARIABLES
  markers,      (* The meanings of ver@<name>.<ext>, with their journals.     *)
  doubted,      (* SourceLoadState.uncertainties is not empty.                *)
  given,        (* package_options: what each name was last loaded with.      *)
  classOptions, (* class_options.                                             *)
  forwarded,    (* forwarded_options.                                         *)
  frames,       (* The open inputs and their options, the document first.     *)
  steps,        (* The steps taken, up to MaxSteps.                            *)
  trueMarkers,
  missed        (* History: the names TeX may have loaded globally while a    *)
                (* journal keeps their absence, which nothing puts in doubt.  *)

loadVars == <<markers, doubted, given, classOptions, forwarded, frames, steps, trueMarkers, missed>>

(* The meanings a marker can be given, and what it has without one. *)
MarkerMeanings == {"loaded", "relax"}
Nothing == "none"

(* What an OptionScope remembers of declarations: their names in order, the *)
(* name each body passes its option on to (or Nothing), the default action, *)
(* and whether the options were processed.                                 *)
Undeclared == [order |-> <<>>, body |-> [o \in Options |-> Nothing], default |-> FALSE, processed |-> FALSE]

Document == [name |-> Nothing, items |-> <<>>, globals |-> <<>>, depth |-> 0, queue |-> <<>>,
             scope |-> Undeclared, uncertain |-> FALSE, real |-> Undeclared, ran |-> <<>>,
             saved |-> <<>>]

Innermost == Last(frames)
depth == Depth(markers)
Active == { frames[i].name : i \in DOMAIN frames } \ {Nothing}

OptionLists == {<<>>} \cup { <<o>> : o \in Options }

(* After a \documentclass that has a binding, whose options are global.    *)
LoadsInit ==
  /\ markers = [values |-> [n \in Sources |-> Absent], scopes |-> <<>>]
  /\ trueMarkers = <<[n \in Sources |-> Nothing]>>
  /\ doubted = FALSE
  /\ given = [n \in Sources |-> <<>>] /\ classOptions \in OptionLists
  /\ forwarded = [n \in Sources |-> <<>>]
  /\ frames = <<Document>>
  /\ steps = 0 /\ missed = {}

(* No meaning and no answer is mistaken for doubt or for an absent entry.  *)
MeaningsArePlain == Plain(MarkerMeanings \cup {Nothing, "not loaded"})
ASSUME MarkersAssumption == MeaningsArePlain

-----------------------------------------------------------------------------
(* SourceLoadState. *)

Default == IF doubted THEN Uncertain ELSE Nothing

(* query: "loaded", "not loaded" or Uncertain. *)
Status(n) ==
  LET meaning == Reading(markers.values[n], Default)
  IN  CASE meaning = Uncertain -> Uncertain
        [] meaning = "loaded" -> "loaded"
        [] OTHER -> "not loaded"

(* Mutant of record: the marker ends with the group. *)
RecordLocally(n) == AssignedLocally(markers, n, "loaded")

record(n) == AssignedGlobally(markers, n, "loaded")

(* TeX loads a name whose marker is missing or \relax. *)
TrueLoad(n) ==
  IF Last(trueMarkers)[n] = "loaded" THEN trueMarkers ELSE TrueAssign(trueMarkers, n, "loaded", TRUE)

(* What retained source can have done to a marker: change it if it was set, *)
(* or load the name if it visibly mentions it.  One marker at a time will  *)
(* do: no answer depends on two.                                           *)
Hidden(truth, visible) ==
  { t \in UNION { UnknownGlobally(truth, {n}, MarkerMeanings \cup {Nothing}) : n \in Sources } :
      \A i \in DOMAIN truth : \A n \in Sources \ visible : truth[i][n] = Nothing => t[i][n] = Nothing }

-----------------------------------------------------------------------------
(* defer_effects without a summary: every set marker and the options of     *)
(* every open package are in doubt.                                        *)

(* What retained source can have done to the options of an open package. *)
Alternatives(f) ==
  IF f.name = Nothing
    THEN {f.real}
    ELSE {f.real, [f.real EXCEPT !.processed = TRUE], [f.real EXCEPT !.default = TRUE]}

DoubtedScopes(fs) == [i \in DOMAIN fs |-> [fs[i] EXCEPT !.uncertain = @ \/ fs[i].name # Nothing]]

DeferEffects(st, fs, truth, visible) ==
  /\ markers' = MarkEstablished(st, Sources)
  /\ trueMarkers' \in Hidden(truth, visible)
  /\ \E i \in DOMAIN fs : \E real \in Alternatives(fs[i]) :
        frames' = DoubtedScopes([fs EXCEPT ![i].real = real])

(* The failure of a request: it is rolled back, and what its program would  *)
(* have done is in doubt.                                                  *)
RecoverRequest(fs, truth) ==
  /\ DeferEffects(markers, fs, truth, Sources)
  /\ doubted' = TRUE /\ missed' = {}

-----------------------------------------------------------------------------
(* Requests: \documentclass, \usepackage, \RequirePackage, \LoadClass. *)

Idle == Innermost.queue = <<>>

Request(names, options) ==
  /\ Idle
  /\ (\E n \in ToSet(names) : n \in Classes) => Innermost.name \in Classes \cup {Nothing}
  /\ frames' = [frames EXCEPT ![Len(frames)].queue =
                  [i \in DOMAIN names |-> [name |-> names[i], options |-> options]]]
  /\ classOptions' = IF Innermost.name = Nothing /\ \E n \in ToSet(names) : n \in Classes
                       THEN options ELSE classOptions
  /\ UNCHANGED <<markers, doubted, given, forwarded, trueMarkers, missed>>

(* _package, for the first of the queued requests of the innermost input. *)
Asked == Head(Innermost.queue).name
Taken == [frames EXCEPT ![Len(frames)].queue = Tail(@)]
Items == forwarded[Asked] \o Head(Innermost.queue).options
Meets(status) == ~Idle /\ Status(Asked) = status

Clashes == ~(ToSet(Items) \subseteq ToSet(given[Asked]))

(* Loaded already: the request is void, unless it asks for new options. *)
PackageLoaded ==
  /\ Meets("loaded")
  /\ \/ ~Clashes /\ frames' = Taken /\ UNCHANGED <<markers, trueMarkers>>
     \/ Clashes /\ DeferEffects(markers, Taken, trueMarkers, {})
  /\ UNCHANGED <<doubted, given, classOptions, forwarded, missed>>

(* Nobody knows whether TeX reads the source now: it is retained, or it    *)
(* cannot be.  Retaining it marks the marker, but not its saved absence.   *)
SavedAbsent(n) == \E i \in 1..depth : markers.scopes[i][n] = Absent

PackageUnsettled ==
  /\ Meets(Uncertain)
  /\ \/ /\ DeferEffects(markers, Taken, TrueLoad(Asked), {})
        /\ missed' = IF ~doubted /\ SavedAbsent(Asked) THEN missed \cup {Asked} ELSE missed
        /\ UNCHANGED doubted
     \/ RecoverRequest(Taken, TrueLoad(Asked))
  /\ UNCHANGED <<given, classOptions, forwarded>>

(* Its marker is set globally before its source is read. *)
PackageEntered ==
  /\ Meets("not loaded") /\ Asked \notin Active
  /\ markers' = record(Asked)
  /\ trueMarkers' = TrueLoad(Asked)
  /\ given' = [given EXCEPT ![Asked] = Items]
  /\ frames' = Append(Taken, [Document EXCEPT !.name = Asked, !.items = Items,
                                !.globals = classOptions, !.depth = depth,
                                !.saved = <<[markers |-> record(Asked), doubted |-> doubted]>>])
  /\ UNCHANGED <<doubted, classOptions, forwarded, missed>>

(* Its source is missing, ambiguous or unreadable, or is being read. *)
PackageFailed ==
  /\ Meets("not loaded")
  /\ RecoverRequest(Taken, TrueLoad(Asked))
  /\ UNCHANGED <<given, classOptions, forwarded>>

(* Without source, its binding says what loading it does, or nothing does. *)
PackageBound ==
  /\ Meets("not loaded")
  /\ given' = [given EXCEPT ![Asked] = Items]
  /\ \/ /\ markers' = record(Asked) /\ trueMarkers' = TrueLoad(Asked) /\ frames' = Taken
     \/ DeferEffects(record(Asked), Taken, TrueLoad(Asked), {})
  /\ UNCHANGED <<doubted, classOptions, forwarded, missed>>

-----------------------------------------------------------------------------
(* Inside a package: OptionScope and _options. *)

(* The requirements of every option command but \PassOptionsTo... *)
InScope == Idle /\ Innermost.name # Nothing /\ depth = Innermost.depth
Declared(scope, o, target) ==
  [scope EXCEPT !.order = IF o \in ToSet(@) THEN @ ELSE Append(@, o), !.body[o] = target]

(* declare needs no certainty: what it adds is added all the same. *)
DeclareOption(o, target) ==
  /\ InScope /\ ~Innermost.scope.processed
  /\ o \in ToSet(Innermost.scope.order) \/ Len(Innermost.scope.order) < MaxDeclared
  /\ frames' = [frames EXCEPT ![Len(frames)].scope = Declared(@, o, target),
                              ![Len(frames)].real = Declared(@, o, target)]
  /\ UNCHANGED <<markers, doubted, given, classOptions, forwarded, trueMarkers, missed>>

DeclareDefault ==
  /\ InScope /\ ~Innermost.scope.processed
  /\ frames' = [frames EXCEPT ![Len(frames)].scope.default = TRUE, ![Len(frames)].real.default = TRUE]
  /\ UNCHANGED <<markers, doubted, given, classOptions, forwarded, trueMarkers, missed>>

(* plan, for an open package: the bodies \ProcessOptions runs.  A declared  *)
(* option runs once; a class passes over what it does not declare.         *)
IsDeclared(o) == o \in ToSet(Innermost.scope.order)
Globals == IF Innermost.name \in Classes THEN <<>> ELSE Innermost.globals
IsRequested(o) == o \in ToSet(Globals \o Innermost.items)

Candidates(order) ==
  IF order = "declaration"
    THEN SelectSeq(Innermost.scope.order, IsRequested) \o SelectSeq(Innermost.items, LAMBDA o : ~IsDeclared(o))
    ELSE SelectSeq(Globals, IsDeclared) \o Innermost.items

(* Mutant of Plan: an option requested twice runs twice. *)
PlanRepeating(order) ==
  SelectSeq(Candidates(order), LAMBDA o : IsDeclared(o) \/ Innermost.scope.default)

Plan(order) ==
  FoldLeft(LAMBDA plan, o :
             IF (IF IsDeclared(o) THEN o \notin ToSet(plan) ELSE Innermost.scope.default)
               THEN Append(plan, o) ELSE plan,
           <<>>, Candidates(order))

Plannable(order) ==
  /\ InScope /\ ~Innermost.uncertain /\ ~Innermost.scope.processed
  /\ Innermost.name \in Classes \/ Innermost.scope.default \/ \A o \in ToSet(Candidates(order)) : IsDeclared(o)

(* The bodies of a plan are replayed together: the options they pass on are *)
(* published at the end, if none of their targets may have been loaded; no *)
(* more than MaxDeclared of them are passed on to a name.                  *)
Target(o) == IF IsDeclared(o) THEN Innermost.scope.body[o] ELSE Nothing
PassedOn(plan) ==
  [n \in Sources |-> forwarded[n] \o SelectSeq(plan, LAMBDA o : Target(o) = n)]
Forwardable(plan) ==
  /\ \A o \in ToSet(plan) : Target(o) # Nothing => Status(Target(o)) = "not loaded"
  /\ \A n \in Sources : Len(PassedOn(plan)[n]) <= MaxDeclared

ProcessOptions(order) ==
  /\ Plannable(order) /\ Forwardable(Plan(order))
  /\ forwarded' = PassedOn(Plan(order))
  /\ frames' = [frames EXCEPT ![Len(frames)].scope.processed = TRUE,
                              ![Len(frames)].real.processed = TRUE,
                              ![Len(frames)].ran = Plan(order)]
  /\ UNCHANGED <<markers, doubted, given, classOptions, trueMarkers, missed>>

(* \ExecuteOptions runs the declared ones of its own list. *)
ExecuteOptions(options) ==
  /\ InScope /\ ~Innermost.uncertain /\ ~Innermost.scope.processed
  /\ LET plan == SelectSeq(options, IsDeclared)
     IN  Forwardable(plan) /\ forwarded' = PassedOn(plan)
  /\ UNCHANGED <<markers, doubted, given, classOptions, frames, trueMarkers, missed>>

(* \PassOptionsToPackage; refused, it is deferred as a command. *)
ForwardOptions(o, n) ==
  /\ Idle /\ Status(n) = "not loaded" /\ Len(forwarded[n]) < MaxDeclared
  /\ forwarded' = [forwarded EXCEPT ![n] = Append(@, o)]
  /\ UNCHANGED <<markers, doubted, given, classOptions, frames, trueMarkers, missed>>

-----------------------------------------------------------------------------
(* The rest of what a source does to its packages. *)

BeginGroup ==
  /\ Idle /\ depth < MaxGroups
  /\ markers' = Pushed(markers) /\ trueMarkers' = TruePush(trueMarkers)
  /\ UNCHANGED <<doubted, given, classOptions, forwarded, frames, missed>>

(* A package that closes its caller's groups is left out. *)
EndGroup ==
  /\ Idle /\ depth > Innermost.depth
  /\ markers' = Popped(markers) /\ trueMarkers' = TruePop(trueMarkers)
  /\ UNCHANGED <<doubted, given, classOptions, forwarded, frames, missed>>

(* \let\ver@name\relax, or \let to another marker's meaning; a global one   *)
(* leaves no journal that could bring an absence back.                     *)
AssignMarker(n, meaning, global) ==
  /\ Idle
  /\ markers' = Assigned(markers, n, meaning, global)
  /\ trueMarkers' = TrueAssign(trueMarkers, n, meaning, global)
  /\ missed' = IF global THEN missed \ {n} ELSE missed
  /\ UNCHANGED <<doubted, given, classOptions, forwarded, frames>>

(* A retained region, and the requests that are visible in it. *)
Retain(visible) ==
  /\ Idle
  /\ DeferEffects(markers, frames, trueMarkers, visible)
  /\ doubted' = (doubted \/ visible # {})
  /\ missed' = IF visible = {} THEN missed ELSE {}
  /\ UNCHANGED <<given, classOptions, forwarded>>

EndPackage ==
  /\ Idle /\ Len(frames) > 1
  /\ frames' = Front(frames)
  /\ UNCHANGED <<markers, doubted, given, classOptions, forwarded, trueMarkers, missed>>

(* Reading stops inside a package: it is retained whole, and its caller     *)
(* resumes with the state of the handoff.                                  *)
RetainPackage ==
  /\ Len(frames) > 1
  /\ DeferEffects(Innermost.saved[1].markers, Front(frames),
                  SubSeq(trueMarkers, 1, Innermost.depth + 1), Sources)
  /\ doubted' = TRUE /\ missed' = {}
  /\ UNCHANGED <<given, classOptions, forwarded>>

Pairs == { <<n, m>> : n, m \in Sources } \ { <<n, n>> : n \in Sources }

Step ==
  \/ \E names \in { <<n>> : n \in Sources } \cup Pairs, options \in OptionLists : Request(names, options)
  \/ PackageLoaded \/ PackageUnsettled \/ PackageEntered \/ PackageFailed \/ PackageBound
  \/ \E o \in Options, target \in Sources \cup {Nothing} : DeclareOption(o, target)
  \/ DeclareDefault
  \/ \E order \in {"declaration", "request"} : ProcessOptions(order)
  \/ \E options \in OptionLists : ExecuteOptions(options)
  \/ \E o \in Options, n \in Sources : ForwardOptions(o, n)
  \/ BeginGroup \/ EndGroup
  \/ \E n \in Sources, meaning \in MarkerMeanings, global \in BOOLEAN : AssignMarker(n, meaning, global)
  \/ \E visible \in {{}, Sources} : Retain(visible)
  \/ EndPackage \/ RetainPackage

LoadsNext == Step /\ steps < MaxSteps /\ steps' = steps + 1

LoadsSpec == LoadsInit /\ [][LoadsNext]_loadVars

-----------------------------------------------------------------------------
(* Whether a package is loaded, the answer every request, \@ifpackageloaded *)
(* and \PassOptionsToPackage is decided by, is TeX's, now and after any     *)
(* number of group ends, or is not given; a missed name is answered        *)
(* without regard to what retained source may have loaded.                 *)
LoadsAreTrue ==
  Sound(DoubtedGlobally(markers, missed), trueMarkers, [i \in 1..(depth + 1) |-> [n \in Sources |-> Default]])

(* The options a package is held to have declared or processed are those   *)
(* it has, unless something retained may have touched them, in it or in a   *)
(* package it was reading.                                                 *)
ScopesAreTrue == \A i \in DOMAIN frames : frames[i].uncertain \/ frames[i].scope = frames[i].real

(* Both: what a session answers about packages is so. *)
PackagesAreTrue == LoadsAreTrue /\ ScopesAreTrue

(* A package that has processed its options ran every declared option that *)
(* it, or the class for it, was asked for, once, and its default action for *)
(* each of its own that it does not declare; no other package was refused. *)
OptionsAsTeX ==
  \A i \in DOMAIN frames :
    LET f == frames[i]
        class == f.name \in Classes
        asked == ToSet(f.items) \cup (IF class THEN {} ELSE ToSet(f.globals))
        declared == ToSet(f.scope.order)
        own(o) == Cardinality({ j \in DOMAIN f.items : f.items[j] = o })
    IN  f.scope.processed /\ ~f.uncertain =>
          \A o \in Options :
            Cardinality({ j \in DOMAIN f.ran : f.ran[j] = o }) =
              CASE o \in declared -> IF o \in asked THEN 1 ELSE 0
                [] f.scope.default -> own(o)
                [] OTHER -> 0
=============================================================================
