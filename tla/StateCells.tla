------------------------------ MODULE StateCells ------------------------------
(***************************************************************************)
(* engine/state_cells.py as the box registers use it (read_box and         *)
(* deliver_box of engine/content.py, box_dimension of its primitives).     *)
(* Besides the scoped writes of SaveJournal there are writes that save     *)
(* nothing: emptying a box by using it, and changing its dimensions, act   *)
(* on the register's current slot, whichever group filled it.              *)
(*                                                                         *)
(* `truth' is TeX's state as in SaveJournal, and `owner' its eq_level: the *)
(* level whose assignment filled the slot a box register has at a level.   *)
(***************************************************************************)
EXTENDS SaveJournal

CONSTANTS
  Boxes,       (* The register keys.                             *)
  Contents,    (* What a box can hold.                           *)
  Void,        (* The empty box, which every register starts as. *)
  Settled,     (* primitive_initial_state of the context.        *)
  MaxGroups    (* Bound on the open groups.                      *)

ASSUME BoxesAssumption ==
  /\ Plain(Contents \cup {Void})
  /\ Settled \in BOOLEAN /\ MaxGroups \in Nat

VARIABLES
  cells,             (* The store.         *)
  initialUncertain,  (* default_uncertain. *)
  trueBoxes,         (* TeX's state.       *)
  owner              (* TeX's eq_level.    *)

cellVars == <<cells, initialUncertain, trueBoxes, owner>>

BoxValues == Contents \cup {Void}

CellsTypeOK ==
  /\ cells \in Stores(Boxes, BoxValues)
  /\ initialUncertain \in BOOLEAN
  /\ trueBoxes \in TruthTables(Boxes, BoxValues) /\ Len(trueBoxes) = Depth(cells) + 1
  /\ owner \in TruthTables(Boxes, Nat) /\ Len(owner) = Depth(cells) + 1
  /\ Depth(cells) <= MaxGroups
  /\ \A i \in DOMAIN owner : \A k \in Boxes : owner[i][k] \in 1..i

CellsInit ==
  /\ cells = [values |-> [k \in Boxes |-> Absent], scopes |-> <<>>]
  /\ initialUncertain = FALSE
  /\ \E table \in [Boxes -> BoxValues] :
       /\ Settled => \A k \in Boxes : table[k] = Void
       /\ trueBoxes = <<table>>
  /\ owner = <<[k \in Boxes |-> 1]>>

(* initial(), and the check of primitive_initial_state before it. *)
VoidReads == IF Settled /\ ~initialUncertain THEN Void ELSE Uncertain
ReadBox(k) == Reading(cells.values[k], VoidReads)

-----------------------------------------------------------------------------
PushBoxes ==
  /\ Depth(cells) < MaxGroups
  /\ cells' = Pushed(cells)
  /\ trueBoxes' = TruePush(trueBoxes) /\ owner' = TruePush(owner)
  /\ UNCHANGED initialUncertain

PopBoxes ==
  /\ Depth(cells) > 0
  /\ cells' = Popped(cells)
  /\ trueBoxes' = TruePop(trueBoxes) /\ owner' = TruePop(owner)
  /\ UNCHANGED initialUncertain

(* deliver_box: \setbox, which may deliver nothing. *)
SetBox(k, box, global) ==
  /\ cells' = Assigned(cells, k, box, global)
  /\ trueBoxes' = TrueAssign(trueBoxes, k, box, global)
  /\ owner' = TrueAssign(owner, k, IF global THEN 1 ELSE Len(owner), global)
  /\ UNCHANGED initialUncertain

(* Mutant of update_current: the group's journal saves what it replaces. *)
UpdateSaving(k, box) == AssignedLocally(cells, k, box)

update_current(k, box) == [cells EXCEPT !.values[k] = box]

(* TeX writes into the slot: every level that shares it sees the new box. *)
TrueUpdate(k, box) ==
  [i \in DOMAIN trueBoxes |->
     [trueBoxes[i] EXCEPT ![k] = IF owner[i][k] = owner[Len(owner)][k] THEN box ELSE @]]

(* \box, \unhbox and the like: the box is read, and taken unless void. *)
Take(k) ==
  /\ ReadBox(k) \notin {Uncertain, Void}
  /\ cells' = update_current(k, Void)
  /\ trueBoxes' = TrueUpdate(k, Void)
  /\ UNCHANGED <<initialUncertain, owner>>

(* \wd, \ht, \dp: the current box gets other dimensions. *)
Resize(k, box) ==
  /\ ReadBox(k) \notin {Uncertain, Void}
  /\ cells' = update_current(k, box)
  /\ trueBoxes' = TrueUpdate(k, box)
  /\ UNCHANGED <<initialUncertain, owner>>

(* invalidate always covers the whole store. *)
DoubtBoxes ==
  /\ initialUncertain' = TRUE
  /\ cells' = MarkEstablished(cells, Boxes)
  /\ trueBoxes' \in UnknownWrites(trueBoxes, Boxes, BoxValues, TRUE)
  /\ UNCHANGED owner

CellsNext ==
  \/ PushBoxes \/ PopBoxes
  \/ \E k \in Boxes, box \in BoxValues, global \in BOOLEAN : SetBox(k, box, global)
  \/ \E k \in Boxes : Take(k)
  \/ \E k \in Boxes, box \in Contents : Resize(k, box)
  \/ DoubtBoxes

CellsSpec == CellsInit /\ [][CellsNext]_cellVars

-----------------------------------------------------------------------------
(* Two levels share a slot in TeX exactly when no journal between them has *)
(* saved the register: an unsaved write reaches just the levels that have  *)
(* nothing to restore.                                                     *)
SlotsAreShared ==
  \A k \in Boxes : \A j \in 1..(Depth(cells) + 1) : \A i \in 1..j :
    owner[i][k] = owner[j][k] <=> \A m \in i..(j - 1) : cells.scopes[m][k] = NotSaved

(* A box register never answers with a box that TeX has used up, resized   *)
(* or replaced, now or after any number of group ends: a box emptied in a  *)
(* group stays empty outside it exactly if the group had not filled it.    *)
CellsAreTrue ==
  Sound(cells, trueBoxes, [i \in DOMAIN trueBoxes |-> [k \in Boxes |-> VoidReads]])

=============================================================================
