---------------------------- MODULE TokenRegisters ----------------------------
(***************************************************************************)
(* engine/token_registers.py: the scoped token registers.  Push, pop and   *)
(* assign are those of SaveJournal; the store differs in how it forgets: a *)
(* whole-store invalidation also marks the default of every register that  *)
(* was never written, a named one plants an uncertain value instead.       *)
(* `truth' is TeX's state beside the same source, as in IntegerParameters. *)
(***************************************************************************)
EXTENDS SaveJournal

CONSTANTS
  Registers,   (* The names "toks:n".                             *)
  Nameable,    (* Those an effect summary can name.               *)
  TokenLists,  (* The token lists assigned.                       *)
  EmptyList,   (* The empty list TeX initializes a register with. *)
  Initex,      (* The `initial' flag of the store.                *)
  MaxDepth     (* Bound on the open groups.                       *)

ASSUME RegistersAssumption ==
  /\ Nameable \subseteq Registers
  /\ Plain(TokenLists) /\ EmptyList \in TokenLists
  /\ Initex \in BOOLEAN /\ MaxDepth \in Nat

VARIABLES
  toks,             (* The store.                                            *)
  defaultUncertain, (* default_uncertain: unread registers may have changed. *)
  truth,            (* TeX's state: one table per level.                     *)
  missed            (* History: the registers a group end made absent again
                       although source named as global may have written them. *)

vars == <<toks, defaultUncertain, truth, missed>>

TypeOK ==
  /\ toks \in Stores(Registers, TokenLists)
  /\ defaultUncertain \in BOOLEAN
  /\ truth \in TruthTables(Registers, TokenLists)
  /\ Len(truth) = Depth(toks) + 1
  /\ Depth(toks) <= MaxDepth
  /\ missed \subseteq Nameable

Init ==
  /\ toks = [values |-> [k \in Registers |-> Absent], scopes |-> <<>>]
  /\ defaultUncertain = FALSE
  /\ \E table \in [Registers -> TokenLists] :
       /\ Initex => \A k \in Registers : table[k] = EmptyList
       /\ truth = <<table>>
  /\ missed = {}

(* Mutant of AbsentReads: default_uncertain is never looked at. *)
AbsentReadsInitial == IF Initex THEN EmptyList ELSE Uncertain

(* read: an absent register raises when the default is in doubt or there   *)
(* is no explicit initial state, and is the empty list otherwise.          *)
AbsentReads == IF Initex /\ ~defaultUncertain THEN EmptyList ELSE Uncertain
Read(k) == Reading(toks.values[k], AbsentReads)

-----------------------------------------------------------------------------
Push ==
  /\ Depth(toks) < MaxDepth
  /\ toks' = Pushed(toks)
  /\ truth' = TruePush(truth)
  /\ UNCHANGED <<defaultUncertain, missed>>

Pop ==
  /\ Depth(toks) > 0
  /\ toks' = Popped(toks)
  /\ truth' = TruePop(truth)
  /\ UNCHANGED <<defaultUncertain, missed>>

Assign(k, v, global) ==
  /\ toks' = Assigned(toks, k, v, global)
  /\ truth' = TrueAssign(truth, k, v, global)
  /\ UNCHANGED <<defaultUncertain, missed>>

(* invalidate(names=None): always called with its default global_ = True. *)
InvalidateAll ==
  /\ defaultUncertain' = TRUE
  /\ toks' = MarkEstablished(toks, Registers)
  /\ truth' \in UnknownWrites(truth, Registers, TokenLists, TRUE)
  /\ UNCHANGED missed

(* invalidate(names=...), local: every named register, absent or not, is   *)
(* saved once and becomes uncertain until the group ends.                  *)
InvalidateLocally(names) ==
  /\ toks' = DoubtedLocally(toks, names)
  /\ truth' \in UnknownWrites(truth, names, TokenLists, FALSE)
  /\ UNCHANGED <<defaultUncertain, missed>>

(* invalidate(names=...), global: absent registers get an uncertain value, *)
(* then every established entry, current or saved, is marked.              *)
InvalidateGlobally(names) ==
  LET planted == [toks EXCEPT !.values =
                    [k \in Registers |-> IF k \in names /\ toks.values[k] = Absent
                                           THEN Uncertain ELSE toks.values[k]]]
  IN  /\ toks' = MarkEstablished(planted, names)
      /\ truth' \in UnknownWrites(truth, names, TokenLists, TRUE)
      /\ missed' = missed \cup { k \in names : \E i \in 1..Depth(toks) : toks.scopes[i][k] = Absent }
      /\ UNCHANGED defaultUncertain

Next ==
  \/ Push
  \/ Pop
  \/ \E k \in Registers, v \in TokenLists, global \in BOOLEAN : Assign(k, v, global)
  \/ InvalidateAll
  \/ \E names \in SUBSET Nameable : InvalidateLocally(names)
  \/ \E names \in SUBSET Nameable : InvalidateGlobally(names)

Spec == Init /\ [][Next]_vars

-----------------------------------------------------------------------------
Default == [i \in 1..(Depth(toks) + 1) |-> [k \in Registers |-> AbsentReads]]

(* A token register never answers with a list that unexecuted source may   *)
(* have replaced, now or after any number of group ends, except that a     *)
(* named global write leaves the saved absence of a register alone         *)
(* (missed): what such a register reads as by default is nobody's promise. *)
ReadsAreTrue ==
  Sound(toks, truth, [i \in DOMAIN Default |->
                        [k \in Registers |-> IF k \in missed THEN Uncertain ELSE Default[i][k]]])

=============================================================================
