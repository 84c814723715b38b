------------------------------- MODULE Delivery -------------------------------
(***************************************************************************)
(* What preprocess_paper promises of its outputs, seen between calls: a    *)
(* call either delivers its own payload to every output at once, or leaves *)
(* every output as it was.  Only a crash or a failed rollback suspends     *)
(* the promise, until the next delivery.                                   *)
(***************************************************************************)
EXTENDS Naturals

CONSTANT Outputs   (* The places a payload is delivered to. *)

VARIABLES
  outputs,     (* The payload of each output, 0 for none. *)
  latest,      (* How many calls have begun.              *)
  attempting,  (* Whether a call is in progress.          *)
  inPlace      (* Whether the outputs can be relied on.   *)

vars == <<outputs, latest, attempting, inPlace>>

Init ==
  /\ latest \in Nat
  /\ outputs = [o \in Outputs |-> latest]
  /\ attempting = FALSE
  /\ inPlace = TRUE

Begin ==
  /\ ~attempting
  /\ attempting' = TRUE
  /\ latest' = latest + 1
  /\ UNCHANGED <<outputs, inPlace>>

Deliver ==
  /\ attempting
  /\ outputs' = [o \in Outputs |-> latest]
  /\ inPlace' = TRUE
  /\ UNCHANGED <<latest, attempting>>

End ==
  /\ attempting
  /\ attempting' = FALSE
  /\ UNCHANGED <<outputs, latest, inPlace>>

Strand ==
  /\ attempting
  /\ inPlace' = FALSE
  /\ attempting' \in BOOLEAN
  /\ UNCHANGED <<outputs, latest>>

Next == Begin \/ Deliver \/ End \/ Strand

Spec == Init /\ [][Next]_vars

=============================================================================
