------------------------------ MODULE ItemFeed ------------------------------
(***************************************************************************)
(* What a reader of a row file promises, whatever pieces its bytes arrive  *)
(* in: the items of the file one by one, then either the end or one error, *)
(* and nothing after that.                                                 *)
(***************************************************************************)
EXTENDS Naturals, Sequences

CONSTANTS
  Items(_),     \* the whole items of a file, in order
  Damaged(_)    \* whether something other than an item follows them

VARIABLES
  file,      \* the file read; never changes
  fed,       \* the items handed out
  outcome    \* open, end or error

Init == fed = <<>> /\ outcome = "open"

Feed ==
  /\ outcome = "open"
  /\ Len(fed) < Len(Items(file))
  /\ fed' = Append(fed, Items(file)[Len(fed) + 1])
  /\ UNCHANGED <<file, outcome>>

End ==
  /\ outcome = "open"
  /\ fed = Items(file) /\ ~Damaged(file)
  /\ outcome' = "end"
  /\ UNCHANGED <<file, fed>>

\* At the damage, or wherever a read fails.
Fail ==
  /\ outcome = "open"
  /\ outcome' = "error"
  /\ UNCHANGED <<file, fed>>

Spec == Init /\ [][Feed \/ End \/ Fail]_<<file, fed, outcome>>
=============================================================================
