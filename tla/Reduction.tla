------------------------------ MODULE Reduction ------------------------------
(***************************************************************************)
(* What unreachableRemover promises: one call keeps exactly the blocks on  *)
(* some way from the entry to a return, the flow between them, and the phi *)
(* entries for that flow.  It is called again and again on one function.   *)
(***************************************************************************)
EXTENDS IRFunction

CONSTANT Calls   \* bound: how often it is called on one function

VARIABLES
  input,      \* the function the call is given
  output,     \* what the last call has left
  call,       \* the number of the call
  returned    \* whether it has returned

Init == input \in Function /\ output = Null /\ call = 1 /\ returned = FALSE

Reduce ==
  /\ ~returned /\ returned'
  /\ output' = Reduced(input)
  /\ UNCHANGED <<input, call>>

CallAgain ==
  /\ returned /\ ~returned'
  /\ call < Calls
  /\ \E b \in Block, fate \in Fate : input' = Learned(output, b, fate)
  /\ call' = call + 1
  /\ UNCHANGED output

Spec == Init /\ [][Reduce \/ CallAgain]_<<input, output, call, returned>>

=============================================================================
