----------------------------- MODULE Aggregate -----------------------------
(* How the modules about domain entities write a method: as the set of the  *)
(* entities it may leave.  A method that throws leaves none.                *)

Throws == {}

\* A method that throws unless ok holds and otherwise leaves entity e.
When(ok, e) == IF ok THEN {e} ELSE Throws

\* The second method is called on what the first one left.
Then(first, second(_)) == UNION {second(e) : e \in first}
=============================================================================
