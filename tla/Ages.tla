-------------------------------- MODULE Ages --------------------------------
(***************************************************************************)
(* Timestamps.  A timestamp column is represented by its age: the time     *)
(* since it was written, in units of which the timeouts are multiples.  A  *)
(* column that holds NULL has the age Never.  Ages saturate at a horizon   *)
(* above the thresholds they are compared with: no query tells larger ages *)
(* apart.                                                                  *)
(***************************************************************************)
EXTENDS Integers

Never == -1

AgesTo(horizon) == {Never} \cup 0 .. horizon

(* SQL's comparison with NULL is not true, so a column that was never       *)
(* written is never stale.                                                  *)
OlderThan(age, limit) == age # Never /\ age > limit

(* One unit of time passes.                                                 *)
Aged(age, horizon) == IF age = Never \/ age = horizon THEN age ELSE age + 1
=============================================================================
