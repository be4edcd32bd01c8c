------------------------------ MODULE OneFetch ------------------------------
(***************************************************************************)
(* What fetchWithProgress promises its callers, however many attempts and  *)
(* evictions it takes: each is answered once, with a body it accepts or    *)
(* with an error, and the copy kept for later visits only ever becomes     *)
(* what some caller was given, or none.                                    *)
(***************************************************************************)

CONSTANTS
    Callers,
    Contents,  \* bodies that may arrive or have been kept
    Accepted,  \* of each caller, those its verify function accepts, or all
    Nothing    \* no body

VARIABLES
    kept,      \* the copy kept for later visits, or Nothing
    told       \* what came of each caller's latest call, and the body if any

oneVars == <<kept, told>>

Without(outcome) == [outcome |-> outcome, body |-> Nothing]

OneInit ==
    /\ kept \in Contents \cup {Nothing}
    /\ told = [f \in Callers |-> Without("asking")]

\* A body is found or fetched, and kept for next time if it can be.
Answer(f) ==
    /\ told[f].outcome = "asking"
    /\ \E b \in Accepted[f] :
        /\ told' = [told EXCEPT ![f] = [outcome |-> "answered", body |-> b]]
        /\ kept' \in {b, kept}

\* There is none to be had.
Fail(f) ==
    /\ told[f].outcome = "asking"
    /\ told' = [told EXCEPT ![f] = Without("error")]
    /\ UNCHANGED kept

\* A call that refused the kept copy forgets whatever is kept by then.
Forget(f) ==
    /\ told[f].outcome = "asking"
    /\ kept' = Nothing
    /\ UNCHANGED told

\* The caller calls again.
Again(f) ==
    /\ told[f].outcome # "asking"
    /\ told' = [told EXCEPT ![f] = Without("asking")]
    /\ UNCHANGED kept

OneNext == \E f \in Callers : Answer(f) \/ Fail(f) \/ Forget(f) \/ Again(f)

OneSpec == OneInit /\ [][OneNext]_oneVars
=============================================================================
