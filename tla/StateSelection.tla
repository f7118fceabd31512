--------------------------- MODULE StateSelection ---------------------------
(***************************************************************************)
(* What the executor expects of a searcher: the state that runs next is    *)
(* one of the states that can run, and there is none only when all states  *)
(* are gone.                                                               *)
(***************************************************************************)
EXTENDS Integers

CONSTANT StateId

VARIABLES states, current, ended

selectionVars == <<states, current, ended>>

SelectionInit == states = {0} /\ current = 0 /\ ended = FALSE

\* States fork, end, are suspended and resumed.
Change == /\ ~ ended
          /\ states' \in SUBSET StateId
          /\ UNCHANGED <<current, ended>>

Pick == /\ ~ ended
        /\ current' \in states
        /\ UNCHANGED <<states, ended>>

End == /\ ~ ended /\ states = {}
       /\ ended' = TRUE
       /\ UNCHANGED <<states, current>>

SelectionNext == Change \/ Pick \/ End

SelectionSpec == SelectionInit /\ [][SelectionNext]_selectionVars
=============================================================================
