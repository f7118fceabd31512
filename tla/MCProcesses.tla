----------------------------- MODULE MCProcesses -----------------------------
(***************************************************************************)
(* The processes of a parallel run, for TLC: the table of S2E::fork and    *)
(* the semaphore that guards it.  Each is a specification of its own; part *)
(* says which of them takes the steps of a behaviour.  The table has one   *)
(* process id more than slots, so that it fills up and a process too many  *)
(* can ask for a slot.                                                     *)
(***************************************************************************)
EXTENDS ProcessTable, Synchronization

VARIABLE part

allVars == <<part, vars, syncVars>>

TableMoves == part = "table" /\ Next /\ UNCHANGED <<part, syncVars>>
SemaphoreMoves == part = "semaphore" /\ SyncNext /\ UNCHANGED <<part, vars>>

MCInit == part \in {"table", "semaphore"} /\ Init /\ SyncInit
MCNext == TableMoves \/ SemaphoreMoves

\* The operating system lets a process through when the semaphore allows it,
\* whichever it is; critical sections end.
MCSpec ==
    /\ MCInit /\ [][MCNext]_allVars
    /\ WF_allVars(SemaphoreMoves /\ \E p \in Process : Acquire(p))
    /\ \A p \in Process : WF_allVars(SemaphoreMoves /\ Release(p))
=============================================================================
