--------------------------- MODULE Synchronization ---------------------------
(***************************************************************************)
(* The lock of S2ESynchronizedObject: a semaphore in shared memory, in     *)
(* front of the object (the builds without CONFIG_DARWIN).                 *)
(***************************************************************************)
EXTENDS Integers, FiniteSets

CONSTANT Process

ASSUME ProcessAssumption == IsFiniteSet(Process)

VARIABLES lock,      \* SyncHeader: the value of the semaphore
          at         \* where each process stands

syncVars == <<lock, at>>

\* "waiting": in the loop of aquire.   "holding": between aquire and release.
\* "orphan": died between the two, which leaves the lock taken.
At == {"outside", "waiting", "holding", "orphan", "dead"}

In(where) == {p \in Process : at[p] \in where}
Move(p, where) == at' = [at EXCEPT ![p] = where]

SyncInit ==
    /\ lock = 1
    /\ at = [p \in Process |-> "outside"]

\* aquire is called.
Enter(p) ==
    /\ at[p] = "outside"
    /\ Move(p, "waiting")
    /\ UNCHANGED lock

\* Mutant of Acquire: a sem_wait that a signal interrupts is not retried.
Acquire_NoRetry(p) ==
    /\ at[p] = "waiting"
    /\ Move(p, "holding")
    /\ lock' = IF lock > 0 THEN lock - 1 ELSE lock

\* aquire returns: sem_wait has taken the semaphore.  A call that a signal
\* interrupts is retried and changes nothing.
Acquire(p) ==
    /\ at[p] = "waiting"
    /\ lock > 0
    /\ lock' = lock - 1
    /\ Move(p, "holding")

\* tryAquire: NULL when the semaphore is 0.
TryAcquire(p) ==
    /\ at[p] = "outside"
    /\ IF lock > 0 THEN lock' = lock - 1 /\ Move(p, "holding") ELSE UNCHANGED syncVars

\* Mutant of Release: the semaphore is not posted.
Release_NoPost(p) ==
    /\ at[p] = "holding"
    /\ Move(p, "outside")
    /\ UNCHANGED lock

Release(p) ==
    /\ at[p] = "holding"
    /\ lock' = lock + 1
    /\ Move(p, "outside")

\* A process dies; nothing releases a lock it holds.
Die(p) ==
    /\ at[p] \in {"outside", "waiting", "holding"}
    /\ Move(p, IF at[p] = "holding" THEN "orphan" ELSE "dead")
    /\ UNCHANGED lock

SyncNext == \E p \in Process : Enter(p) \/ Acquire(p) \/ TryAcquire(p) \/ Release(p) \/ Die(p)

SyncSpec == SyncInit /\ [][SyncNext]_syncVars

-----------------------------------------------------------------------------
\* The semaphore never goes below zero and every process is at a known place
\* around the critical section.
SyncTypeOK ==
    /\ lock \in Nat
    /\ at \in [Process -> At]

\* At most one process is between aquire and release, also when tryAquire
\* succeeds, a wait is interrupted or a process dies: what makes a critical
\* section of S2E and StateManager one step of the other modules.
MutualExclusion == \A p, q \in In({"holding"}) : p = q

\* The lock is taken exactly when a process holds it or died holding it: no
\* release is lost and none frees a lock that somebody else holds.
LockAccounted == lock + Cardinality(In({"holding", "orphan"})) = 1

\* A process that waits does not wait in front of a free lock forever.
WaiterEnters ==
    (In({"waiting"}) # {} /\ In({"orphan"}) = {}) ~>
        (In({"holding", "orphan"}) # {} \/ In({"waiting"}) = {})
=============================================================================
