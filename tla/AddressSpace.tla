---------------------------- MODULE AddressSpace ----------------------------
(***************************************************************************)
(* KLEE's address spaces.  A state that forks shares every object with the *)
(* new state, and an object is copied when a state that does not own it    *)
(* writes to it.  Who owns an object is not recorded by name: an object    *)
(* has the key of the address space that made it (copyOnWriteOwner), and a *)
(* fork gives both address spaces the next key, so that keys are not       *)
(* unique.                                                                 *)
(***************************************************************************)
EXTENDS Naturals, TLAPS

CONSTANTS State,    \* the execution states
          Object,   \* the memory objects (MemoryObject)
          Byte,     \* the offsets in an object
          Value,    \* the values of a byte
          Fresh,    \* the contents a new ObjectState may have
          Copy,     \* the contents in memory (ObjectState)
          None,     \* no binding
          MaxKey    \* bound: the largest key a fork gives

ASSUME SpaceAssumption ==
    None \notin Copy /\ None \notin [Byte -> Value] /\ Fresh \subseteq [Byte -> Value] /\ MaxKey \in Nat

VARIABLES live,     \* the states that exist
          cowKey,   \* AddressSpace::cowKey of every state
          objects,  \* AddressSpace::objects of every state
          owner,    \* ObjectState::copyOnWriteOwner
          store     \* the bytes of an ObjectState

vars == <<live, cowKey, objects, owner, store>>

\* An ObjectState exists as long as an address space holds it (ObjectHolder).
Held == {objects[s][mo] : s \in live, mo \in Object} \ {None}

Init ==
    /\ \E s \in State : live = {s}
    /\ cowKey = [s \in State |-> 1]
    /\ objects = [s \in State |-> [mo \in Object |-> None]]
    /\ owner = [o \in Copy |-> 0]
    /\ store \in [Copy -> Fresh]

\* A new ObjectState, which nobody owns, is bound in place of the old one.
bindObject(s, mo, n, c) ==
    /\ s \in live /\ n \in Copy \ Held
    /\ owner' = [owner EXCEPT ![n] = cowKey[s]]
    /\ store' = [store EXCEPT ![n] = c]
    /\ objects' = [objects EXCEPT ![s][mo] = n]
    /\ UNCHANGED <<live, cowKey>>

unbindObject(s, mo) ==
    /\ s \in live
    /\ objects' = [objects EXCEPT ![s][mo] = None]
    /\ UNCHANGED <<live, cowKey, owner, store>>

\* n is what getWriteable returns: the object itself, or a new copy of it.
getWriteable(s, mo, n) ==
    IF cowKey[s] = owner[objects[s][mo]] THEN n = objects[s][mo] ELSE n \in Copy \ Held

\* Mutant of write: the copy does not get the bytes of the original.
write_EmptyCopy(s, mo, n, b, v) ==
    /\ s \in live /\ objects[s][mo] # None
    /\ getWriteable(s, mo, n)
    /\ owner' = [owner EXCEPT ![n] = cowKey[s]]
    /\ store' = [store EXCEPT ![n][b] = v]
    /\ objects' = [objects EXCEPT ![s][mo] = n]
    /\ UNCHANGED <<live, cowKey>>

\* The handler of a store: getWriteable binds a copy and owns it, and the
\* write changes one byte of what getWriteable returned.
write(s, mo, n, b, v) ==
    /\ s \in live /\ objects[s][mo] # None
    /\ getWriteable(s, mo, n)
    /\ owner' = [owner EXCEPT ![n] = cowKey[s]]
    /\ store' = [store EXCEPT ![n] = [store[objects[s][mo]] EXCEPT ![b] = v]]
    /\ objects' = [objects EXCEPT ![s][mo] = n]
    /\ UNCHANGED <<live, cowKey>>

\* Mutant of clone: only the new address space gets a new key.
clone_KeepsKey(s, t) ==
    /\ s \in live /\ t \in State \ live /\ cowKey[s] < MaxKey
    /\ live' = live \cup {t}
    /\ cowKey' = [cowKey EXCEPT ![t] = cowKey[s] + 1]
    /\ objects' = [objects EXCEPT ![t] = objects[s]]
    /\ UNCHANGED <<owner, store>>

\* The copy constructor: ++b.cowKey is the key of both.
clone(s, t) ==
    /\ s \in live /\ t \in State \ live /\ cowKey[s] < MaxKey
    /\ live' = live \cup {t}
    /\ cowKey' = [cowKey EXCEPT ![s] = cowKey[s] + 1, ![t] = cowKey[s] + 1]
    /\ objects' = [objects EXCEPT ![t] = objects[s]]
    /\ UNCHANGED <<owner, store>>

\* The destructor of a state releases its objects.
delete(s) ==
    /\ s \in live
    /\ live' = live \ {s}
    /\ objects' = [objects EXCEPT ![s] = [mo \in Object |-> None]]
    /\ UNCHANGED <<cowKey, owner, store>>

Next ==
    \E s \in State :
        \/ \E mo \in Object, n \in Copy, c \in Fresh : bindObject(s, mo, n, c)
        \/ \E mo \in Object : unbindObject(s, mo)
        \/ \E mo \in Object, n \in Copy, b \in Byte, v \in Value : write(s, mo, n, b, v)
        \/ \E t \in State : clone(s, t)
        \/ delete(s)

Spec == Init /\ [][Next]_vars

-----------------------------------------------------------------------------
TypeOK ==
    /\ live \in SUBSET State
    /\ cowKey \in [State -> Nat]
    /\ objects \in [State -> [Object -> Copy \cup {None}]]
    /\ owner \in [Copy -> Nat]
    /\ store \in [Copy -> [Byte -> Value]]

\* AddressSpace.h: "forall o in objects, o->copyOnWriteOwner <= cowKey".
OwnersBounded ==
    \A s \in live, mo \in Object :
        objects[s][mo] # None => owner[objects[s][mo]] <= cowKey[s]

\* clone makes "all ObjectState ... not owned by neither of states": what two
\* states share is older than the keys of both, although two states may have
\* the same key, so that neither writes to it in place.
SharedNotOwned ==
    \A s, t \in live, mo, mp \in Object :
        /\ s # t
        /\ objects[s][mo] # None
        /\ objects[s][mo] = objects[t][mp]
        => owner[objects[s][mo]] < cowKey[s]

\* A copy is bound to one memory object, in every state that holds it.
OneObjectPerCopy ==
    \A s, t \in live, mo, mp \in Object :
        objects[s][mo] # None /\ objects[s][mo] = objects[t][mp] => mo = mp

Content(s, mo) == IF objects[s][mo] = None THEN None ELSE store[objects[s][mo]]

Private == INSTANCE PathMemory
    WITH Unbound <- None, mem <- [s \in State |-> [mo \in Object |-> Content(s, mo)]]

\* Sharing is not visible: every state has a memory of its own, and a store of
\* one state leaves the memory of all the others as it is.
PrivateMemories == Private!PathSpec
=============================================================================
