----------------------------- MODULE TbReferences -----------------------------
(***************************************************************************)
(* Who keeps the LLVM code of a translation block alive.  QEMU frees a     *)
(* block when it flushes its buffer or drops a single-use block, at a time *)
(* when states that were forked inside the block still have its LLVM       *)
(* function on their stack and will go on in it when they are selected.    *)
(* The function therefore belongs to an S2ETranslationBlock with a count   *)
(* of references: one from the block, and one from every state whose last  *)
(* block it was (m_lastS2ETb), until the state is deleted.                 *)
(***************************************************************************)
EXTENDS Integers, FiniteSets

CONSTANTS
    MaxTb,       \* code_gen_max_blocks
    MaxStateId   \* the number of states ever created

ASSUME ReferencesAssumption ==
    /\ MaxTb \in Nat \ {0}
    /\ MaxStateId \in Nat \ {0}

VARIABLES
    tbs,      \* the S2ETranslationBlocks of the blocks in tbs[0 .. nb_tbs - 1]
    s2e_tb,   \* the S2ETranslationBlocks: reference count and function
    st,       \* the states that exist: m_lastS2ETb, function on the stack
    deleted,  \* m_deletedStates
    current,  \* g_s2e_state
    nextId

vars == <<tbs, s2e_tb, st, deleted, current, nextId>>

State == 1 .. MaxStateId

(* Enough objects for every block and every state to refer to another. *)
S2ETb == 1 .. MaxTb + MaxStateId + 1

(* A state that does not exist, or refers to none. *)
NoTb == 0

(* The function of an object: not generated, in the module, removed. *)
Function == {"none", "present", "removed"}

View == [tbs |-> tbs, s2e |-> s2e_tb, st |-> st]

Install(v) == tbs' = v.tbs /\ s2e_tb' = v.s2e /\ st' = v.st

-----------------------------------------------------------------------------
(* k calls of unrefS2ETb() for one object: the last reference takes the    *)
(* function with it.                                                       *)
unrefS2ETb(r, k) ==
    [refCount |-> r.refCount - k,
     function |-> IF k > 0 /\ r.refCount = k /\ r.function = "present"
                  THEN "removed" ELSE r.function]

(* The references of the objects are dropped as often as refs says. *)
unrefAll(objects, refs) == [o \in S2ETb |-> unrefS2ETb(objects[o], refs[o])]

(* Who refers to an object: the blocks in a set, the states in a set. *)
Once(objects) == [o \in S2ETb |-> Cardinality(objects \cap {o})]

LastOf(states) ==
    [o \in S2ETb |-> Cardinality({s \in states : st[s].last = o})]

(* `new S2ETranslationBlock': an object that nothing refers to. *)
free(v) ==
    CHOOSE o \in S2ETb : /\ v.s2e[o].refCount = 0
                         /\ \A s \in State : o \notin {v.st[s].last, v.st[s].frame}

s2e_tb_alloc(v) ==
    LET o == free(v)
    IN  [v EXCEPT !.tbs = @ \cup {o},
                  !.s2e[o] = [refCount |-> 1, function |-> "none"]]

tb_flush(v) == [v EXCEPT !.s2e = unrefAll(v.s2e, Once(v.tbs)), !.tbs = {}]

(* The deleted states give up their references. *)
freeStates(v, states) ==
    [v EXCEPT !.s2e = unrefAll(v.s2e, LastOf(states)),
              !.st = [s \in State |-> IF s \in states
                                      THEN [last |-> NoTb, frame |-> NoTb]
                                      ELSE v.st[s]]]

-----------------------------------------------------------------------------
Init ==
    /\ tbs = {}
    /\ s2e_tb = [o \in S2ETb |-> [refCount |-> 0, function |-> "none"]]
    /\ st = [s \in State |-> [last |-> NoTb, frame |-> NoTb]]
    /\ deleted = {}
    /\ current = 1
    /\ nextId = 2

(* tb_gen_code(): a full buffer is flushed first. *)
GenCode ==
    /\ current \notin deleted
    /\ st[current].frame = NoTb
    /\ Install(s2e_tb_alloc(IF Cardinality(tbs) >= MaxTb THEN tb_flush(View)
                                                        ELSE View))
    /\ UNCHANGED <<deleted, current, nextId>>

(* Mutant: the reference to the last block is overwritten. *)
ExecuteKlee_KeepsLast(o) ==
    /\ current \notin deleted
    /\ st[current].frame = NoTb
    /\ o \in tbs
    /\ LET made == [s2e_tb EXCEPT ![o].function = "present"]
       IN  s2e_tb' = IF st[current].last = o THEN made
                     ELSE [made EXCEPT ![o].refCount = @ + 1]
    /\ st' = [st EXCEPT ![current] = [last |-> o, frame |-> o]]
    /\ UNCHANGED <<tbs, deleted, current, nextId>>

(* executeTranslationBlockKlee() starts the function of a block, which is  *)
(* generated if there is none yet; a chained block is started likewise     *)
(* after the frame of the block before was popped.                         *)
ExecuteKlee(o) ==
    /\ current \notin deleted
    /\ st[current].frame = NoTb
    /\ o \in tbs
    /\ LET made == [s2e_tb EXCEPT ![o].function = "present"]
       IN  s2e_tb' = IF st[current].last = o THEN made
                     ELSE [unrefAll(made, LastOf({current})) EXCEPT ![o].refCount = @ + 1]
    /\ st' = [st EXCEPT ![current] = [last |-> o, frame |-> o]]
    /\ UNCHANGED <<tbs, deleted, current, nextId>>

(* The function returns; or the execution is abandoned and                 *)
(* cleanupTranslationBlock() pops its frame.  A state that was forked in a *)
(* block comes to this through finalizeTranslationBlockExec().             *)
Return ==
    /\ st[current].frame # NoTb
    /\ st' = [st EXCEPT ![current].frame = NoTb]
    /\ UNCHANGED <<tbs, s2e_tb, deleted, current, nextId>>

(* clone(): the new state has the same frame and the same last block. *)
Fork ==
    /\ current \notin deleted
    /\ st[current].frame # NoTb
    /\ nextId <= MaxStateId
    /\ st' = [st EXCEPT ![nextId] = st[current]]
    /\ s2e_tb' = [s2e_tb EXCEPT ![st[current].last].refCount = @ + 1]
    /\ nextId' = nextId + 1
    /\ UNCHANGED <<tbs, deleted, current>>

(* A state is terminated; it is deleted when the next one is selected. *)
Terminate(s) ==
    /\ s < nextId
    /\ s \notin deleted
    /\ deleted' = deleted \cup {s}
    /\ UNCHANGED <<tbs, s2e_tb, st, current, nextId>>

(* selectNextState(): the blocks may be flushed on the switch              *)
(* (FlushTBsOnStateSwitch), then the deleted states are freed.  The state  *)
(* left is not in a block: its frames were popped on the way to the loop.  *)
SelectNextState(s, flush) ==
    /\ st[current].frame = NoTb
    /\ s < nextId
    /\ s \notin deleted
    /\ LET v == IF flush /\ s # current THEN tb_flush(View) ELSE View
       IN  Install(freeStates(v, deleted))
    /\ current' = s
    /\ UNCHANGED <<deleted, nextId>>

(* selectNonSpeculativeState(): "All states were terminated". *)
AllTerminated ==
    /\ st[current].frame = NoTb
    /\ deleted = 1 .. nextId - 1
    /\ Install(freeStates(View, deleted))
    /\ UNCHANGED <<deleted, current, nextId>>

(* cpu_exec_nocache() has run a single-use block, and tb_free()s it. *)
FreeTb(o) ==
    /\ current \notin deleted
    /\ st[current].frame = NoTb
    /\ o \in tbs
    /\ Install([View EXCEPT !.s2e = unrefAll(s2e_tb, Once({o})), !.tbs = @ \ {o}])
    /\ UNCHANGED <<deleted, current, nextId>>

Next ==
    \/ GenCode
    \/ \E o \in S2ETb : ExecuteKlee(o)
    \/ Return
    \/ Fork
    \/ \E s \in State : Terminate(s)
    \/ \E s \in State, flush \in BOOLEAN : SelectNextState(s, flush)
    \/ AllTerminated
    \/ \E o \in S2ETb : FreeTb(o)

Spec == Init /\ [][Next]_vars

-----------------------------------------------------------------------------
(* Properties *)

(* The variables have the values the code declares (S2ETranslationBlock,   *)
(* m_lastS2ETb), and a function on the stack is that of the last block.    *)
TypeOK ==
    /\ tbs \subseteq S2ETb
    /\ Cardinality(tbs) <= MaxTb
    /\ \A o \in S2ETb : /\ s2e_tb[o].refCount \in 0 .. MaxTb + MaxStateId
                        /\ s2e_tb[o].function \in Function
    /\ \A s \in State : st[s].frame \in {NoTb, st[s].last}

(* No state, running or waiting, has a function on its stack that was      *)
(* removed from the module: unrefS2ETb() removes it only when neither QEMU *)
(* nor a state can come back to it, in whatever order blocks are flushed   *)
(* and states forked, selected and deleted.                                *)
FunctionsAlive ==
    \A s \in State : st[s].frame # NoTb => s2e_tb[st[s].frame].function = "present"

(* refCount is the number of blocks and states that refer to the object,   *)
(* so the code of a block that nothing refers to is always removed: no     *)
(* function outlives its block and the states that ran it.                 *)
CountsExact ==
    \A o \in S2ETb :
        /\ s2e_tb[o].refCount = Cardinality(tbs \cap {o})
                                  + Cardinality({s \in State : st[s].last = o})
        /\ s2e_tb[o].refCount = 0 => s2e_tb[o].function # "present"

=============================================================================
