--------------------------- MODULE SearcherClient ---------------------------
(***************************************************************************)
(* The executor as the user of a searcher: the calls of update, addState,  *)
(* removeState and selectState that S2E makes while its states run, fork,  *)
(* end, succeed and are killed, in their order.  Only the timer selects a  *)
(* state, and an update comes with every instruction and every exit from   *)
(* the CPU loop.                                                           *)
(***************************************************************************)
EXTENDS Searchers

CONSTANTS MaxStateId,        \* bound on the number of states
          Setups,            \* the ways to start S2E: which searcher it has, whether
                             \* plugin StateManager suspends and resumes states, and
                             \* whether forks are concolic
          GuestMisnames,     \* the guest passes ids that do not exist
          MergesCleanly      \* one merge request per time slice, and the current
                             \* state is never the one that is merged away

ASSUME ClientAssumption ==
    /\ MaxStateId \in Nat \ {0}
    /\ Setups \subseteq [kind : Kinds, stateManager : BOOLEAN, concolic : BOOLEAN]
    /\ {GuestMisnames, MergesCleanly} \subseteq BOOLEAN

VARIABLES setup,            \* the one S2E was started with
          searcher, states,
          suspended, zombies, speculative,
          removedStates,    \* terminated, the next updateStates removes them
          current,          \* g_s2e_state
          lastStateId, mode, aborted

vars == <<setup, searcher, states, suspended, zombies, speculative, removedStates,
          current, lastStateId, mode, aborted>>

UseStateManager == setup.stateManager
ConcolicMode == setup.concolic

StateId == 0 .. MaxStateId - 1
MergePoint == {"p", "q"}
Metric == 0 .. 2

View ==
    [searcher |-> searcher, states |-> states, suspended |-> suspended,
     zombies |-> zombies, speculative |-> speculative, removed |-> removedStates,
     target |-> <<>>, aborted |-> aborted]

Install(view) ==
    \E x \in {view} :
        /\ UNCHANGED setup
        /\ searcher' = x.searcher /\ states' = x.states
        /\ suspended' = x.suspended /\ zombies' = x.zombies
        /\ speculative' = x.speculative /\ removedStates' = x.removed
        /\ aborted' = IF x.aborted = "no" THEN x.searcher.err ELSE x.aborted

CallUpdate(x, cur, added, removed) ==
    [x EXCEPT !.searcher = update(@, x, cur, added, removed)]

Init ==
    /\ setup \in Setups
    /\ searcher = update(New(setup.kind), [zombies |-> {}, speculative |-> {}, target |-> <<>>],
                         NoState, <<0>>, {})
    /\ states = {0} /\ suspended = {} /\ zombies = {} /\ speculative = {}
    /\ removedStates = {} /\ current = 0 /\ lastStateId = 1
    /\ mode = "exec" /\ aborted = "no"

-----------------------------------------------------------------------------
(* The executor's functions on a view.                                      *)

updateStates(x, added) ==
    LET y == CallUpdate(x, current, added, x.removed) IN
    [y EXCEPT !.states = (@ \cup ToSet(added)) \ x.removed, !.removed = {}, !.target = <<>>]

Settle(x) == updateStates(x, <<>>)

suspendState(x, s) ==
    LET y == CallUpdate(x, NoState, <<>>, {s}) IN
    [y EXCEPT !.states = @ \ {s}, !.suspended = @ \cup {s}]

resumeState(x, s) ==
    LET y == CallUpdate(x, NoState, <<s>>, {}) IN
    [y EXCEPT !.states = @ \cup {s}, !.suspended = @ \ {s}]

resumeAll(x) == FoldSet(LAMBDA s, acc : resumeState(acc, s), x, x.suspended)

terminateStateAtFork(x, s) ==
    LET y == IF s \in x.suspended THEN resumeState(x, s) ELSE x IN
    [y EXCEPT !.removed = @ \cup {s}]

terminateState(x, s) == [terminateStateAtFork(x, s) EXCEPT !.zombies = @ \cup {s}]

terminateAll(x, kill) == FoldSet(LAMBDA s, acc : terminateState(acc, s), x, kill)

-----------------------------------------------------------------------------
(* What the current state does.                                             *)

\* A state that was suspended, or queued for a merge, runs on until the timer.
Runs == mode = "exec" /\ aborted = "no" /\ current \notin zombies

Become(x) == Install(x) /\ UNCHANGED <<current, lastStateId, mode>>

\* An instruction that changes no set.
Step == Runs /\ Become(Settle(View))

\* Fork and multi-way branch.  MaxTbSearcher may find out where the new states
\* are going.
Fork ==
    /\ Runs /\ ~ ConcolicMode
    /\ \E n \in 1 .. 2 :
          /\ lastStateId + n <= MaxStateId
          /\ LET new == lastStateId .. lastStateId + n - 1 IN
             \E order \in SetToSeqs(new) :
             \E target \in {<<>>} \cup (IF searcher.kind = "MaxTb" THEN [new -> Metric] ELSE {}) :
                Install(updateStates([View EXCEPT !.target = target], order))
          /\ lastStateId' = lastStateId + n
    /\ UNCHANGED <<current, mode>>

ConcolicFork ==
    /\ Runs /\ ConcolicMode
    /\ lastStateId < MaxStateId
    /\ Install(updateStates([View EXCEPT !.speculative = @ \cup {lastStateId}], <<lastStateId>>))
    /\ lastStateId' = lastStateId + 1
    /\ UNCHANGED <<current, mode>>

TerminateCurrent == Runs /\ Become(Settle(terminateState(View, current)))

\* Over the memory limit, or killed by a plugin.
KillOthers ==
    /\ Runs
    /\ \E kill \in SUBSET (states \ {current}) \ {{}} : Become(Settle(terminateAll(View, kill)))

\* StateManager::succeedState, and the exit from the CPU loop.
Succeed ==
    /\ Runs /\ UseStateManager
    /\ current \in states
    /\ Become(Settle(suspendState(View, current)))

TimePasses ==
    /\ Runs
    /\ searcher.kind \in {"Batching", "IterativeDeepening"} /\ ~ searcher.late
    /\ searcher' = [searcher EXCEPT !.late = TRUE]
    /\ UNCHANGED <<setup, states, suspended, zombies, speculative, removedStates,
                   current, lastStateId, mode, aborted>>

ScheduleNext ==
    /\ Runs /\ searcher.kind = "Cooperative"
    /\ \E id \in StateId :
          /\ id \in searcher.m_states \/ GuestMisnames
          /\ Become(Settle([View EXCEPT !.searcher = scheduleNext(@, id)]))

Yield ==
    /\ Runs /\ searcher.kind = "Cooperative"
    /\ Become(Settle([View EXCEPT !.searcher = yield(@)]))

TraceTb ==
    /\ Runs /\ searcher.kind = "MaxTb"
    /\ \E m \in Metric : Become(Settle([View EXCEPT !.searcher = onTraceTb(@, current, m)]))

QueueForMerge ==
    /\ Runs /\ searcher.kind = "Merging"
    /\ MergesCleanly => current \notin DOMAIN searcher.atMerge
    /\ \E p \in MergePoint :
          Become(Settle([View EXCEPT !.searcher = queueStateForMerge(@, current, p)]))

-----------------------------------------------------------------------------
(* The timer.                                                               *)

\* doLoadBalancing terminates half of the states, here or in the child.
LoadBalanced(x) ==
    LET n == Cardinality(x.states)
        halves == IF n < 2 THEN {} ELSE kSubset(n \div 2, x.states) \cup kSubset(n - n \div 2, x.states)
    IN {x} \cup {FoldSet(LAMBDA s, acc : terminateStateAtFork(acc, s), x, kill) : kill \in halves}

\* sm_callback, and the updateStates that follows it.
StateManagerCallback(x) ==
    {Settle(y) : y \in
        {x, terminateAll(x, x.states)} \cup
        {terminateAll(resumeAll(x), (x.states \cup x.suspended) \ keep) :
            keep \in {{}} \cup {{s} : s \in x.suspended}}}

\* With nothing to run and something suspended the callback waits.
Timer ==
    /\ mode = "exec" /\ aborted = "no"
    /\ \E x \in LoadBalanced(View) :
       \E y \in IF UseStateManager THEN StateManagerCallback(Settle(x)) ELSE {Settle(x)} :
          /\ y.states = {} => y.suspended = {}
          /\ Install(y)
    /\ mode' = "selecting"
    /\ UNCHANGED <<current, lastStateId>>

\* A merge that terminates the current state throws, and nobody catches it.
Selects(pick, x) ==
    [x EXCEPT !.searcher = pick.sr,
              !.removed = @ \cup pick.merged,
              !.zombies = @ \cup pick.merged,
              !.aborted = IF current \in pick.merged THEN "current state merged away"
                          ELSE IF pick.state \notin states THEN "selected unknown state"
                          ELSE "no"]

\* selectNonSpeculativeState returns a state, which was found feasible where
\* it was speculative.
SelectState ==
    /\ mode = "selecting" /\ aborted = "no"
    /\ ~ empty(searcher)
    /\ \E pick \in select(searcher) :
          /\ MergesCleanly => current \notin pick.merged
          /\ LET x == Selects(pick, View)
                 s == pick.state
                 y == [x EXCEPT !.speculative = @ \ {s}]
             IN Install(IF s \in speculative THEN CallUpdate(y, s, <<>>, {}) ELSE x)
          /\ current' = pick.state
    /\ mode' = "exec"
    /\ UNCHANGED lastStateId

\* The state it finds is infeasible.
DropInfeasible ==
    /\ mode = "selecting" /\ aborted = "no"
    /\ ~ empty(searcher)
    /\ \E pick \in select(searcher) :
          /\ pick.state \in speculative
          /\ Become(Settle(terminateState(Selects(pick, View), pick.state)))

\* Mutant of ExitProcess: exits as soon as the current state is gone.
ExitProcess_CurrentGone ==
    /\ mode = "selecting" /\ aborted = "no"
    /\ current \notin states
    /\ mode' = "exited"
    /\ UNCHANGED <<setup, searcher, states, suspended, zombies, speculative, removedStates,
                   current, lastStateId, aborted>>

ExitProcess ==
    /\ mode = "selecting" /\ aborted = "no"
    /\ empty(searcher)
    /\ mode' = "exited"
    /\ UNCHANGED <<setup, searcher, states, suspended, zombies, speculative, removedStates,
                   current, lastStateId, aborted>>

Ended == (mode = "exited" \/ aborted # "no") /\ UNCHANGED vars

Next ==
    \/ Step \/ Fork \/ ConcolicFork \/ TerminateCurrent \/ KillOthers \/ Succeed
    \/ TimePasses \/ ScheduleNext \/ Yield \/ TraceTb \/ QueueForMerge
    \/ Timer \/ SelectState \/ DropInfeasible \/ ExitProcess
    \/ Ended

Spec == Init /\ [][Next]_vars

-----------------------------------------------------------------------------
\* The states a searcher holds, one way or another.
Held(sr) ==
    CASE sr.kind \in Plain -> ToSet(sr.seq)
      [] sr.kind = "Interleaved" -> ToSet(sr.subs[1].seq)
      [] sr.kind \in {"Batching", "MaxTb"} -> ToSet(sr.base.seq)
      [] sr.kind = "IterativeDeepening" -> ToSet(sr.base.seq) \cup sr.paused
      [] sr.kind = "Merging" -> ToSet(sr.base.seq) \cup DOMAIN sr.atMerge
      [] sr.kind = "Cooperative" -> sr.m_states
      [] sr.kind = "ConcolicDFS" -> sr.normal \cup sr.speculative

\* A searcher holds exactly the states of the executor: after any sequence of
\* forks, kills, suspensions, merges and selections none is lost and none is
\* kept too long, and the asserts of the searchers and of selectNextState hold.
SearcherHoldsStates == aborted = "no" /\ Held(searcher) = states

\* The executor with its searcher selects states as it should.
Selection == INSTANCE StateSelection WITH ended <- mode = "exited"
SelectionSpec == Selection!SelectionSpec

\* ConcolicDFSSearcher, "prioritizing non-speculative paths first": a
\* speculative state is selected only when no other state is left.
NormalFirst ==
    searcher.kind = "ConcolicDFS" /\ ~ empty(searcher) =>
        \A pick \in select(searcher) :
            pick.state \in speculative => states \subseteq speculative

\* CooperativeSearcher: if every state yields, each state gets its turn.
YieldReachesAll ==
    searcher.kind = "Cooperative" /\ states # {} =>
        LET turn[i \in 0 .. MaxStateId] == IF i = 0 THEN searcher ELSE yield(turn[i - 1])
        IN states = {turn[i].m_currentState : i \in 0 .. MaxStateId}

\* A searcher that is not empty has a state to select, and each that it may
\* select can run: the cached last state of BatchingSearcher, the priorities of
\* MaxTbSearcher, the searcher whose turn it is in InterleavedSearcher and the
\* current state of CooperativeSearcher never lag behind the executor, and the
\* order in which ConcolicDFS and Cooperative select is the one they promise.
SelectsInOrder ==
    aborted = "no" =>
        /\ ~ empty(searcher) =>
            /\ select(searcher) # {}
            /\ \A pick \in select(searcher) : pick.state \in states
        /\ NormalFirst
        /\ YieldReachesAll

\* selectNextState: assert(states.find(newState) != states.end()).
SelectsKnownState == aborted # "selected unknown state"

\* DiscretePDF::update: the item is in the tree.
UpdatesItemInTree == aborted # "update: item not in tree"

\* RandomSearcher::update: only states it has are removed.
RemovesKnownState == aborted # "invalid state removed"

\* selectNextState goes on after a merge that switched the current state off.
MergeReturns == aborted # "current state merged away"
=============================================================================
