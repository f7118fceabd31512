----------------------------- MODULE Searchers ------------------------------
(***************************************************************************)
(* The searchers of KLEE and of the plugins as values: a record for each   *)
(* kind, update(), selectState() and empty() on it.  A searcher that wraps *)
(* another one wraps one of KLEE's plain searchers here.                   *)
(*                                                                         *)
(* The code passes sets of states ordered by address; an added set is a    *)
(* sequence here, whose order the caller chooses.  x is the executor as    *)
(* the searcher sees it: x.zombies, x.speculative, and in x.target the     *)
(* added states whose next block MaxTbSearcher can tell, with its metric.  *)
(***************************************************************************)
EXTENDS Integers, SequencesExt

NoState == -1        \* a null pointer
WildState == -2      \* what the end iterator of a map of states points to

Check(sr, holds, name) ==
    IF holds \/ sr.err # "no" THEN sr ELSE [sr EXCEPT !.err = name]

-----------------------------------------------------------------------------
(* DFSSearcher, RandomSearcher and WeightedRandomSearcher.  The weights of  *)
(* kind "Depth" never change; those of kind "Weights" are refreshed for the *)
(* current state at every update.                                           *)

Plain == {"DFS", "Random", "Depth", "Weights"}

Kinds == Plain \cup {"Interleaved", "Batching", "IterativeDeepening", "Merging",
                     "MaxTb", "Cooperative", "ConcolicDFS"}

NewPlain(kind) == [kind |-> kind, seq |-> <<>>, err |-> "no"]

\* Mutant of plainUpdate: only the last state is looked at.
plainUpdate_OnlyBack(b, cur, added, removed) ==
    LET all == b.seq \o added IN
    [b EXCEPT !.seq = IF all # <<>> /\ Last(all) \in removed THEN Front(all) ELSE all]

plainUpdate(b, cur, added, removed) ==
    LET weighted == b.kind \in {"Depth", "Weights"}
        present == ToSet(b.seq)
        all == b.seq \o added
        refreshed == Check(b, b.kind = "Weights" /\ cur \notin removed \cup {NoState} => cur \in present,
                           "update: item not in tree")
        inserted == Check(refreshed, weighted => ToSet(added) \cap present = {},
                          "insert: item already in tree")
        removes == Check(inserted, removed \subseteq ToSet(all), "invalid state removed")
    IN [removes EXCEPT !.seq = FoldSet(LAMBDA s, q : RemoveFirst(q, s), all, removed)]

plainSelect(b) == IF b.kind = "DFS" THEN {Last(b.seq)} ELSE ToSet(b.seq)

-----------------------------------------------------------------------------
(* The searchers.  late: more time has passed since the last start than the *)
(* budget of a time-based searcher.                                         *)

New(kind) ==
    CASE kind \in Plain -> NewPlain(kind)
      [] kind = "Interleaved" ->
            [kind |-> kind, subs |-> <<NewPlain("Random"), NewPlain("Depth")>>, index |-> 1, err |-> "no"]
      [] kind = "Batching" ->
            [kind |-> kind, base |-> NewPlain("Random"), last |-> NoState, late |-> FALSE, err |-> "no"]
      [] kind = "IterativeDeepening" ->
            [kind |-> kind, base |-> NewPlain("Random"), paused |-> {}, late |-> FALSE, err |-> "no"]
      [] kind = "Merging" ->
            [kind |-> kind, base |-> NewPlain("Random"), atMerge |-> <<>>, err |-> "no"]
      [] kind = "MaxTb" ->
            [kind |-> kind, base |-> NewPlain("Random"), metric |-> <<>>, err |-> "no"]
      [] kind = "Cooperative" ->
            [kind |-> kind, m_states |-> {}, m_currentState |-> NoState, err |-> "no"]
      [] kind = "ConcolicDFS" ->
            [kind |-> kind, normal |-> {}, speculative |-> {}, err |-> "no"]

\* A wrapper with a new base, whose failed assert is the wrapper's.
WithBase(sr, base) == Check([sr EXCEPT !.base = base], base.err = "no", base.err)

interleavedUpdate(sr, cur, added, removed) ==
    LET subs == [i \in DOMAIN sr.subs |-> plainUpdate(sr.subs[i], cur, added, removed)]
    IN FoldSet(LAMBDA i, acc : Check(acc, subs[i].err = "no", subs[i].err),
               [sr EXCEPT !.subs = subs], DOMAIN subs)

batchingUpdate(sr, cur, added, removed) ==
    WithBase([sr EXCEPT !.last = IF @ \in removed THEN NoState ELSE @],
             plainUpdate(sr.base, cur, added, removed))

\* A new budget is twice the old one, and has not been used up.
deepeningUpdate(sr, cur, added, removed) ==
    LET b1 == plainUpdate(sr.base, cur, added, removed \ sr.paused)
        pauses == cur \notin removed \cup {NoState} /\ sr.late
        b2 == IF pauses THEN plainUpdate(b1, NoState, <<>>, {cur}) ELSE b1
        paused == (sr.paused \ removed) \cup (IF pauses THEN {cur} ELSE {})
    IN IF b2.seq # <<>>
       THEN WithBase([sr EXCEPT !.paused = paused], b2)
       ELSE WithBase([sr EXCEPT !.paused = {}, !.late = FALSE],
                     plainUpdate(b2, NoState, SetToSeq(paused), {}))

mergingUpdate(sr, cur, added, removed) ==
    LET waiting == DOMAIN sr.atMerge IN
    WithBase([sr EXCEPT !.atMerge = Restrict(@, waiting \ removed)],
             plainUpdate(sr.base, cur, added, removed \ waiting))

maxTbUpdate(sr, x, cur, added, removed) ==
    WithBase([sr EXCEPT !.metric = Restrict(x.target, DOMAIN x.target \cap ToSet(added))
                                   @@ Restrict(@, DOMAIN @ \ removed)],
             plainUpdate(sr.base, cur, added, removed))

cooperativeUpdate(sr, cur, added, removed) ==
    LET known == (sr.m_states \ removed) \cup ToSet(added)
        kept == IF sr.m_currentState \in removed THEN NoState ELSE sr.m_currentState
    IN [sr EXCEPT !.m_states = known,
                  !.m_currentState = IF kept = NoState /\ known # {} THEN Min(known) ELSE kept]

concolicUpdate(sr, x, cur, added, removed) ==
    LET refreshes == cur # NoState /\ added = <<>> /\ removed = {} /\ cur \notin x.zombies
        here == IF refreshes THEN {cur} ELSE {}
        normal == (sr.normal \ here) \cup (here \ x.speculative)
        spec == (sr.speculative \ here) \cup (here \cap x.speculative)
        ok == Check(sr, /\ removed \cap x.speculative \subseteq spec \ normal
                        /\ removed \ x.speculative \subseteq normal \ spec, "invalid state removed")
        new == ToSet(added)
    IN [ok EXCEPT !.normal = (normal \ removed) \cup (new \ x.speculative),
                  !.speculative = (spec \ removed) \cup (new \cap x.speculative)]

update(sr, x, cur, added, removed) ==
    CASE sr.kind \in Plain -> plainUpdate(sr, cur, added, removed)
      [] sr.kind = "Interleaved" -> interleavedUpdate(sr, cur, added, removed)
      [] sr.kind = "Batching" -> batchingUpdate(sr, cur, added, removed)
      [] sr.kind = "IterativeDeepening" -> deepeningUpdate(sr, cur, added, removed)
      [] sr.kind = "Merging" -> mergingUpdate(sr, cur, added, removed)
      [] sr.kind = "MaxTb" -> maxTbUpdate(sr, x, cur, added, removed)
      [] sr.kind = "Cooperative" -> cooperativeUpdate(sr, cur, added, removed)
      [] sr.kind = "ConcolicDFS" -> concolicUpdate(sr, x, cur, added, removed)

-----------------------------------------------------------------------------
(* selectState: the states it may return, each with the searcher after the  *)
(* call and the states it has terminated.                                   *)

Picked(s, sr) == [state |-> s, sr |-> sr, merged |-> {}]

PickFrom(states, sr) == {Picked(s, sr) : s \in states}

interleavedSelect(sr) ==
    LET sub == sr.subs[sr.index]
        next == IF sr.index = 1 THEN Len(sr.subs) ELSE sr.index - 1
    IN PickFrom(plainSelect(sub), [sr EXCEPT !.index = next])

batchingSelect(sr) ==
    IF sr.last # NoState /\ ~ sr.late THEN {Picked(sr.last, sr)}
    ELSE {Picked(s, IF s = sr.last THEN sr ELSE [sr EXCEPT !.last = s, !.late = FALSE]) :
             s \in plainSelect(sr.base)}

\* The sets of states that are left after all states at the same merge point
\* have been merged, where the solver lets them be.
Survivors(atMerge) ==
    {keep \in SUBSET DOMAIN atMerge : Range(Restrict(atMerge, keep)) = Range(atMerge)}

\* Merged states stay in atMerge until the update that removes them.
mergingSelect(sr) ==
    IF sr.base.seq # <<>> THEN PickFrom(plainSelect(sr.base), sr)
    ELSE UNION {LET base == plainUpdate(sr.base, NoState, SetToSeq(keep), {})
                    left == [sr EXCEPT !.base = base, !.atMerge = Restrict(@, DOMAIN @ \ keep)]
                IN {[state |-> s, sr |-> left, merged |-> DOMAIN left.atMerge] : s \in plainSelect(base)} :
                keep \in Survivors(sr.atMerge)}

\* A metric of 2 stands for all from 2 on.
maxTbSelect(sr) ==
    LET best == {s \in DOMAIN sr.metric : \A r \in DOMAIN sr.metric : sr.metric[s] <= sr.metric[r]} IN
    PickFrom(IF \E s \in best : sr.metric[s] < 2 THEN best ELSE plainSelect(sr.base), sr)

cooperativeSelect(sr) ==
    PickFrom({IF sr.m_currentState # NoState THEN sr.m_currentState ELSE Min(sr.m_states)}, sr)

concolicSelect(sr) ==
    PickFrom({Min(IF sr.normal # {} THEN sr.normal ELSE sr.speculative)}, sr)

select(sr) ==
    CASE sr.kind \in Plain -> PickFrom(plainSelect(sr), sr)
      [] sr.kind = "Interleaved" -> interleavedSelect(sr)
      [] sr.kind = "Batching" -> batchingSelect(sr)
      [] sr.kind = "IterativeDeepening" -> PickFrom(plainSelect(sr.base), [sr EXCEPT !.late = FALSE])
      [] sr.kind = "Merging" -> mergingSelect(sr)
      [] sr.kind = "MaxTb" -> maxTbSelect(sr)
      [] sr.kind = "Cooperative" -> cooperativeSelect(sr)
      [] sr.kind = "ConcolicDFS" -> concolicSelect(sr)

empty(sr) ==
    CASE sr.kind \in Plain -> sr.seq = <<>>
      [] sr.kind = "Interleaved" -> sr.subs[1].seq = <<>>
      [] sr.kind = "Batching" -> sr.base.seq = <<>>
      [] sr.kind = "IterativeDeepening" -> sr.base.seq = <<>> /\ sr.paused = {}
      [] sr.kind = "Merging" -> sr.base.seq = <<>> /\ sr.atMerge = <<>>
      [] sr.kind = "MaxTb" -> sr.metric = <<>> /\ sr.base.seq = <<>>
      [] sr.kind = "Cooperative" -> sr.m_states = {}
      [] sr.kind = "ConcolicDFS" -> sr.normal \cup sr.speculative = {}

-----------------------------------------------------------------------------
(* What the guest can ask of a searcher.                                    *)

\* CooperativeSearcher, opcode ScheduleNext: an unknown id is reported, and
\* the end of the map is used all the same.
scheduleNext(sr, id) ==
    [sr EXCEPT !.m_currentState = IF id \in sr.m_states THEN id ELSE WildState]

\* Mutant of yield: the lowest state stays the current one.
yield_NoWrap(sr) ==
    LET lower == {s \in sr.m_states : s < sr.m_currentState} IN
    IF lower = {} THEN sr ELSE [sr EXCEPT !.m_currentState = Max(lower)]

\* CooperativeSearcher, opcode Yield.
yield(sr) ==
    LET lower == {s \in sr.m_states : s < sr.m_currentState} IN
    IF Cardinality(sr.m_states) = 1 THEN sr
    ELSE IF sr.m_currentState = NoState THEN Check(sr, FALSE, "no current state")
    ELSE [sr EXCEPT !.m_currentState = Max(IF lower = {} THEN sr.m_states ELSE lower)]

\* MaxTbSearcher: the state has finished a block; the metric of the next one.
onTraceTb(sr, s, m) == [sr EXCEPT !.metric = s :> m @@ @]

\* MergingSearcher: a state that is queued already keeps its merge point.
queueStateForMerge(sr, s, point) ==
    WithBase([sr EXCEPT !.atMerge = @ @@ s :> point],
             plainUpdate(sr.base, s, <<>>, {s}))
=============================================================================
