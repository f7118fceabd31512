--------------------------- MODULE MemoryChecker ----------------------------
(***************************************************************************)
(* The MemoryChecker plugin on one path: the memory that the module under  *)
(* test was granted, as the map from address ranges to regions, and the    *)
(* handles of its resources.  An address is a number below Word, and a sum *)
(* of addresses wraps.  The map is an ImmutableMap ordered by              *)
(* MemoryRangeLT, under which ranges that overlap are equal: which of      *)
(* several equal regions a lookup meets first depends on the shape of the  *)
(* tree (ImmutableTree), so a lookup has a set of possible results.  The   *)
(* number that identifies a region is compared like its type, and is left  *)
(* out; no caller makes a region permanent.                                *)
(***************************************************************************)
EXTENDS Integers

CONSTANTS Word,         \* 2^64 in the code
          Starts, Sizes,\* what the plugins that grant and revoke pass
          Perms,        \* sets of "read" and "write"
          Types,        \* region types
          Handles,      \* resources
          NoRegion, NoType

ASSUME CheckerAssumption ==
    /\ Word \in Nat /\ Word > 4
    /\ Starts \subseteq 0 .. Word - 1
    /\ Sizes \subseteq 0 .. Word - 1
    /\ NoRegion \notin [start : Starts, size : Sizes, perms : Perms, type : Types]

VARIABLES regions,      \* m_memoryMap
          resources,    \* the handles in m_resourceMap
          alive,        \* the path was not terminated
          terminate     \* on "errors" and on "leaks": the configuration

checkerVars == <<regions, resources, alive, terminate>>

\* uint64_t(-1): the size is not known.
AnySize == Word - 1
AnyPerms == {"any"}

Region == [start : Starts, size : Sizes, perms : Perms, type : Types]

Range(start, size) == [start |-> start, size |-> size]

\* The sum modulo Word.
End(r) == IF r.start + r.size < Word THEN r.start + r.size ELSE r.start + r.size - Word

\* MemoryRangeLT
Before(a, b) == End(a) <= b.start

Bytes(r) == r.start .. r.start + r.size - 1

lookup_previous(m, k) ==
    LET same == {r \in m : ~Before(k, r) /\ ~Before(r, k)}
        below == {r \in m : ~Before(k, r) /\ Before(r, k)}
    IN CASE same # {} -> same
         [] same = {} /\ below = {} -> {NoRegion}
         [] OTHER -> {r \in below : \A q \in below : q.start <= r.start}

\* The possible maps after the grant.
grantMemory(m, g) ==
    IF g.size = 0 \/ End(g) < g.start
    THEN {m}
    ELSE {IF r # NoRegion /\ End(r) > g.start THEN m ELSE m \cup {g} : r \in lookup_previous(m, g)}

\* A region of another size, permission or type is reported, and it is removed.
\* The pattern is the set of types it matches.
revokeMemory(m, q) ==
    IF q.size # AnySize /\ End(q) < q.start
    THEN {[map |-> m, ok |-> FALSE]}
    ELSE {IF r = NoRegion \/ End(r) <= q.start \/ r.start # q.start
          THEN [map |-> m, ok |-> FALSE]
          ELSE [map |-> m \ {r},
                ok |-> q.size \in {AnySize, r.size} /\ q.perms \in {AnyPerms, r.perms} /\ r.type \in q.pattern]
             : r \in lookup_previous(m, q)}

\* Each round revokes one region by its own range and type, until none matches.
revokeByPattern(m, pattern) == {r \in m : r.type = NoType \/ r.type \notin pattern}

\* Mutant of checkMemoryAccess: the access must end before the last byte.
checkMemoryAccess_Strict(m, a) ==
    IF End(a) < a.start
    THEN {FALSE}
    ELSE {r # NoRegion /\ End(r) > End(a) /\ a.perms \subseteq r.perms : r \in lookup_previous(m, a)}

\* The possible answers: TRUE when the access is let through.
checkMemoryAccess(m, a) ==
    IF End(a) < a.start
    THEN {FALSE}
    ELSE {r # NoRegion /\ End(r) >= End(a) /\ a.perms \subseteq r.perms : r \in lookup_previous(m, a)}

\* The regions that may be found for an address.
findMemoryRegion(m, address) == lookup_previous(m, Range(address, 1))

-----------------------------------------------------------------------------

CheckerInit ==
    /\ regions = {}
    /\ resources = {}
    /\ alive = TRUE
    /\ terminate \in SUBSET {"errors", "leaks"}

GrantMemory(g) ==
    /\ alive
    /\ regions' \in grantMemory(regions, g)
    /\ UNCHANGED <<resources, alive, terminate>>

RevokeMemory(q) ==
    /\ alive
    /\ \E done \in revokeMemory(regions, q) :
          /\ regions' = done.map
          /\ alive' = (done.ok \/ "errors" \notin terminate)
    /\ UNCHANGED <<resources, terminate>>

RevokeByPattern(pattern) ==
    /\ alive
    /\ regions' = revokeByPattern(regions, pattern)
    /\ UNCHANGED <<resources, alive, terminate>>

\* The path is terminated whatever the configuration says.
RevokeByPointer(pointer, pattern) ==
    /\ alive
    /\ \E r \in findMemoryRegion(regions, pointer) :
          IF r = NoRegion \/ r.start # pointer
          THEN regions' = regions /\ alive' = FALSE
          ELSE \E done \in revokeMemory(regions, [start |-> r.start, size |-> r.size,
                                                  perms |-> AnyPerms, pattern |-> pattern]) :
                  regions' = done.map /\ alive' = (done.ok \/ "errors" \notin terminate)
    /\ UNCHANGED <<resources, terminate>>

\* A handler of onPostCheck may excuse an access that is refused.
OnDataMemoryAccess(a) ==
    /\ alive
    /\ \E ok \in checkMemoryAccess(regions, a), excused \in BOOLEAN :
          alive' = (ok \/ excused \/ "errors" \notin terminate)
    /\ UNCHANGED <<regions, resources, terminate>>

GrantResource(h) ==
    /\ alive
    /\ resources' = resources \cup {h}
    /\ UNCHANGED <<regions, alive, terminate>>

RevokeResource(h) ==
    /\ alive
    /\ resources' = resources \ {h}
    /\ UNCHANGED <<regions, alive, terminate>>

CheckMemoryLeaks ==
    /\ alive
    /\ alive' = (regions = {} \/ "leaks" \notin terminate)
    /\ UNCHANGED <<regions, resources, terminate>>

CheckResourceLeaks ==
    /\ alive
    /\ alive' = (resources = {} \/ "leaks" \notin terminate)
    /\ UNCHANGED <<regions, resources, terminate>>

Patterns == {{t} : t \in Types \ {NoType}} \cup {Types}

Requests ==
    [start : Starts, size : Sizes \cup {AnySize}, perms : Perms \cup {AnyPerms}, pattern : Patterns]

Accesses == [start : Starts, size : {1, 2, 4}, perms : {{"read"}, {"write"}}]

CheckerNext ==
    \/ \E g \in Region : GrantMemory(g)
    \/ \E q \in Requests : RevokeMemory(q)
    \/ \E pattern \in Patterns :
          \/ RevokeByPattern(pattern)
          \/ \E pointer \in Starts : RevokeByPointer(pointer, pattern)
    \/ \E a \in Accesses : OnDataMemoryAccess(a)
    \/ \E h \in Handles : GrantResource(h) \/ RevokeResource(h)
    \/ CheckMemoryLeaks
    \/ CheckResourceLeaks

CheckerSpec == CheckerInit /\ [][CheckerNext]_checkerVars

-----------------------------------------------------------------------------

(***************************************************************************)
(* The regions of the map are not empty, do not wrap around the end of the *)
(* address space and do not overlap: grantMemory, which looks at a single  *)
(* region of the map, never lets two regions share a byte.                 *)
(***************************************************************************)
RegionsDisjoint ==
    /\ \A r \in regions : r.size > 0 /\ r.start + r.size < Word
    /\ \A r, q \in regions : r # q => r.start + r.size <= q.start \/ q.start + q.size <= r.start

(***************************************************************************)
(* checkMemoryAccess raises no false alarm: an access within one region    *)
(* that has the permission is let through, whatever the shape of the tree. *)
(***************************************************************************)
NoFalseAlarm ==
    \A a \in Accesses, r \in regions :
        Bytes(a) \subseteq Bytes(r) /\ a.perms \subseteq r.perms => checkMemoryAccess(regions, a) = {TRUE}

(***************************************************************************)
(* An access that checkMemoryAccess lets through ends in a region with the *)
(* permission.                                                             *)
(***************************************************************************)
EndsInRegion ==
    \A a \in Accesses :
        TRUE \in checkMemoryAccess(regions, a) =>
            \E r \in regions : a.start + a.size - 1 \in Bytes(r) /\ a.perms \subseteq r.perms

(***************************************************************************)
(* revokeMemory removes at most the region that starts at the address, and *)
(* does remove the region when the request gives its size: this is the     *)
(* call that the loop of revokeMemory by pattern makes for each region it  *)
(* finds, and the loop ends because the region is gone.                    *)
(***************************************************************************)
RevokesWhatWasAsked ==
    \A r \in regions, q \in Requests : \A done \in revokeMemory(regions, q) :
        /\ r \notin done.map => r.start = q.start
        /\ r.start = q.start /\ r.size = q.size => r \notin done.map

(***************************************************************************)
(* Not an invariant.  "tracks memory that the module is allowed to acces   *)
(* and checks each access for validiry" (MemoryChecker.h): every byte of   *)
(* an access that is let through was granted.                              *)
(***************************************************************************)
AccessesGranted ==
    \A a \in Accesses :
        TRUE \in checkMemoryAccess(regions, a) =>
            Bytes(a) \subseteq UNION {Bytes(r) : r \in regions}

(***************************************************************************)
(* Not an invariant.  "end, perms and regionID can be -1"                  *)
(* (MemoryChecker.h): a region can be revoked by its address alone.        *)
(***************************************************************************)
RevokesUnknownSize ==
    \A r \in regions :
        \A done \in revokeMemory(regions, [start |-> r.start, size |-> AnySize,
                                           perms |-> AnyPerms, pattern |-> Types]) :
            r \notin done.map

(***************************************************************************)
(* Not an invariant.  "Trying to free the middle of an allocated region"   *)
(* (MemoryChecker::revokeMemoryByPointer): the region that is found for a  *)
(* pointer contains it.                                                    *)
(***************************************************************************)
FoundContains ==
    \A pointer \in Starts : \A r \in findMemoryRegion(regions, pointer) :
        r # NoRegion => pointer \in Bytes(r)

=============================================================================
