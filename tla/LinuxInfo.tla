----------------------------- MODULE LinuxInfo -----------------------------
(***************************************************************************)
(* The monitor command print_linux_process_info: Linux_pro walks the task   *)
(* list of the guest, and the memory areas of each task, with the reads of  *)
(* the plugin Linux_read.  The plugin reads the path it was last told of,   *)
(* when an instruction was translated.  The guest does not run while the    *)
(* command does.                                                            *)
(*                                                                          *)
(* The guest's kernel is external: its task list is a ring that starts with *)
(* init_task, in the order the tasks were started, and a task has a list of *)
(* areas or, when it is a kernel thread, no memory descriptor at all.  A    *)
(* read at an address that is not mapped fails, and leaves the variable     *)
(* that was to be read as it was: uninitialized.                            *)
(***************************************************************************)
EXTENDS Naturals, Sequences, SequencesExt, FiniteSets

CONSTANTS
  Tasks,        \* addresses of task_structs
  InitTask,     \* taskaddr, the first of them
  Areas,        \* addresses of vm_area_structs
  Null,
  Wild,         \* any other address
  Limit,        \* 100 in the code
  MaxStateId    \* bound on the paths

LinuxAssumption ==
  /\ InitTask \in Tasks
  /\ Null \notin Areas /\ Wild \notin Areas \cup {Null}
  /\ Limit \in Nat \ {0}
  /\ MaxStateId \in Nat

VARIABLES
  guest,        \* per path: the kernel's lists
  current,      \* the path that runs
  m_state,      \* of Linux_read
  at,           \* where print_linux_process_info is
  nowtask,
  nowmmap,
  lines         \* what the command printed, per process

vars == <<guest, current, m_state, at, nowtask, nowmmap, lines>>
walk == <<at, nowtask, nowmmap, lines>>

----------------------------------------------------------------------------
(* The guest's memory, as the plugin reads it. *)

Memory == guest[m_state]

Index(s, x) == CHOOSE i \in DOMAIN s : s[i] = x

HasMm(g, t) == t \in DOMAIN g.areas

\* What a variable that nothing was read into may hold.
Uninitialized == Areas \cup {Null, Wild}

\* The second pointer of the list head is read: the task before this one.
get_next_task_struct(t) ==
  LET i == Index(Memory.tasks, t)
  IN  IF i = 1 THEN Last(Memory.tasks) ELSE Memory.tasks[i - 1]

\* Two reads, of the memory descriptor and of its first area.
get_process_firstmmap(t) ==
  IF ~HasMm(Memory, t) THEN Uninitialized
  ELSE IF Memory.areas[t] = <<>> THEN {Null} ELSE {Head(Memory.areas[t])}

\* The task that has an area, if one has.
Owners(a) == {t \in DOMAIN Memory.areas : a \in Range(Memory.areas[t])}

get_next_mmap(a) ==
  IF Owners(a) = {} THEN Uninitialized
  ELSE LET s == Memory.areas[CHOOSE t \in Owners(a) : TRUE]
           i == Index(s, a)
       IN  IF i = Len(s) THEN {Null} ELSE {s[i + 1]}

----------------------------------------------------------------------------
Init ==
  /\ guest = [s \in {0} |-> [tasks |-> <<InitTask>>, areas |-> [t \in {} |-> <<>>]]]
  /\ current = 0
  /\ m_state = 0
  /\ at = "idle"
  /\ nowtask = InitTask
  /\ nowmmap = Null
  /\ lines = <<>>

\* print_linux_process_info is entered.  Its first read translates a guest
\* address, and getPhysicalAddress asserts that the path is active.
Command ==
  /\ at = "idle"
  /\ at' = IF m_state = current THEN "task" ELSE "aborted"
  /\ nowtask' = InitTask
  /\ lines' = <<>>
  /\ UNCHANGED <<guest, current, m_state, nowmmap>>

\* The pid and the name are printed, and the walk of the areas begins.
PrintTask ==
  /\ at = "task"
  /\ lines' = Append(lines, [task |-> nowtask, modules |-> <<>>, stray |-> FALSE])
  /\ nowmmap' \in get_process_firstmmap(nowtask)
  /\ at' = "module"
  /\ UNCHANGED <<guest, current, m_state, nowtask>>

\* An area of the task is printed, or something that is none of its areas.
Printed(a) ==
  LET line == Last(lines)
      own == HasMm(Memory, nowtask) /\ a \in Range(Memory.areas[nowtask])
  IN  ReplaceAt(lines, Len(lines),
                IF own THEN [line EXCEPT !.modules = Append(@, a)]
                ELSE [line EXCEPT !.stray = TRUE])

PrintModule ==
  /\ at = "module"
  /\ nowmmap # Null
  /\ lines' = Printed(nowmmap)
  /\ nowmmap' \in get_next_mmap(nowmmap)
  /\ UNCHANGED <<guest, current, m_state, at, nowtask>>

\* The areas are done; i is the number of processes printed.
NextTask ==
  /\ at = "module"
  /\ nowmmap = Null
  /\ nowtask' = get_next_task_struct(nowtask)
  /\ at' = IF Len(lines) < Limit /\ nowtask' # InitTask THEN "task" ELSE "done"
  /\ UNCHANGED <<guest, current, m_state, nowmmap, lines>>

Return ==
  /\ at = "done"
  /\ at' = "idle"
  /\ nowtask' = InitTask
  /\ lines' = <<>>
  /\ UNCHANGED <<guest, current, m_state, nowmmap>>

----------------------------------------------------------------------------
(* The guest and the paths, between two commands. *)

\* get_mstate: an instruction of the running path is translated.
get_mstate ==
  /\ at = "idle"
  /\ m_state' = current
  /\ UNCHANGED <<guest, current, walk>>

\* The guest's kernel changes its lists, in code translated before.
GuestStep(g) ==
  /\ at = "idle"
  /\ guest' = [guest EXCEPT ![current] = g]
  /\ UNCHANGED <<current, m_state, walk>>

StartTask(t, user) ==
  LET g == guest[current]
      with == IF user THEN DOMAIN g.areas \cup {t} ELSE DOMAIN g.areas
  IN  /\ t \notin Range(g.tasks)
      /\ GuestStep([tasks |-> Append(g.tasks, t),
                    areas |-> [u \in with |-> IF u = t THEN <<>> ELSE g.areas[u]]])

ExitTask(t) ==
  LET g == guest[current]
  IN  /\ t \in Range(g.tasks) \ {InitTask}
      /\ GuestStep([tasks |-> SelectSeq(g.tasks, LAMBDA u : u # t),
                    areas |-> [u \in DOMAIN g.areas \ {t} |-> g.areas[u]]])

MapArea(t, a) ==
  LET g == guest[current]
  IN  /\ t \in DOMAIN g.areas
      /\ \A u \in DOMAIN g.areas : a \notin Range(g.areas[u])
      /\ \E i \in 1..(Len(g.areas[t]) + 1) :
           GuestStep([g EXCEPT !.areas[t] = InsertAt(@, i, a)])

Fork ==
  LET id == Cardinality(DOMAIN guest)
  IN  /\ at = "idle"
      /\ id <= MaxStateId
      /\ guest' = [s \in DOMAIN guest \cup {id} |-> IF s = id THEN guest[current] ELSE guest[s]]
      /\ UNCHANGED <<current, m_state, walk>>

SelectNextState(s) ==
  /\ at = "idle"
  /\ s # current
  /\ current' = s
  /\ UNCHANGED <<guest, m_state, walk>>

Next ==
  \/ Command \/ PrintTask \/ PrintModule \/ NextTask \/ Return
  \/ get_mstate \/ Fork
  \/ \E t \in Tasks, user \in BOOLEAN : StartTask(t, user)
  \/ \E t \in Tasks : ExitTask(t)
  \/ \E t \in Tasks, a \in Areas : MapArea(t, a)
  \/ \E s \in DOMAIN guest : SelectNextState(s)

Spec == Init /\ [][Next]_vars

----------------------------------------------------------------------------
(* Properties. *)

\* The processes printed are those of the guest, each once: init_task, then
\* the others from the last that was started, cut off after Limit.
TasksListed ==
  at = "done" =>
    LET order == <<InitTask>> \o Reverse(Tail(Memory.tasks))
        shown == SubSeq(order, 1, IF Len(order) < Limit THEN Len(order) ELSE Limit)
    IN  [i \in DOMAIN lines |-> lines[i].task] = shown

\* Under a process that has memory of its own, the command prints all of its
\* areas, in order, and nothing else.
ModulesListed ==
  at = "done" =>
    \A i \in DOMAIN lines : HasMm(Memory, lines[i].task) =>
      lines[i].modules = Memory.areas[lines[i].task] /\ ~lines[i].stray

\* Only areas of the process are printed under it: "get now_task's module
\* map and print their info one by one".
ModulesReal == \A i \in DOMAIN lines : ~lines[i].stray

\* The path whose memory the command reads is the active one: the assertion
\* of getPhysicalAddress holds.
ReadsActiveState == at # "aborted"
=============================================================================
