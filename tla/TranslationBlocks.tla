-------------------------- MODULE TranslationBlocks --------------------------
(***************************************************************************)
(* The translation blocks (TBs) of QEMU as S2E runs them.  A block that    *)
(* leaves through one of its two direct exits is chained to the block that *)
(* ran next: its exit is patched to jump there, tb->s2e_tb_next[n] says    *)
(* where, and the exit is put on the circular list of the exits that enter *)
(* that block.  The lists are what QEMU uses to break the chain when the   *)
(* guest changes its code, when the CPU has to stop, and, in S2E, when a   *)
(* block further down the chain touches a register that is symbolic.       *)
(*                                                                         *)
(* One CPU thread runs the loop of cpu_exec(); devices write memory while  *)
(* a block performs I/O or while the loop is left; signals arrive at any   *)
(* time.  A guest program is any sequence of blocks and exits.             *)
(***************************************************************************)
EXTENDS Integers, FiniteSets, Sequences

CONSTANTS
    MaxTb,        \* code_gen_max_blocks
    Writers,      \* who writes over translated code: "cpu", "device"
    Exits,        \* the direct exits that the guest's blocks have
    Touches,      \* whether a block may touch the registers that are symbolic
    Registers,    \* whether they may be symbolic
    PluginFlushes \* a plugin flushes the blocks while one of them runs

TbAssumption ==
    /\ MaxTb \in Nat \ {0}
    /\ Writers \subseteq {"cpu", "device"}
    /\ Exits \subseteq {0, 1}
    /\ Touches \subseteq BOOLEAN /\ Touches # {}
    /\ FALSE \in Registers /\ Registers \subseteq BOOLEAN
    /\ PluginFlushes \in BOOLEAN

VARIABLES
    nb,       \* nb_tbs
    tb,       \* tbs[]
    next_tb,  \* the exit through which the last block was left, or Null
    flag,     \* tb_invalidated_flag
    cpu,      \* where the CPU thread is, env->current_tb, the block it runs
    symbolic  \* some register is symbolic: getSymbolicRegistersMask() # 0

vars == <<nb, tb, next_tb, flag, cpu, symbolic>>

Tb == 1 .. MaxTb

Exit == {0, 1}

(* A tagged pointer: <<t, n>> is exit n of block t, <<t, 2>> is t itself,  *)
(* the end of the list of the exits that enter t.                          *)
Null == <<0, 0>>

NewTb(touches, spans, single) ==
    [live    |-> FALSE,                   \* it is in tb_phys_hash
     first   |-> Null,                    \* jmp_first
     next    |-> [n \in Exit |-> Null],   \* jmp_next[]
     link    |-> [n \in Exit |-> 0],      \* s2e_tb_next[], and the code's target
     touches |-> touches,                 \* reg_rmask or reg_wmask meet the mask
     spans   |-> spans,                   \* page_addr[1] # -1
     single  |-> single]                  \* cflags: one instruction only

Pointer == (Tb \X {0, 1, 2}) \cup {Null}

Running == {"native", "klee"}

-----------------------------------------------------------------------------
(* The lists *)

Get(tbs, p) == IF p[2] = 2 THEN tbs[p[1]].first ELSE tbs[p[1]].next[p[2]]

Put(tbs, p, q) ==
    IF p[2] = 2 THEN [tbs EXCEPT ![p[1]].first = q]
                ELSE [tbs EXCEPT ![p[1]].next[p[2]] = q]

(* The block at the end of the list that p is on. *)
RECURSIVE headOf(_, _)
headOf(tbs, p) == IF p[2] = 2 THEN p[1] ELSE headOf(tbs, Get(tbs, p))

(* Takes p out of the list, looking for the pointer to it from q on. *)
RECURSIVE unlinkFrom(_, _, _)
unlinkFrom(tbs, p, q) ==
    IF Get(tbs, q) = p
    THEN Put(Put(tbs, q, Get(tbs, p)), p, Null)
    ELSE unlinkFrom(tbs, p, Get(tbs, q))

tb_reset_jump(tbs, t, n) == [tbs EXCEPT ![t].link[n] = 0]

tb_add_jump(tbs, t, n, u) ==
    IF tbs[t].next[n] # Null THEN tbs
    ELSE [Put(Put(tbs, <<t, n>>, tbs[u].first), <<u, 2>>, <<t, n>>)
             EXCEPT ![t].link[n] = u]

tb_jmp_remove(tbs, t, n) ==
    IF tbs[t].next[n] = Null THEN tbs
    ELSE unlinkFrom(tbs, <<t, n>>, <<t, n>>)

s2e_tb_reset_jump(tbs, t, n) ==
    IF tbs[t].next[n] = Null THEN tbs
    ELSE tb_reset_jump(
             unlinkFrom(tbs, <<t, n>>, <<headOf(tbs, <<t, n>>), 2>>), t, n)

(* Mutant: the exits of the block that is entered are not followed. *)
s2e_tb_reset_jump_smask_Shallow(tbs, t, n, depth) ==
    LET u == tbs[t].link[n]
    IN  IF u # 0 /\ tbs[u].touches THEN s2e_tb_reset_jump(tbs, t, n) ELSE tbs

(* Nothing that the native code of t can reach through exit n touches a    *)
(* symbolic register: the chain is cut before such a block, and after the  *)
(* fourth block.                                                           *)
RECURSIVE s2e_tb_reset_jump_smask(_, _, _, _)
s2e_tb_reset_jump_smask(tbs, t, n, depth) ==
    LET u == tbs[t].link[n]
    IN  IF u = 0 THEN tbs
        ELSE IF depth > 2 \/ tbs[u].touches THEN s2e_tb_reset_jump(tbs, t, n)
        ELSE IF u = t THEN tbs
        ELSE s2e_tb_reset_jump_smask(
                 s2e_tb_reset_jump_smask(tbs, u, 0, depth + 1), u, 1, depth + 1)

(* Mutant: the blocks that could be entered keep their own exits. *)
tb_reset_jump_recursive_One(tbs, t) ==
    s2e_tb_reset_jump(s2e_tb_reset_jump(tbs, t, 0), t, 1)

(* Breaks every chain that starts at t. *)
RECURSIVE tb_reset_jump_recursive(_, _)
tb_reset_jump_recursive(tbs, t) ==
    LET Reset(b, n) ==
            IF b[t].next[n] = Null THEN b
            ELSE tb_reset_jump_recursive(s2e_tb_reset_jump(b, t, n),
                                         headOf(b, <<t, n>>))
    IN  Reset(Reset(tbs, 0), 1)

(* Resets the exits on the list from p on. *)
RECURSIVE resetEntering(_, _)
resetEntering(tbs, p) ==
    IF p[2] = 2 THEN tbs
    ELSE resetEntering(tb_reset_jump(Put(tbs, p, Null), p[1], p[2]), Get(tbs, p))

(* Mutant: the exits that enter the block are left as they are. *)
tb_phys_invalidate_KeepsJumps(tbs, t) ==
    [tb_jmp_remove(tb_jmp_remove(tbs, t, 0), t, 1)
        EXCEPT ![t].first = <<t, 2>>, ![t].live = FALSE]

tb_phys_invalidate(tbs, t) ==
    LET out == tb_jmp_remove(tb_jmp_remove(tbs, t, 0), t, 1)
    IN  [resetEntering(out, out[t].first)
            EXCEPT ![t].first = <<t, 2>>, ![t].live = FALSE]

-----------------------------------------------------------------------------
(* Translation *)

View == [nb |-> nb, tb |-> tb, flag |-> flag]

(* The contents of a flushed block matter only while it runs. *)
tb_flush(v) ==
    [v EXCEPT !.nb = 0,
              !.tb = [t \in Tb |-> IF cpu.at \in Running
                                   THEN [v.tb[t] EXCEPT !.live = FALSE]
                                   ELSE NewTb(FALSE, FALSE, FALSE)]]

(* The new block is tbs[nb_tbs - 1]; a full buffer is flushed first. *)
tb_gen_code(v, touches, spans, single) ==
    LET w == IF v.nb >= MaxTb THEN [tb_flush(v) EXCEPT !.flag = TRUE] ELSE v
        t == w.nb + 1
    IN  [w EXCEPT !.nb = t,
                  !.tb[t] = [NewTb(touches, spans, single)
                                EXCEPT !.live = TRUE, !.first = <<t, 2>>]]

-----------------------------------------------------------------------------
Init ==
    /\ nb = 0
    /\ tb = [t \in Tb |-> NewTb(FALSE, FALSE, FALSE)]
    /\ next_tb = Null
    /\ flag = FALSE
    /\ cpu = [at |-> "out", current |-> 0, block |-> 0, exit |-> FALSE]
    /\ symbolic = FALSE

(* The loop of cpu_exec() is entered: "force lookup of first TB". *)
EnterLoop ==
    /\ cpu.at = "out"
    /\ cpu' = [cpu EXCEPT !.at = "loop"]
    /\ next_tb' = Null
    /\ UNCHANGED <<nb, tb, flag, symbolic>>

(* exit_request is seen at the top of the loop. *)
LeaveLoop ==
    /\ cpu.at = "loop"
    /\ cpu.exit
    /\ cpu' = [cpu EXCEPT !.at = "out", !.exit = FALSE]
    /\ UNCHANGED <<nb, tb, next_tb, flag, symbolic>>

(* An interrupt is delivered: the flow of the program has changed. *)
DeliverInterrupt ==
    /\ cpu.at = "loop"
    /\ ~cpu.exit
    /\ next_tb # Null
    /\ next_tb' = Null
    /\ UNCHANGED <<nb, tb, flag, cpu, symbolic>>

(* The block t is the next one; it is chained to the exit that led to it   *)
(* unless a block was invalidated meanwhile.  The local next_tb is not     *)
(* read again before the block returns a new value for it.                 *)
Link(v, t) ==
    LET last == IF v.flag THEN Null ELSE next_tb
    IN  /\ nb' = v.nb
        /\ tb' = IF last # Null /\ ~v.tb[t].spans
                 THEN tb_add_jump(v.tb, last[1], last[2], t)
                 ELSE v.tb
        /\ next_tb' = Null
        /\ flag' = FALSE
        /\ cpu' = [cpu EXCEPT !.at = "found", !.current = t, !.block = t]

(* tb_find_fast() finds the block in tb_jmp_cache, or tb_find_slow() in    *)
(* tb_phys_hash; the latter clears tb_invalidated_flag first.              *)
FindTb(t, slow) ==
    /\ cpu.at = "loop"
    /\ ~cpu.exit
    /\ t <= nb
    /\ tb[t].live
    /\ Link([View EXCEPT !.flag = IF slow THEN FALSE ELSE flag], t)
    /\ UNCHANGED symbolic

(* The block is not there and is translated. *)
TranslateTb(touches, spans) ==
    /\ cpu.at = "loop"
    /\ ~cpu.exit
    /\ LET v == tb_gen_code([View EXCEPT !.flag = FALSE], touches, spans, FALSE)
       IN  Link(v, v.nb)
    /\ UNCHANGED symbolic

(* executeTranslationBlock(): a block that touches a symbolic register is  *)
(* run by KLEE, any other may be; before native code runs with symbolic    *)
(* registers about, the chain is cut.                                      *)
ExecuteTb(klee) ==
    /\ cpu.at = "found"
    /\ ~cpu.exit
    /\ symbolic /\ tb[cpu.block].touches => klee
    /\ cpu' = [cpu EXCEPT !.at = IF klee THEN "klee" ELSE "native"]
    /\ tb' = IF symbolic /\ ~klee
             THEN s2e_tb_reset_jump_smask(
                      s2e_tb_reset_jump_smask(tb, cpu.block, 0, 0), cpu.block, 1, 0)
             ELSE tb
    /\ UNCHANGED <<nb, next_tb, flag, symbolic>>

(* exit_request was raised before the block was started. *)
SkipTb ==
    /\ cpu.at = "found"
    /\ cpu.exit
    /\ cpu' = [cpu EXCEPT !.at = "loop", !.current = 0, !.block = 0]
    /\ UNCHANGED <<nb, tb, next_tb, flag, symbolic>>

(* KLEE may make registers symbolic or concrete; native code may not. *)
RegistersChange == cpu.at = "klee" \/ symbolic' = symbolic

(* The block is left through exit n: into the block the exit is chained    *)
(* to, or back to the loop.                                                *)
TakeExit(n) ==
    /\ cpu.at \in Running
    /\ symbolic' \in Registers
    /\ RegistersChange
    /\ IF tb[cpu.block].link[n] # 0
       THEN /\ cpu' = [cpu EXCEPT !.block = tb[cpu.block].link[n]]
            /\ UNCHANGED next_tb
       ELSE /\ cpu' = [cpu EXCEPT !.at = "loop", !.current = 0, !.block = 0]
            /\ next_tb' = <<cpu.block, n>>
    /\ UNCHANGED <<nb, tb, flag>>

(* The block ends without a direct exit, or with an exception. *)
EndTb ==
    /\ cpu.at \in Running
    /\ symbolic' \in Registers
    /\ RegistersChange
    /\ cpu' = [cpu EXCEPT !.at = "loop", !.current = 0, !.block = 0]
    /\ next_tb' = Null
    /\ UNCHANGED <<nb, tb, flag>>

(* The signal handler: cpu_exit(), which calls cpu_unlink_tb(). *)
Signal ==
    /\ ~cpu.exit
    /\ cpu' = [cpu EXCEPT !.exit = TRUE, !.current = 0]
    /\ tb' = IF cpu.current = 0 THEN tb
             ELSE tb_reset_jump_recursive(tb, cpu.current)
    /\ UNCHANGED <<nb, next_tb, flag, symbolic>>

(* tb_invalidate_phys_page_range() for a write over the code of t: t is    *)
(* invalidated, and a pending interrupt breaks the running chain again.    *)
invalidated(t, interrupt) ==
    LET tbs    == tb_phys_invalidate(tb, t)
        unlink == interrupt /\ cpu.current # 0
    IN  [tb      |-> IF unlink THEN tb_reset_jump_recursive(tbs, cpu.current)
                              ELSE tbs,
         current |-> IF unlink THEN 0 ELSE cpu.current]

(* A device writes over the code of t. *)
DeviceWrite(t, interrupt) ==
    /\ "device" \in Writers
    /\ cpu.at \in Running \cup {"out"}
    /\ t <= nb
    /\ tb[t].live
    /\ LET w == invalidated(t, interrupt)
       IN  /\ tb' = w.tb
           /\ cpu' = [cpu EXCEPT !.current = w.current]
    /\ flag' = TRUE
    /\ UNCHANGED <<nb, next_tb, symbolic>>

(* The running block writes over the code of t.  Native code that changes  *)
(* itself is stopped, and its instruction is translated alone; under KLEE  *)
(* the writing instruction is not known (retaddr is NULL) and the block    *)
(* goes on.                                                                *)
CpuWrite(t, interrupt) ==
    /\ "cpu" \in Writers
    /\ cpu.at \in Running
    /\ t <= nb
    /\ tb[t].live
    /\ LET w == invalidated(t, interrupt)
       IN  IF cpu.at = "native" /\ t = cpu.block /\ ~tb[t].single
           THEN LET v == tb_gen_code([View EXCEPT !.tb = w.tb, !.flag = TRUE],
                                     tb[t].touches, FALSE, TRUE)
                IN  /\ nb' = v.nb
                    /\ tb' = v.tb
                    /\ cpu' = [cpu EXCEPT !.at = "loop", !.current = 0, !.block = 0]
                    /\ next_tb' = Null
           ELSE /\ tb' = w.tb
                /\ cpu' = [cpu EXCEPT !.current = w.current]
                /\ UNCHANGED <<nb, next_tb>>
    /\ flag' = TRUE
    /\ UNCHANGED symbolic

(* doStateSwitch() flushes the blocks; so does TranslationBlockTracer when *)
(* the running block asks it to change what it traces.                     *)
Flush ==
    /\ cpu.at = "out" \/ (PluginFlushes /\ cpu.at \in Running)
    /\ LET v == tb_flush(View)
       IN  /\ nb' = v.nb
           /\ tb' = v.tb
    /\ UNCHANGED <<next_tb, flag, cpu, symbolic>>

Next ==
    \/ EnterLoop
    \/ LeaveLoop
    \/ DeliverInterrupt
    \/ \E t \in Tb, slow \in BOOLEAN : FindTb(t, slow)
    \/ \E touches \in Touches, spans \in BOOLEAN : TranslateTb(touches, spans)
    \/ \E klee \in BOOLEAN : ExecuteTb(klee)
    \/ SkipTb
    \/ \E n \in Exits : TakeExit(n)
    \/ EndTb
    \/ Signal
    \/ \E t \in Tb, interrupt \in BOOLEAN : DeviceWrite(t, interrupt)
    \/ \E t \in Tb, interrupt \in BOOLEAN : CpuWrite(t, interrupt)
    \/ Flush

(* A block is finite straight-line code, so the thread that runs it comes  *)
(* to its end; and the thread keeps running the loop.                      *)
Fairness ==
    /\ WF_vars(LeaveLoop)
    /\ WF_vars(SkipTb)
    /\ WF_vars((\E n \in Exits : TakeExit(n)) \/ EndTb)

Spec == Init /\ [][Next]_vars

FairSpec == Spec /\ Fairness

-----------------------------------------------------------------------------
(* Properties *)

(* The exits on the list from p on; at most twice as many as there are     *)
(* exits, so that a list that does not end is seen.                        *)
RECURSIVE listFrom(_, _)
listFrom(p, fuel) ==
    IF p[2] = 2 \/ p = Null \/ fuel = 0 THEN <<p>>
    ELSE <<p>> \o listFrom(Get(tb, p), fuel - 1)

(* The blocks, the lists and the CPU are what the code declares them to be *)
(* (exec-all.h): a block in tb_phys_hash is allocated, and a block runs    *)
(* exactly between the lookup in cpu_exec() and the return to its loop.    *)
TypeOK ==
    /\ nb \in 0 .. MaxTb
    /\ \A t \in Tb : /\ tb[t].first \in Pointer
                     /\ \A n \in Exit : /\ tb[t].next[n] \in Pointer
                                        /\ tb[t].link[n] \in {0} \cup Tb
                     /\ tb[t].live => t <= nb
    /\ next_tb \in (Tb \X Exit) \cup {Null}
    /\ cpu.current \in {0} \cup Tb
    /\ cpu.block = 0 <=> cpu.at \in {"out", "loop"}

(* The circular list of a block ends at the block and holds exactly the    *)
(* exits whose jmp_next is set and that are chained to the block, each     *)
(* once; a block that was invalidated is entered by none.  This is what    *)
(* tb_phys_invalidate(), s2e_tb_reset_jump() and cpu_unlink_tb() rely on   *)
(* when they walk a list without a bound.                                  *)
ListsExact ==
    \A t \in 1 .. nb :
        LET list    == listFrom(tb[t].first, 2 * MaxTb + 1)
            entries == {list[i] : i \in 1 .. Len(list) - 1}
        IN  /\ list[Len(list)] = <<t, 2>>
            /\ Cardinality(entries) = Len(list) - 1
            /\ entries = {e \in (1 .. nb) \X Exit :
                             /\ tb[e[1]].next[e[2]] # Null
                             /\ tb[e[1]].link[e[2]] = t}
            /\ ~tb[t].live => entries = {}

(* No block that can be looked up jumps to a block that was invalidated or *)
(* freed, whatever was written, flushed and translated in between; every   *)
(* jump of such a block is on a list and can be broken (tb_add_jump(),     *)
(* tb_phys_invalidate(), tb_gen_code() resetting next_tb on a flush).      *)
LiveJumps ==
    \A t \in 1 .. nb : \A n \in Exit :
        LET u == tb[t].link[n]
        IN  tb[t].live /\ u # 0 => u <= nb /\ tb[u].live /\ tb[t].next[n] # Null

(* Native code never runs a block that touches a symbolic register, at any *)
(* depth of the chain it was started in ("We can not execute TB natively   *)
(* if it reads any symbolic regs", executeTranslationBlock()).             *)
NativeIsConcrete ==
    cpu.at = "native" /\ symbolic => ~tb[cpu.block].touches

(* A request to leave the CPU loop is answered: the chain that runs when   *)
(* the signal arrives cannot go round in circles (cpu_unlink_tb(): "we     *)
(* must unlink it and all the potentially executing TB").                  *)
ExitAnswered == (cpu.exit /\ cpu.at # "out") ~> (cpu.at = "out")

(* The block that runs when a signal has come leads to no other block.     *)
(* cpu_unlink_tb() says: "if the cpu is currently executing code, we must  *)
(* unlink it and all the potentially executing TB".                        *)
ChainBroken ==
    cpu.exit /\ cpu.at \in Running =>
        \A n \in Exit : tb[cpu.block].link[n] = 0

(* A write of the CPU over the block that runs ends the block.  The        *)
(* comment on tb_invalidate_phys_page_range() says: "the virtual CPU will  *)
(* exit the current TB if code is modified inside this TB".                *)
ModifiedTbExits ==
    [][\A t \in Tb, interrupt \in BOOLEAN :
          CpuWrite(t, interrupt) /\ t = cpu.block /\ ~tb[t].single
              => cpu'.at = "loop"]_vars

(* The block found next is chained only to an exit of an allocated block.  *)
(* tb_gen_code() says, of its own flush: "Don't forget to invalidate       *)
(* previous TB info".                                                      *)
ChainsAllocated ==
    [][\A t \in Tb : \A n \in Exit :
          tb[t].link[n] # tb'[t].link[n] /\ tb'[t].link[n] # 0 => t <= nb']_vars

=============================================================================
