---------------------------- MODULE MCTranslation ----------------------------
(***************************************************************************)
(* The translation blocks, for TLC: how blocks are chained, and what keeps *)
(* their LLVM code.  Each is a specification of its own; part says which   *)
(* takes the steps.  The chains have two sets of bounds.                   *)
(***************************************************************************)
EXTENDS TbReferences

VARIABLES part, nb, tb, next_tb, flag, cpu, symbolic

\* Two blocks with two exits each; the CPU and devices write over their code.
Chains == INSTANCE TranslationBlocks WITH
    MaxTb <- 2, Writers <- {"cpu", "device"}, Exits <- {0, 1},
    Touches <- {FALSE}, Registers <- {FALSE}, PluginFlushes <- FALSE

\* Three blocks with one exit, some of which touch symbolic registers.
Symbolic == INSTANCE TranslationBlocks WITH
    MaxTb <- 3, Writers <- {}, Exits <- {0},
    Touches <- BOOLEAN, Registers <- BOOLEAN, PluginFlushes <- FALSE

ASSUME ChainsAssumption == Chains!TbAssumption /\ Symbolic!TbAssumption

tbVars == <<nb, tb, next_tb, flag, cpu, symbolic>>
allVars == <<part, vars, tbVars>>

ReferencesMove == part = "references" /\ Next /\ UNCHANGED <<part, tbVars>>
ChainsMove == part = "chains" /\ Chains!Next /\ UNCHANGED <<part, vars>>
SymbolicMoves == part = "symbolic" /\ Symbolic!Next /\ UNCHANGED <<part, vars>>

MCInit ==
    /\ part \in {"references", "chains", "symbolic"}
    /\ Init
    /\ IF part = "symbolic" THEN Symbolic!Init ELSE Chains!Init

\* The fairness of TranslationBlocks, for the part in which signals must be
\* answered: the thread comes to the end of a block, and runs the loop.
MCSpec ==
    /\ MCInit
    /\ [][ReferencesMove \/ ChainsMove \/ SymbolicMoves]_allVars
    /\ WF_tbVars(part = "symbolic" /\ Symbolic!LeaveLoop)
    /\ WF_tbVars(part = "symbolic" /\ Symbolic!SkipTb)
    /\ WF_tbVars(part = "symbolic" /\ (Symbolic!TakeExit(0) \/ Symbolic!EndTb))

-----------------------------------------------------------------------------
\* The circular list of a block ends at the block and holds exactly the exits
\* that are chained to it, each once; no block that can be looked up jumps to a
\* block that was invalidated or freed, and every jump of such a block is on a
\* list and can be broken.
ChainsExact ==
    /\ part = "chains" => Chains!TypeOK /\ Chains!ListsExact /\ Chains!LiveJumps
    /\ part = "symbolic" => Symbolic!TypeOK /\ Symbolic!ListsExact /\ Symbolic!LiveJumps

\* Native code never runs a block that touches a symbolic register, at any
\* depth of the chain it was started in.
NativeIsConcrete == part = "symbolic" => Symbolic!NativeIsConcrete

\* A request to leave the CPU loop is answered: the chain that runs when the
\* signal arrives does not go round in circles.
ExitAnswered == (part = "symbolic" /\ cpu.exit /\ cpu.at # "out") ~> (cpu.at = "out")
=============================================================================
