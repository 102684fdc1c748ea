--------------------------- MODULE BabyRiscDebug ---------------------------
(***************************************************************************)
(* Host-side debugging of one baby RISC-V core: the operations of          *)
(* BabyRiscDebug and BabyRiscDebugHardware (hardware/baby_risc_debug.py),  *)
(* one access to the chip per step, while the core runs its own program    *)
(* and another host program may drive the core's reset line.               *)
(*                                                                         *)
(* The host threads are those of one ttexalens process: the command line   *)
(* runs operations on the main thread, GdbServer on a daemon thread, and   *)
(* no lock orders them.  Every access may time out (HardwareError), with   *)
(* or without having taken effect, and the exception then unwinds through  *)
(* the context managers of the code.                                       *)
(***************************************************************************)
EXTENDS Naturals

CONSTANTS
  Threads,      \* host threads that operate on the core
  MaxStops,     \* bound on ebreaks and watchpoints the core's program hits
  MaxResets,    \* bound on reset changes made by other host programs
  MaxFaults     \* bound on accesses that time out and bodies that raise

ASSUME BoundsAssumption ==
  /\ MaxStops \in Nat
  /\ MaxResets \in Nat
  /\ MaxFaults \in Nat

VARIABLES
  inReset,      \* the core's bit of RISCV_DEBUG_REG_SOFT_RESET_0
  run,          \* "running", or who halted the core: the "host" or it"self"
  word,         \* instruction at the core's start address
  pc,           \* next step of each thread
  op,           \* operation each thread is in, or was in last
  depth,        \* nested ensure_halted contexts entered by each thread
  wasHalted,    \* was_halted of each nested ensure_halted
  guarded,      \* inside the try block of ensure_private_memory_access
  saved,        \* saved_bytes of ensure_private_memory_access
  raised,       \* an exception is propagating
  stops, resets, faults,
  \* history, read by the properties only
  entry,        \* the core's state when the operation was called
  disturbed,    \* another host program changed the reset since then
  faultedAt     \* every step at which an access has timed out so far

core    == <<inReset, run, word>>
control == <<pc, op, depth, wasHalted, guarded, saved, raised>>
bounds  == <<stops, resets, faults>>
history == <<entry, disturbed, faultedAt>>
vars    == <<core, control, bounds, history>>

Operations  == {"halt", "cont", "step", "access", "watchpoint", "private"}
ContextOps  == {"access", "watchpoint", "private"}
Words       == {"program", "loop"}
BodySteps   == {"wp_address", "wp_settings", "assert_halted", "access"}
Steps       == {"idle", "assert", "enter", "halt_check", "halt_cmd",
                "halt_verify", "exit", "cont_check", "cont_cmd", "step_cmd",
                "pm_probe", "pm_save", "pm_loop", "pm_deassert", "pm_assert",
                "pm_restore", "done"} \cup BodySteps
MaxDepth    == 2

halted == run # "running"
---------------------------------------------------------------------------
(* Control: where a step, a returning call or an exception goes.           *)

Goto(t, label) == pc' = [pc EXCEPT ![t] = label]

\* Mutants of Raise: no try/finally in ensure_halted; none around the body of
\* ensure_private_memory_access.
RaisePastContexts(t, d) ==
  /\ raised' = [raised EXCEPT ![t] = TRUE]
  /\ depth'  = [depth EXCEPT ![t] = 0]
  /\ Goto(t, IF guarded[t] THEN "pm_restore" ELSE "done")
  /\ UNCHANGED <<op, wasHalted, guarded, saved>>

RaisePastRestore(t, d) ==
  /\ raised' = [raised EXCEPT ![t] = TRUE]
  /\ depth'  = [depth EXCEPT ![t] = d]
  /\ Goto(t, IF d > 0 THEN "exit" ELSE "done")
  /\ guarded' = [guarded EXCEPT ![t] = FALSE]
  /\ UNCHANGED <<op, wasHalted, saved>>

\* An exception with d contexts still open runs the finally block of the
\* innermost one, else the finally block that writes the saved word back.
Raise(t, d) ==
  /\ raised' = [raised EXCEPT ![t] = TRUE]
  /\ depth'  = [depth EXCEPT ![t] = d]
  /\ Goto(t, IF d > 0 THEN "exit"
             ELSE IF guarded[t] THEN "pm_restore" ELSE "done")
  /\ UNCHANGED <<op, wasHalted, guarded, saved>>

\* Contexts that are still open when the current step raises: the finally
\* block of ensure_halted belongs to no context of its own.
Open(t) ==
  IF pc[t] \in {"exit", "cont_check", "cont_cmd"} /\ depth[t] > 0
  THEN depth[t] - 1 ELSE depth[t]

\* The access of this step times out.
TimesOut(t) ==
  /\ faults < MaxFaults
  /\ faults' = faults + 1
  /\ faultedAt' = faultedAt \cup {pc[t]}
  /\ Raise(t, Open(t))

Proceed(t, label) ==
  /\ Goto(t, label)
  /\ UNCHANGED <<op, depth, wasHalted, guarded, saved, raised, faults, faultedAt>>

\* A write that has reached the chip either completes or still times out.
Complete(t, label) == Proceed(t, label) \/ TimesOut(t)

\* Mutant of Entered: the nested context sets the whole watchpoint again.
EnteredAgain(t) ==
  /\ depth' = [depth EXCEPT ![t] = @ + 1]
  /\ Goto(t, IF op[t] # "watchpoint" THEN "assert_halted" ELSE "wp_address")
  /\ UNCHANGED <<op, guarded, saved, raised>>

\* The body that follows `with ensure_halted()` in each operation.
Entered(t) ==
  /\ depth' = [depth EXCEPT ![t] = @ + 1]
  /\ Goto(t, IF op[t] # "watchpoint" THEN "assert_halted"
             ELSE IF depth[t] = 0 THEN "wp_address" ELSE "wp_settings")
  /\ UNCHANGED <<op, guarded, saved, raised>>

\* Mutant of Leave: the core is not taken back to reset.
LeaveOutOfReset(t) ==
  LET d == depth[t] - 1 IN
  /\ depth' = [depth EXCEPT ![t] = d]
  /\ Goto(t, IF d > 0 THEN "exit" ELSE IF guarded[t] THEN "pm_restore" ELSE "done")
  /\ UNCHANGED <<op, wasHalted, guarded, saved, raised>>

\* The end of the innermost ensure_halted context.
Leave(t) ==
  LET d == depth[t] - 1 IN
  /\ depth' = [depth EXCEPT ![t] = d]
  /\ Goto(t, IF d > 0 THEN "exit"
             ELSE IF ~guarded[t] THEN "done"
             ELSE IF raised[t] THEN "pm_restore" ELSE "pm_assert")
  /\ UNCHANGED <<op, wasHalted, guarded, saved, raised>>

HaltReturns(t) ==
  IF op[t] = "halt"
  THEN Goto(t, "done") /\ UNCHANGED <<op, depth, wasHalted, guarded, saved, raised>>
  ELSE Entered(t) /\ UNCHANGED wasHalted

ContReturns(t) ==
  IF op[t] = "cont"
  THEN Goto(t, "done") /\ UNCHANGED <<op, depth, wasHalted, guarded, saved, raised>>
  ELSE Leave(t)
---------------------------------------------------------------------------
(* Operations.                                                             *)

Init ==
  /\ inReset \in BOOLEAN
  /\ run = "running"
  /\ word = "program"
  /\ pc = [t \in Threads |-> "idle"]
  /\ op = [t \in Threads |-> "halt"]
  /\ depth = [t \in Threads |-> 0]
  /\ wasHalted = [t \in Threads |-> [d \in 1..MaxDepth |-> FALSE]]
  /\ guarded = [t \in Threads |-> FALSE]
  /\ saved = [t \in Threads |-> "program"]
  /\ raised = [t \in Threads |-> FALSE]
  /\ stops = 0 /\ resets = 0 /\ faults = 0
  /\ entry = [t \in Threads |-> [halted |-> FALSE, inReset |-> inReset]]
  /\ disturbed = [t \in Threads |-> FALSE]
  /\ faultedAt = {}

\* A thread calls an operation.  halt, cont, step and ensure_halted assert
\* first that the core is not in reset; the watchpoint setters do not.
Call(t) ==
  /\ pc[t] = "idle"
  /\ \E o \in Operations :
       /\ op' = [op EXCEPT ![t] = o]
       /\ Goto(t, CASE o = "private"    -> "pm_probe"
                    [] o = "watchpoint" -> "enter"
                    [] OTHER            -> "assert")
  /\ raised' = [raised EXCEPT ![t] = FALSE]
  /\ entry' = [entry EXCEPT ![t] = [halted |-> halted, inReset |-> inReset]]
  /\ disturbed' = [disturbed EXCEPT ![t] = FALSE]
  /\ UNCHANGED <<core, bounds, depth, wasHalted, guarded, saved, faultedAt>>

AssertNotInReset(t) ==
  /\ pc[t] = "assert"
  /\ \/ inReset /\ Raise(t, depth[t])
     \/ /\ ~inReset
        /\ Goto(t, CASE op[t] = "halt" -> "halt_check"
                     [] op[t] = "cont" -> "cont_check"
                     [] op[t] = "step" -> "step_cmd"
                     [] OTHER          -> "enter")
        /\ UNCHANGED <<op, depth, wasHalted, guarded, saved, raised>>
  /\ UNCHANGED <<core, bounds, history>>

\* was_halted = self.is_halted()
EnsureHalted(t) ==
  /\ pc[t] = "enter"
  /\ wasHalted' = [wasHalted EXCEPT ![t][depth[t] + 1] = halted]
  /\ \/ halted /\ Entered(t)
     \/ /\ ~halted
        /\ Goto(t, "halt_check")
        /\ UNCHANGED <<op, depth, guarded, saved, raised>>
  /\ UNCHANGED <<core, bounds, history>>

\* halt() returns at once when it finds the core halted.
HaltCheck(t) ==
  /\ pc[t] = "halt_check"
  /\ \/ halted /\ HaltReturns(t)
     \/ /\ ~halted
        /\ Goto(t, "halt_cmd")
        /\ UNCHANGED <<op, depth, wasHalted, guarded, saved, raised>>
  /\ UNCHANGED <<core, bounds, history>>

\* The halt command; a core in reset, or one that does not respond, ignores it.
HaltCommand(t) ==
  /\ pc[t] = "halt_cmd"
  /\ \E obeyed \in BOOLEAN :
       /\ obeyed => ~inReset
       /\ run' = IF obeyed /\ ~halted THEN "host" ELSE run
  /\ Complete(t, "halt_verify")
  /\ UNCHANGED <<inReset, word, stops, resets, entry, disturbed>>

\* Mutant of HaltVerify: the halt is not verified.
HaltNotVerified(t) ==
  /\ pc[t] = "halt_verify"
  /\ HaltReturns(t)
  /\ UNCHANGED <<core, bounds, history>>

\* RiscHaltError when the core is still not halted.
HaltVerify(t) ==
  /\ pc[t] = "halt_verify"
  /\ \/ halted /\ HaltReturns(t)
     \/ ~halted /\ Raise(t, depth[t])
  /\ UNCHANGED <<core, bounds, history>>

\* __set_watchpoint writes the address, then enters the nested
\* ensure_halted of __update_watchpoint_setting.
WriteWatchpointAddress(t) ==
  /\ pc[t] = "wp_address"
  /\ Proceed(t, "enter")
  /\ UNCHANGED <<core, stops, resets, entry, disturbed>>

WriteWatchpointSettings(t) ==
  /\ pc[t] = "wp_settings"
  /\ Proceed(t, "exit")
  /\ UNCHANGED <<core, stops, resets, entry, disturbed>>

\* read_memory and write_memory assert that the core is halted.
AssertHalted(t) ==
  /\ pc[t] = "assert_halted"
  /\ \/ ~halted /\ Raise(t, depth[t]) /\ UNCHANGED <<faults, faultedAt>>
     \/ halted /\ Proceed(t, "access")
  /\ UNCHANGED <<core, stops, resets, entry, disturbed>>

\* One word of private memory; a longer access goes on to the next word.
AccessPrivateMemory(t) ==
  /\ pc[t] = "access"
  /\ \E next \in {"assert_halted", "exit"} : Proceed(t, next)
  /\ UNCHANGED <<core, stops, resets, entry, disturbed>>

\* The body raises without touching the chip (a restricted address, say).
BodyRaises(t) ==
  /\ pc[t] \in {"assert_halted", "access"}
  /\ faults < MaxFaults
  /\ faults' = faults + 1
  /\ Raise(t, depth[t])
  /\ UNCHANGED <<core, stops, resets, history>>

\* Mutant of ExitContext: was_halted is not consulted.
ExitContextAlwaysCont(t) ==
  /\ pc[t] = "exit"
  /\ Goto(t, "cont_check")
  /\ UNCHANGED <<op, depth, wasHalted, guarded, saved, raised>>
  /\ UNCHANGED <<core, bounds, history>>

\* finally: if not was_halted: self.cont()
ExitContext(t) ==
  /\ pc[t] = "exit"
  /\ \/ wasHalted[t][depth[t]] /\ Leave(t)
     \/ /\ ~wasHalted[t][depth[t]]
        /\ Goto(t, "cont_check")
        /\ UNCHANGED <<op, depth, wasHalted, guarded, saved, raised>>
  /\ UNCHANGED <<core, bounds, history>>

\* cont() returns at once when it finds the core running.
ContCheck(t) ==
  /\ pc[t] = "cont_check"
  /\ \/ ~halted /\ ContReturns(t)
     \/ /\ halted
        /\ Goto(t, "cont_cmd")
        /\ UNCHANGED <<op, depth, wasHalted, guarded, saved, raised>>
  /\ UNCHANGED <<core, bounds, history>>

ContCommand(t) ==
  /\ pc[t] = "cont_cmd"
  /\ run' = "running"
  /\ \/ ContReturns(t) /\ UNCHANGED <<faults, faultedAt>>
     \/ TimesOut(t)
  /\ UNCHANGED <<inReset, word, stops, resets, entry, disturbed>>

\* A halted core executes one instruction and stays halted.
StepCommand(t) ==
  /\ pc[t] = "step_cmd"
  /\ Proceed(t, "done")
  /\ UNCHANGED <<core, stops, resets, entry, disturbed>>

\* ensure_private_memory_access: a core out of reset only needs halting.
ProbeReset(t) ==
  /\ pc[t] = "pm_probe"
  /\ Proceed(t, IF inReset THEN "pm_save" ELSE "enter")
  /\ UNCHANGED <<core, stops, resets, entry, disturbed>>

SaveStartWord(t) ==
  /\ pc[t] = "pm_save"
  /\ saved' = [saved EXCEPT ![t] = word]
  /\ guarded' = [guarded EXCEPT ![t] = TRUE]
  /\ Goto(t, "pm_loop")
  /\ UNCHANGED <<core, op, depth, wasHalted, raised, bounds, history>>

WriteEndlessLoop(t) ==
  /\ pc[t] = "pm_loop"
  /\ word' = "loop"
  /\ Complete(t, "pm_deassert")
  /\ UNCHANGED <<inReset, run, stops, resets, entry, disturbed>>

TakeOutOfReset(t) ==
  /\ pc[t] = "pm_deassert"
  /\ inReset' = FALSE
  /\ Complete(t, "enter")
  /\ UNCHANGED <<run, word, stops, resets, entry, disturbed>>

\* Reset clears the halt.
TakeBackToReset(t) ==
  /\ pc[t] = "pm_assert"
  /\ inReset' = TRUE
  /\ run' = "running"
  /\ Complete(t, "pm_restore")
  /\ UNCHANGED <<word, stops, resets, entry, disturbed>>

RestoreStartWord(t) ==
  /\ pc[t] = "pm_restore"
  /\ word' = saved[t]
  /\ guarded' = [guarded EXCEPT ![t] = FALSE]
  /\ Goto(t, "done")
  /\ UNCHANGED <<inReset, run, op, depth, wasHalted, saved, raised, bounds, history>>

Return(t) ==
  /\ pc[t] = "done"
  /\ Goto(t, "idle")
  /\ UNCHANGED <<core, op, depth, wasHalted, guarded, saved, raised, bounds, history>>

\* An access is lost: it times out without having reached the chip.
AccessLost(t) ==
  /\ pc[t] \notin {"idle", "done", "pm_restore"}
  /\ TimesOut(t)
  /\ UNCHANGED <<core, stops, resets, entry, disturbed>>

\* The write that restores the start word is lost: nothing is left to unwind.
RestoreLost(t) ==
  /\ pc[t] = "pm_restore"
  /\ faults < MaxFaults
  /\ faults' = faults + 1
  /\ faultedAt' = faultedAt \cup {"pm_restore"}
  /\ raised' = [raised EXCEPT ![t] = TRUE]
  /\ guarded' = [guarded EXCEPT ![t] = FALSE]
  /\ Goto(t, "done")
  /\ UNCHANGED <<core, op, depth, wasHalted, saved, stops, resets, entry, disturbed>>
---------------------------------------------------------------------------
(* The chip and its other users.                                           *)

\* The core's program hits an ebreak or a watchpoint.
CoreStops ==
  /\ stops < MaxStops
  /\ ~inReset /\ ~halted /\ word = "program"
  /\ run' = "self"
  /\ stops' = stops + 1
  /\ UNCHANGED <<inReset, word, control, resets, faults, history>>

\* Another host program asserts or deasserts the core's reset.
OtherHostSetsReset ==
  /\ resets < MaxResets
  /\ resets' = resets + 1
  /\ inReset' = ~inReset
  /\ run' = "running"
  /\ disturbed' = [t \in Threads |-> TRUE]
  /\ UNCHANGED <<word, control, stops, faults, entry, faultedAt>>

HostStep(t) ==
  \/ Call(t) \/ AssertNotInReset(t)
  \/ EnsureHalted(t) \/ HaltCheck(t) \/ HaltCommand(t) \/ HaltVerify(t)
  \/ WriteWatchpointAddress(t) \/ WriteWatchpointSettings(t)
  \/ AssertHalted(t) \/ AccessPrivateMemory(t) \/ BodyRaises(t)
  \/ ExitContext(t) \/ ContCheck(t) \/ ContCommand(t) \/ StepCommand(t)
  \/ ProbeReset(t) \/ SaveStartWord(t) \/ WriteEndlessLoop(t)
  \/ TakeOutOfReset(t) \/ TakeBackToReset(t) \/ RestoreStartWord(t)
  \/ Return(t) \/ AccessLost(t) \/ RestoreLost(t)

Next ==
  \/ \E t \in Threads : HostStep(t)
  \/ CoreStops
  \/ OtherHostSetsReset

Spec == Init /\ [][Next]_vars
---------------------------------------------------------------------------
(* Properties.                                                             *)

\* Type invariant: every variable keeps its type, and the contexts open at a
\* step are those the step's place in the code allows.
TypeOK ==
  /\ inReset \in BOOLEAN
  /\ run \in {"running", "host", "self"}
  /\ word \in Words
  /\ pc \in [Threads -> Steps]
  /\ op \in [Threads -> Operations]
  /\ depth \in [Threads -> 0..MaxDepth]
  /\ wasHalted \in [Threads -> [1..MaxDepth -> BOOLEAN]]
  /\ guarded \in [Threads -> BOOLEAN]
  /\ saved \in [Threads -> Words]
  /\ raised \in [Threads -> BOOLEAN]
  /\ stops \in 0..MaxStops /\ resets \in 0..MaxResets /\ faults \in 0..MaxFaults
  /\ entry \in [Threads -> [halted : BOOLEAN, inReset : BOOLEAN]]
  /\ disturbed \in [Threads -> BOOLEAN]
  /\ faultedAt \in SUBSET Steps

\* "Ensures that an operation is performed while the RISC-V core is halted":
\* the body of ensure_halted only touches the core while it is halted, unless
\* another host program changed the reset during the operation.
BodyRunsHalted ==
  \A t \in Threads : pc[t] \in BodySteps /\ ~disturbed[t] => halted

\* A core that was found halted when an operation other than cont and step
\* began (stopped at a breakpoint, say) is never set running by it, however
\* its contexts nest and whichever access or body fails.
StoppedCoreStaysStopped ==
  \A t \in Threads :
    pc[t] # "idle" /\ op[t] \notin {"cont", "step"} /\ entry[t].halted /\ ~disturbed[t]
      => halted

\* ensure_private_memory_access gives the start address its word back however
\* the access ended; only a timeout of the restoring write itself prevents it.
StartWordRestored ==
  (\A t \in Threads : pc[t] = "idle") /\ "pm_restore" \notin faultedAt
    => word = "program"

\* An operation on a running core does not leave it halted by the host, even
\* when its body raised: only a lost or late halt or continue can.
RunningCoreResumed ==
  \A t \in Threads :
    /\ pc[t] = "idle" /\ op[t] \in ContextOps
    /\ ~entry[t].halted /\ ~entry[t].inReset /\ ~disturbed[t]
    /\ faultedAt \cap {"halt_cmd", "halt_verify", "exit", "cont_check", "cont_cmd"} = {}
    => run # "host"

\* A private memory access that returns normally leaves the core's reset
\* signal as it found it.
ResetSignalRestored ==
  \A t \in Threads :
    pc[t] = "idle" /\ op[t] = "private" /\ ~raised[t] /\ ~disturbed[t]
      => inReset = entry[t].inReset

=============================================================================
