------------------------ MODULE BabyRiscDebug_proofs ------------------------
(***************************************************************************)
(* Theorems about BabyRiscDebug.  Type correctness holds for any number of *)
(* threads.  What ensure_halted promises about the core holds when one     *)
(* thread operates on it: the hypothesis OneThread of those theorems.      *)
(***************************************************************************)
EXTENDS BabyRiscDebug, TLAPS

OneThread == \A s, t \in Threads : s = t

\* The contexts open at each step.
StackOK(t) ==
  /\ pc[t] \in {"wp_address", "assert_halted", "access"} => depth[t] = 1
  /\ pc[t] = "wp_settings" => depth[t] = 2
  /\ pc[t] = "wp_address" => op[t] = "watchpoint"
  /\ pc[t] = "exit" => depth[t] >= 1
  /\ pc[t] \in {"cont_check", "cont_cmd"} /\ op[t] # "cont" => depth[t] >= 1
  /\ pc[t] \in {"enter", "halt_check", "halt_cmd", "halt_verify"}
       => depth[t] = 0 \/ (depth[t] = 1 /\ op[t] = "watchpoint")
  /\ pc[t] \in {"enter", "halt_check", "halt_cmd", "halt_verify"} => op[t] \notin {"cont", "step"}
  /\ pc[t] = "enter" => op[t] # "halt"
  /\ op[t] \in {"halt", "cont", "step"} => depth[t] = 0
  /\ pc[t] \in {"idle", "done", "assert", "step_cmd", "pm_probe", "pm_save", "pm_loop",
                "pm_deassert", "pm_assert", "pm_restore"} => depth[t] = 0

\* The try block of ensure_private_memory_access is left only by its finally.
GuardOK(t) ==
  /\ guarded[t] => op[t] = "private"
  /\ pc[t] \in {"pm_probe", "pm_save", "pm_loop", "pm_deassert", "pm_assert", "pm_restore"}
       => op[t] = "private"
  /\ guarded[t] => pc[t] \notin {"idle", "done", "assert", "step_cmd", "pm_probe", "pm_save"}

HaltedOutOfReset == halted => ~inReset

ControlTypeOK ==
  /\ pc \in [Threads -> Steps]
  /\ op \in [Threads -> Operations]
  /\ depth \in [Threads -> 0..MaxDepth]
  /\ wasHalted \in [Threads -> [1..MaxDepth -> BOOLEAN]]
  /\ guarded \in [Threads -> BOOLEAN]
  /\ saved \in [Threads -> Words]
  /\ raised \in [Threads -> BOOLEAN]

ControlOK == ControlTypeOK /\ \A t \in Threads : StackOK(t) /\ GuardOK(t)

\* The inductive invariant of any number of threads.
IInv == TypeOK /\ ControlOK /\ HaltedOutOfReset

\* What makes StoppedCoreStaysStopped inductive: a thread that found the core
\* halted has recorded so in every context it entered, and owes it no cont.
FoundHalted(t) ==
  /\ pc[t] # "idle" /\ op[t] \notin {"cont", "step"}
  /\ entry[t].halted /\ ~disturbed[t]

OwesNoCont(t) ==
  /\ halted
  /\ ~guarded[t]
  /\ pc[t] \notin {"cont_check", "cont_cmd", "pm_save", "pm_loop", "pm_deassert",
                   "pm_assert", "pm_restore"}
  /\ op[t] # "halt" => pc[t] \notin {"halt_check", "halt_cmd", "halt_verify"}
  /\ \A k \in 1..MaxDepth : k <= depth[t] => wasHalted[t][k]

StoppedInv == \A t \in Threads : FoundHalted(t) => OwesNoCont(t)
---------------------------------------------------------------------------
(* Where the helpers of the actions leave a thread.                        *)

\* An exception unwinds to a step whose open contexts are those it left.
LEMMA RaiseControl ==
  ASSUME ControlOK, NEW t \in Threads, NEW d \in 0..depth[t], Raise(t, d),
         op[t] \in {"halt", "cont", "step"} => d = 0,
         pc[t] \notin {"idle", "done"}
  PROVE  ControlOK'
<1>1. ControlTypeOK'
  BY DEF ControlOK, ControlTypeOK, Raise, Goto, Steps, BodySteps, MaxDepth
<1>2. ASSUME NEW s \in Threads PROVE StackOK(s)' /\ GuardOK(s)'
  BY DEF ControlOK, ControlTypeOK, Raise, Goto, Steps, BodySteps, MaxDepth, StackOK, GuardOK
<1>. QED  BY <1>1, <1>2 DEF ControlOK

\* ensure_halted begins its body.
LEMMA EnteredControl ==
  ASSUME ControlOK, NEW t \in Threads, Entered(t),
         wasHalted' \in [Threads -> [1..MaxDepth -> BOOLEAN]],
         pc[t] \in {"enter", "halt_check", "halt_verify"},
         op[t] \notin {"halt", "cont", "step"}
  PROVE  ControlOK'
<1>1. ControlTypeOK'
  <2>1. StackOK(t) /\ depth[t] \in 0..2
    BY DEF ControlOK, ControlTypeOK, MaxDepth
  <2>2. depth[t] + 1 \in 0..MaxDepth
    BY <2>1 DEF StackOK, MaxDepth
  <2>3. depth' \in [Threads -> 0..MaxDepth]
    BY <2>2 DEF ControlOK, ControlTypeOK, Entered
  <2>4. pc' \in [Threads -> Steps]
    BY DEF ControlOK, ControlTypeOK, Entered, Goto, Steps, BodySteps
  <2>. QED  BY <2>3, <2>4 DEF ControlOK, ControlTypeOK, Entered
<1>2. ASSUME NEW s \in Threads PROVE StackOK(s)' /\ GuardOK(s)'
  BY DEF ControlOK, ControlTypeOK, StackOK, GuardOK, Entered, Goto, Steps, BodySteps, MaxDepth
<1>. QED  BY <1>1, <1>2 DEF ControlOK

\* ensure_halted ends.
LEMMA LeaveControl ==
  ASSUME ControlOK, NEW t \in Threads, Leave(t),
         depth[t] >= 1, pc[t] \in {"exit", "cont_check", "cont_cmd"}
  PROVE  ControlOK'
<1>1. ControlTypeOK'
  BY DEF ControlOK, ControlTypeOK, StackOK, Leave, Goto, Steps, BodySteps, MaxDepth
<1>2. ASSUME NEW s \in Threads PROVE StackOK(s)' /\ GuardOK(s)'
  BY DEF ControlOK, ControlTypeOK, StackOK, GuardOK, Leave, Goto, Steps, BodySteps, MaxDepth
<1>. QED  BY <1>1, <1>2 DEF ControlOK

\* halt returns: to its caller, or into the body of ensure_halted.
LEMMA HaltReturnsControl ==
  ASSUME ControlOK, NEW t \in Threads, HaltReturns(t),
         pc[t] \in {"halt_check", "halt_verify"}, op[t] \notin {"cont", "step"}
  PROVE  ControlOK'
<1>1. CASE op[t] = "halt"
  <2>1. ControlTypeOK'
    BY <1>1 DEF ControlOK, ControlTypeOK, HaltReturns, Goto, Steps
  <2>2. ASSUME NEW s \in Threads PROVE StackOK(s)' /\ GuardOK(s)'
    BY <1>1 DEF ControlOK, ControlTypeOK, StackOK, GuardOK, HaltReturns, Goto, BodySteps, Steps
  <2>. QED  BY <2>1, <2>2 DEF ControlOK
<1>2. CASE op[t] # "halt"
  BY <1>2, EnteredControl DEF HaltReturns, ControlOK, ControlTypeOK
<1>. QED  BY <1>1, <1>2

\* cont returns: to its caller, or out of ensure_halted.
LEMMA ContReturnsControl ==
  ASSUME ControlOK, NEW t \in Threads, ContReturns(t),
         pc[t] \in {"cont_check", "cont_cmd"}
  PROVE  ControlOK'
<1>1. CASE op[t] = "cont"
  <2>1. ControlTypeOK'
    BY <1>1 DEF ControlOK, ControlTypeOK, ContReturns, Goto, Steps
  <2>2. ASSUME NEW s \in Threads PROVE StackOK(s)' /\ GuardOK(s)'
    BY <1>1 DEF ControlOK, ControlTypeOK, StackOK, GuardOK, ContReturns, Goto, BodySteps, Steps
  <2>. QED  BY <2>1, <2>2 DEF ControlOK
<1>2. CASE op[t] # "cont"
  BY <1>2, LeaveControl DEF ContReturns, ControlOK, StackOK
<1>. QED  BY <1>1, <1>2

\* A lost or late access leaves the thread unwinding its open contexts.
LEMMA TimesOutControl ==
  ASSUME ControlOK, NEW t \in Threads, TimesOut(t), pc[t] \notin {"idle", "done"}
  PROVE  ControlOK'
<1>1. StackOK(t) /\ depth[t] \in 0..2
  BY DEF ControlOK, ControlTypeOK, MaxDepth
<1>2. Open(t) \in 0..depth[t] /\ (depth[t] = 0 => Open(t) = 0)
  BY <1>1 DEF Open
<1>3. op[t] \in {"halt", "cont", "step"} => Open(t) = 0
  BY <1>1, <1>2 DEF StackOK
<1>. QED  BY <1>2, <1>3, RaiseControl DEF TimesOut

---------------------------------------------------------------------------
(* The control invariant is inductive.                                     *)

\* Every step of a thread keeps the contexts of all threads in order.
LEMMA HostStepControl ==
  ASSUME IInv, NEW t \in Threads, HostStep(t)
  PROVE  ControlOK'
<1>. USE DEF IInv
<1>1. ControlOK /\ StackOK(t) /\ GuardOK(t)
  BY DEF ControlOK
<1>2. CASE Call(t)
  <2>1. ControlTypeOK'
    BY <1>1, <1>2 DEF ControlOK, ControlTypeOK, Call, Goto, Steps, Operations
  <2>2. ASSUME NEW s \in Threads PROVE StackOK(s)' /\ GuardOK(s)'
    BY <1>1, <1>2 DEF ControlOK, ControlTypeOK, StackOK, GuardOK, Call, Goto, Operations
  <2>. QED  BY <2>1, <2>2 DEF ControlOK
<1>3. CASE AssertNotInReset(t)
  <2>1. CASE Raise(t, depth[t])
    BY <1>1, <1>3, <2>1, RaiseControl
       DEF AssertNotInReset, StackOK, ControlOK, ControlTypeOK, MaxDepth
  <2>2. CASE ~Raise(t, depth[t])
    <3>1. ControlTypeOK'
      BY <1>1, <1>3, <2>2 DEF ControlOK, ControlTypeOK, AssertNotInReset, Goto, Steps
    <3>2. ASSUME NEW s \in Threads PROVE StackOK(s)' /\ GuardOK(s)'
      BY <1>1, <1>3, <2>2
         DEF ControlOK, ControlTypeOK, StackOK, GuardOK, AssertNotInReset, Goto, Operations
    <3>. QED  BY <3>1, <3>2 DEF ControlOK
  <2>. QED  BY <2>1, <2>2
<1>4. CASE EnsureHalted(t)
  <2>1. CASE Entered(t)
    <3>1. wasHalted' \in [Threads -> [1..MaxDepth -> BOOLEAN]]
      BY <1>1, <1>4 DEF ControlOK, ControlTypeOK, EnsureHalted, halted
    <3>. QED  BY <1>1, <1>4, <2>1, <3>1, EnteredControl DEF EnsureHalted, StackOK
  <2>2. CASE ~Entered(t)
    <3>1. ControlTypeOK'
      BY <1>1, <1>4, <2>2 DEF ControlOK, ControlTypeOK, EnsureHalted, Goto, Steps, BodySteps, halted
    <3>2. ASSUME NEW s \in Threads PROVE StackOK(s)' /\ GuardOK(s)'
      BY <1>1, <1>4, <2>2 DEF ControlOK, ControlTypeOK, StackOK, GuardOK, EnsureHalted, Goto, Operations, halted
    <3>. QED  BY <3>1, <3>2 DEF ControlOK
  <2>. QED  BY <2>1, <2>2
<1>5. CASE HaltCheck(t)
  <2>1. CASE HaltReturns(t)
    BY <1>1, <1>5, <2>1, HaltReturnsControl DEF HaltCheck, StackOK
  <2>2. CASE ~HaltReturns(t)
    <3>1. ControlTypeOK'
      BY <1>1, <1>5, <2>2 DEF ControlOK, ControlTypeOK, HaltCheck, Goto, Steps, BodySteps
    <3>2. ASSUME NEW s \in Threads PROVE StackOK(s)' /\ GuardOK(s)'
      BY <1>1, <1>5, <2>2 DEF ControlOK, ControlTypeOK, StackOK, GuardOK, HaltCheck, Goto, Operations
    <3>. QED  BY <3>1, <3>2 DEF ControlOK
  <2>. QED  BY <2>1, <2>2
<1>6. CASE HaltCommand(t)
  <2>1. CASE TimesOut(t)
    BY <1>1, <1>6, <2>1, TimesOutControl DEF HaltCommand
  <2>2. CASE ~TimesOut(t)
    <3>1. ControlTypeOK'
      BY <1>1, <1>6, <2>2 DEF ControlOK, ControlTypeOK, HaltCommand, Goto, Steps, BodySteps, Complete, Proceed
    <3>2. ASSUME NEW s \in Threads PROVE StackOK(s)' /\ GuardOK(s)'
      BY <1>1, <1>6, <2>2 DEF ControlOK, ControlTypeOK, StackOK, GuardOK, HaltCommand, Goto, Operations, Complete, Proceed
    <3>. QED  BY <3>1, <3>2 DEF ControlOK
  <2>. QED  BY <2>1, <2>2
<1>7. CASE HaltVerify(t)
  <2>1. CASE HaltReturns(t)
    BY <1>1, <1>7, <2>1, HaltReturnsControl DEF HaltVerify, StackOK
  <2>2. CASE Raise(t, depth[t])
    BY <1>1, <1>7, <2>2, RaiseControl DEF HaltVerify, StackOK, ControlOK, ControlTypeOK, MaxDepth
  <2>. QED  BY <1>7, <2>1, <2>2 DEF HaltVerify
<1>8. CASE WriteWatchpointAddress(t)
  <2>1. ControlTypeOK'
    BY <1>1, <1>8 DEF ControlOK, ControlTypeOK, WriteWatchpointAddress, Goto, Steps, BodySteps, Proceed
  <2>2. ASSUME NEW s \in Threads PROVE StackOK(s)' /\ GuardOK(s)'
    BY <1>1, <1>8 DEF ControlOK, ControlTypeOK, StackOK, GuardOK, WriteWatchpointAddress, Goto, Operations, Proceed
  <2>. QED  BY <2>1, <2>2 DEF ControlOK
<1>9. CASE WriteWatchpointSettings(t)
  <2>1. ControlTypeOK'
    BY <1>1, <1>9 DEF ControlOK, ControlTypeOK, WriteWatchpointSettings, Goto, Steps, BodySteps, Proceed
  <2>2. ASSUME NEW s \in Threads PROVE StackOK(s)' /\ GuardOK(s)'
    BY <1>1, <1>9 DEF ControlOK, ControlTypeOK, StackOK, GuardOK, WriteWatchpointSettings, Goto, Operations, Proceed
  <2>. QED  BY <2>1, <2>2 DEF ControlOK
<1>10. CASE AssertHalted(t)
  <2>1. CASE Raise(t, depth[t])
    BY <1>1, <1>10, <2>1, RaiseControl
       DEF AssertHalted, StackOK, ControlOK, ControlTypeOK, MaxDepth
  <2>2. CASE ~Raise(t, depth[t])
    <3>1. ControlTypeOK'
      BY <1>1, <1>10, <2>2 DEF ControlOK, ControlTypeOK, AssertHalted, Goto, Steps, BodySteps, Proceed
    <3>2. ASSUME NEW s \in Threads PROVE StackOK(s)' /\ GuardOK(s)'
      BY <1>1, <1>10, <2>2 DEF ControlOK, ControlTypeOK, StackOK, GuardOK, AssertHalted, Goto, Operations, Proceed
    <3>. QED  BY <3>1, <3>2 DEF ControlOK
  <2>. QED  BY <2>1, <2>2
<1>11. CASE AccessPrivateMemory(t)
  <2>1. ControlTypeOK'
    BY <1>1, <1>11 DEF ControlOK, ControlTypeOK, AccessPrivateMemory, Goto, Steps, BodySteps, Proceed
  <2>2. ASSUME NEW s \in Threads PROVE StackOK(s)' /\ GuardOK(s)'
    BY <1>1, <1>11 DEF ControlOK, ControlTypeOK, StackOK, GuardOK, AccessPrivateMemory, Goto, Operations, Proceed
  <2>. QED  BY <2>1, <2>2 DEF ControlOK
<1>12. CASE BodyRaises(t)
  BY <1>1, <1>12, RaiseControl DEF BodyRaises, StackOK, ControlOK, ControlTypeOK, MaxDepth
<1>13. CASE ExitContext(t)
  <2>1. CASE Leave(t)
    BY <1>1, <1>13, <2>1, LeaveControl DEF ExitContext, StackOK
  <2>2. CASE ~Leave(t)
    <3>1. ControlTypeOK'
      BY <1>1, <1>13, <2>2 DEF ControlOK, ControlTypeOK, ExitContext, Goto, Steps, BodySteps
    <3>2. ASSUME NEW s \in Threads PROVE StackOK(s)' /\ GuardOK(s)'
      BY <1>1, <1>13, <2>2 DEF ControlOK, ControlTypeOK, StackOK, GuardOK, ExitContext, Goto, Operations
    <3>. QED  BY <3>1, <3>2 DEF ControlOK
  <2>. QED  BY <2>1, <2>2
<1>14. CASE ContCheck(t)
  <2>1. CASE ContReturns(t)
    BY <1>1, <1>14, <2>1, ContReturnsControl DEF ContCheck
  <2>2. CASE ~ContReturns(t)
    <3>1. ControlTypeOK'
      BY <1>1, <1>14, <2>2 DEF ControlOK, ControlTypeOK, ContCheck, Goto, Steps, BodySteps
    <3>2. ASSUME NEW s \in Threads PROVE StackOK(s)' /\ GuardOK(s)'
      BY <1>1, <1>14, <2>2 DEF ControlOK, ControlTypeOK, StackOK, GuardOK, ContCheck, Goto, Operations
    <3>. QED  BY <3>1, <3>2 DEF ControlOK
  <2>. QED  BY <2>1, <2>2
<1>15. CASE ContCommand(t)
  <2>1. CASE ContReturns(t)
    BY <1>1, <1>15, <2>1, ContReturnsControl DEF ContCommand
  <2>2. CASE TimesOut(t)
    BY <1>1, <1>15, <2>2, TimesOutControl DEF ContCommand
  <2>. QED  BY <1>15, <2>1, <2>2 DEF ContCommand
<1>16. CASE StepCommand(t)
  <2>1. ControlTypeOK'
    BY <1>1, <1>16 DEF ControlOK, ControlTypeOK, StepCommand, Goto, Steps, BodySteps, Proceed
  <2>2. ASSUME NEW s \in Threads PROVE StackOK(s)' /\ GuardOK(s)'
    BY <1>1, <1>16 DEF ControlOK, ControlTypeOK, StackOK, GuardOK, StepCommand, Goto, Operations, Proceed
  <2>. QED  BY <2>1, <2>2 DEF ControlOK
<1>17. CASE ProbeReset(t)
  <2>1. ControlTypeOK'
    BY <1>1, <1>17 DEF ControlOK, ControlTypeOK, ProbeReset, Goto, Steps, BodySteps, Proceed
  <2>2. ASSUME NEW s \in Threads PROVE StackOK(s)' /\ GuardOK(s)'
    BY <1>1, <1>17 DEF ControlOK, ControlTypeOK, StackOK, GuardOK, ProbeReset, Goto, Operations, Proceed
  <2>. QED  BY <2>1, <2>2 DEF ControlOK
<1>18. CASE SaveStartWord(t)
  <2>1. ControlTypeOK'
    BY <1>1, <1>18 DEF ControlOK, ControlTypeOK, SaveStartWord, Goto, Steps, BodySteps, TypeOK
  <2>2. ASSUME NEW s \in Threads PROVE StackOK(s)' /\ GuardOK(s)'
    BY <1>1, <1>18 DEF ControlOK, ControlTypeOK, StackOK, GuardOK, SaveStartWord, Goto, Operations, TypeOK
  <2>. QED  BY <2>1, <2>2 DEF ControlOK
<1>19. CASE WriteEndlessLoop(t)
  <2>1. CASE TimesOut(t)
    BY <1>1, <1>19, <2>1, TimesOutControl DEF WriteEndlessLoop
  <2>2. CASE ~TimesOut(t)
    <3>1. ControlTypeOK'
      BY <1>1, <1>19, <2>2 DEF ControlOK, ControlTypeOK, WriteEndlessLoop, Goto, Steps, BodySteps, Complete, Proceed
    <3>2. ASSUME NEW s \in Threads PROVE StackOK(s)' /\ GuardOK(s)'
      BY <1>1, <1>19, <2>2 DEF ControlOK, ControlTypeOK, StackOK, GuardOK, WriteEndlessLoop, Goto, Operations, Complete, Proceed
    <3>. QED  BY <3>1, <3>2 DEF ControlOK
  <2>. QED  BY <2>1, <2>2
<1>20. CASE TakeOutOfReset(t)
  <2>1. CASE TimesOut(t)
    BY <1>1, <1>20, <2>1, TimesOutControl DEF TakeOutOfReset
  <2>2. CASE ~TimesOut(t)
    <3>1. ControlTypeOK'
      BY <1>1, <1>20, <2>2 DEF ControlOK, ControlTypeOK, TakeOutOfReset, Goto, Steps, BodySteps, Complete, Proceed
    <3>2. ASSUME NEW s \in Threads PROVE StackOK(s)' /\ GuardOK(s)'
      BY <1>1, <1>20, <2>2 DEF ControlOK, ControlTypeOK, StackOK, GuardOK, TakeOutOfReset, Goto, Operations, Complete, Proceed
    <3>. QED  BY <3>1, <3>2 DEF ControlOK
  <2>. QED  BY <2>1, <2>2
<1>21. CASE TakeBackToReset(t)
  <2>1. CASE TimesOut(t)
    BY <1>1, <1>21, <2>1, TimesOutControl DEF TakeBackToReset
  <2>2. CASE ~TimesOut(t)
    <3>1. ControlTypeOK'
      BY <1>1, <1>21, <2>2 DEF ControlOK, ControlTypeOK, TakeBackToReset, Goto, Steps, BodySteps, Complete, Proceed
    <3>2. ASSUME NEW s \in Threads PROVE StackOK(s)' /\ GuardOK(s)'
      BY <1>1, <1>21, <2>2 DEF ControlOK, ControlTypeOK, StackOK, GuardOK, TakeBackToReset, Goto, Operations, Complete, Proceed
    <3>. QED  BY <3>1, <3>2 DEF ControlOK
  <2>. QED  BY <2>1, <2>2
<1>22. CASE RestoreStartWord(t)
  <2>1. ControlTypeOK'
    BY <1>1, <1>22 DEF ControlOK, ControlTypeOK, RestoreStartWord, Goto, Steps, BodySteps
  <2>2. ASSUME NEW s \in Threads PROVE StackOK(s)' /\ GuardOK(s)'
    BY <1>1, <1>22 DEF ControlOK, ControlTypeOK, StackOK, GuardOK, RestoreStartWord, Goto, Operations
  <2>. QED  BY <2>1, <2>2 DEF ControlOK
<1>23. CASE Return(t)
  <2>1. ControlTypeOK'
    BY <1>1, <1>23 DEF ControlOK, ControlTypeOK, Return, Goto, Steps, BodySteps
  <2>2. ASSUME NEW s \in Threads PROVE StackOK(s)' /\ GuardOK(s)'
    BY <1>1, <1>23 DEF ControlOK, ControlTypeOK, StackOK, GuardOK, Return, Goto, Operations
  <2>. QED  BY <2>1, <2>2 DEF ControlOK
<1>24. CASE AccessLost(t)
  BY <1>1, <1>24, TimesOutControl DEF AccessLost
<1>25. CASE RestoreLost(t)
  <2>1. ControlTypeOK'
    BY <1>1, <1>25 DEF ControlOK, ControlTypeOK, RestoreLost, Goto, Steps, BodySteps
  <2>2. ASSUME NEW s \in Threads PROVE StackOK(s)' /\ GuardOK(s)'
    BY <1>1, <1>25 DEF ControlOK, ControlTypeOK, StackOK, GuardOK, RestoreLost, Goto, Operations
  <2>. QED  BY <2>1, <2>2 DEF ControlOK
<1>. QED
  BY <1>2, <1>3, <1>4, <1>5, <1>6, <1>7, <1>8, <1>9, <1>10, <1>11, <1>12, <1>13, <1>14, <1>15,
     <1>16, <1>17, <1>18, <1>19, <1>20, <1>21, <1>22, <1>23, <1>24, <1>25 DEF HostStep
\* What the variables of the core and of the history may hold.
DataOK ==
  /\ inReset \in BOOLEAN
  /\ run \in {"running", "host", "self"}
  /\ word \in Words
  /\ stops \in 0..MaxStops /\ resets \in 0..MaxResets /\ faults \in 0..MaxFaults
  /\ entry \in [Threads -> [halted : BOOLEAN, inReset : BOOLEAN]]
  /\ disturbed \in [Threads -> BOOLEAN]
  /\ faultedAt \in SUBSET Steps

\* Every step of a thread keeps the types of the data, and a core in reset
\* out of debug halt.
LEMMA HostStepData ==
  ASSUME IInv, NEW t \in Threads, HostStep(t)
  PROVE  DataOK' /\ HaltedOutOfReset'
<1>. USE BoundsAssumption DEF IInv, TypeOK, DataOK, HaltedOutOfReset, halted
<1>1. CASE Call(t)
  BY <1>1 DEF Call, core, bounds, history
<1>2. CASE AssertNotInReset(t)
  BY <1>2 DEF AssertNotInReset, core, bounds, history
<1>3. CASE EnsureHalted(t)
  BY <1>3 DEF EnsureHalted, core, bounds, history
<1>4. CASE HaltCheck(t)
  BY <1>4 DEF HaltCheck, core, bounds, history
<1>5. CASE HaltCommand(t)
  BY <1>5 DEF HaltCommand, Complete, Proceed, TimesOut, core, bounds, history
<1>6. CASE HaltVerify(t)
  BY <1>6 DEF HaltVerify, core, bounds, history
<1>7. CASE WriteWatchpointAddress(t)
  BY <1>7 DEF WriteWatchpointAddress, Proceed, core, bounds, history
<1>8. CASE WriteWatchpointSettings(t)
  BY <1>8 DEF WriteWatchpointSettings, Proceed, core, bounds, history
<1>9. CASE AssertHalted(t)
  BY <1>9 DEF AssertHalted, Proceed, core, bounds, history
<1>10. CASE AccessPrivateMemory(t)
  BY <1>10 DEF AccessPrivateMemory, Proceed, core, bounds, history
<1>11. CASE BodyRaises(t)
  BY <1>11 DEF BodyRaises, core, bounds, history
<1>12. CASE ExitContext(t)
  BY <1>12 DEF ExitContext, core, bounds, history
<1>13. CASE ContCheck(t)
  BY <1>13 DEF ContCheck, core, bounds, history
<1>14. CASE ContCommand(t)
  BY <1>14 DEF ContCommand, TimesOut, core, bounds, history
<1>15. CASE StepCommand(t)
  BY <1>15 DEF StepCommand, Proceed, core, bounds, history
<1>16. CASE ProbeReset(t)
  BY <1>16 DEF ProbeReset, Proceed, core, bounds, history
<1>17. CASE SaveStartWord(t)
  BY <1>17 DEF SaveStartWord, core, bounds, history
<1>18. CASE WriteEndlessLoop(t)
  BY <1>18 DEF WriteEndlessLoop, Complete, Proceed, TimesOut, Words, core, bounds, history
<1>19. CASE TakeOutOfReset(t)
  <2>1. inReset' = FALSE /\ UNCHANGED <<run, word, stops, resets, entry, disturbed>>
    BY <1>19 DEF TakeOutOfReset
  <2>2. faults' \in 0..MaxFaults /\ faultedAt' \in SUBSET Steps
    BY <1>19 DEF TakeOutOfReset, Complete, Proceed, TimesOut
  <2>. QED  BY <2>1, <2>2
<1>20. CASE TakeBackToReset(t)
  BY <1>20 DEF TakeBackToReset, Complete, Proceed, TimesOut, core, bounds, history
<1>21. CASE RestoreStartWord(t)
  BY <1>21 DEF RestoreStartWord, core, bounds, history
<1>22. CASE Return(t)
  BY <1>22 DEF Return, core, bounds, history
<1>23. CASE AccessLost(t)
  BY <1>23 DEF AccessLost, TimesOut, core, bounds, history
<1>24. CASE RestoreLost(t)
  BY <1>24 DEF RestoreLost, Steps, core, bounds, history
<1>. QED
  BY <1>1, <1>2, <1>3, <1>4, <1>5, <1>6, <1>7, <1>8, <1>9, <1>10, <1>11, <1>12, <1>13, <1>14,
     <1>15, <1>16, <1>17, <1>18, <1>19, <1>20, <1>21, <1>22, <1>23, <1>24 DEF HostStep

---------------------------------------------------------------------------
(* The theorems.                                                           *)

LEMMA IInvInit == Init => IInv
<1>. SUFFICES ASSUME Init PROVE IInv
  OBVIOUS
<1>. USE BoundsAssumption DEF Init
<1>1. ControlTypeOK
  BY DEF ControlTypeOK, Steps, Operations, Words, MaxDepth
<1>2. \A t \in Threads : StackOK(t) /\ GuardOK(t)
  BY DEF StackOK, GuardOK
<1>3. TypeOK /\ HaltedOutOfReset
  BY <1>1 DEF ControlTypeOK, TypeOK, HaltedOutOfReset, halted, Words
<1>. QED  BY <1>1, <1>2, <1>3 DEF IInv, ControlOK

\* The chip and other programs leave the control of the threads alone.
LEMMA IInvNext == IInv /\ [Next]_vars => IInv'
<1>. SUFFICES ASSUME IInv, [Next]_vars PROVE IInv'
  OBVIOUS
<1>. DEFINE Kept == UNCHANGED control
<1>1. ASSUME NEW t \in Threads, HostStep(t) PROVE IInv'
  BY <1>1, HostStepControl, HostStepData
     DEF IInv, ControlOK, ControlTypeOK, TypeOK, DataOK
<1>2. Kept => ControlOK'
  BY DEF IInv, ControlOK, ControlTypeOK, StackOK, GuardOK, control
<1>3. CASE CoreStops
  <2>1. DataOK' /\ HaltedOutOfReset'
    BY <1>3, BoundsAssumption
       DEF CoreStops, IInv, TypeOK, DataOK, HaltedOutOfReset, halted, history
  <2>. QED  BY <1>2, <1>3, <2>1 DEF CoreStops, IInv, ControlOK, ControlTypeOK, TypeOK, DataOK
<1>4. CASE OtherHostSetsReset
  <2>1. DataOK' /\ HaltedOutOfReset'
    BY <1>4, BoundsAssumption
       DEF OtherHostSetsReset, IInv, TypeOK, DataOK, HaltedOutOfReset, halted
  <2>. QED  BY <1>2, <1>4, <2>1
            DEF OtherHostSetsReset, IInv, ControlOK, ControlTypeOK, TypeOK, DataOK
<1>5. CASE UNCHANGED vars
  <2>1. DataOK' /\ HaltedOutOfReset'
    BY <1>5 DEF IInv, TypeOK, DataOK, HaltedOutOfReset, halted, vars, core, bounds, history
  <2>. QED  BY <1>2, <1>5, <2>1 DEF vars, IInv, ControlOK, ControlTypeOK, TypeOK, DataOK
<1>. QED  BY <1>1, <1>3, <1>4, <1>5 DEF Next

\* Type correctness for any number of threads and any bounds.
THEOREM TypeCorrect == Spec => []TypeOK
<1>1. IInv => TypeOK
  BY DEF IInv
<1>. QED  BY IInvInit, IInvNext, <1>1, PTL DEF Spec

---------------------------------------------------------------------------
(* One thread operates on the core.                                        *)

\* The two invariants of the thread, about its body and about its contexts.
BodyHalted(t) == pc[t] \in BodySteps /\ ~disturbed[t] => halted
ThreadOK(t)   == BodyHalted(t) /\ (FoundHalted(t) => OwesNoCont(t))

\* Each step of the only thread keeps its body on a halted core, and a core
\* that it found halted free of any cont.
LEMMA HostStepHalted ==
  ASSUME IInv, NEW t \in Threads, ThreadOK(t), HostStep(t)
  PROVE  ThreadOK(t)'
<1>0. /\ ControlTypeOK /\ StackOK(t) /\ GuardOK(t) /\ HaltedOutOfReset
      /\ inReset \in BOOLEAN /\ entry \in [Threads -> [halted : BOOLEAN, inReset : BOOLEAN]]
      /\ disturbed \in [Threads -> BOOLEAN]
  BY DEF IInv, ControlOK, TypeOK
<1>. USE <1>0 DEF ControlTypeOK, StackOK, GuardOK, ThreadOK, BodyHalted, FoundHalted,
                  OwesNoCont, HaltedOutOfReset, halted, BodySteps, MaxDepth, Goto
<1>1. CASE Call(t)
  BY <1>1 DEF Call, core, Operations
<1>2. CASE AssertNotInReset(t)
  BY <1>2 DEF AssertNotInReset, core, history, Raise
<1>3. CASE EnsureHalted(t)
  BY <1>3 DEF EnsureHalted, core, history, Entered
<1>4. CASE HaltCheck(t)
  BY <1>4 DEF HaltCheck, core, history, HaltReturns, Entered
<1>5. CASE HaltCommand(t)
  BY <1>5 DEF HaltCommand, Complete, Proceed, TimesOut, Raise, Open
<1>6. CASE HaltVerify(t)
  BY <1>6 DEF HaltVerify, core, history, HaltReturns, Entered, Raise
<1>7. CASE WriteWatchpointAddress(t)
  BY <1>7 DEF WriteWatchpointAddress, core, Proceed
<1>8. CASE WriteWatchpointSettings(t)
  BY <1>8 DEF WriteWatchpointSettings, core, Proceed
<1>9. CASE AssertHalted(t)
  BY <1>9 DEF AssertHalted, core, Proceed, Raise
<1>10. CASE AccessPrivateMemory(t)
  BY <1>10 DEF AccessPrivateMemory, core, Proceed
<1>11. CASE BodyRaises(t)
  BY <1>11 DEF BodyRaises, core, history, Raise
<1>12. CASE ExitContext(t)
  BY <1>12 DEF ExitContext, core, history, Leave
<1>13. CASE ContCheck(t)
  BY <1>13 DEF ContCheck, core, history, ContReturns, Leave
<1>14. CASE ContCommand(t)
  BY <1>14 DEF ContCommand, ContReturns, Leave, TimesOut, Raise, Open
<1>15. CASE StepCommand(t)
  BY <1>15 DEF StepCommand, core, Proceed
<1>16. CASE ProbeReset(t)
  BY <1>16 DEF ProbeReset, core, Proceed
<1>17. CASE SaveStartWord(t)
  BY <1>17 DEF SaveStartWord, core, history
<1>18. CASE WriteEndlessLoop(t)
  BY <1>18 DEF WriteEndlessLoop, Complete, Proceed, TimesOut, Raise, Open
<1>19. CASE TakeOutOfReset(t)
  BY <1>19 DEF TakeOutOfReset, Complete, Proceed, TimesOut, Raise, Open
<1>20. CASE TakeBackToReset(t)
  BY <1>20 DEF TakeBackToReset, Complete, Proceed, TimesOut, Raise, Open
<1>21. CASE RestoreStartWord(t)
  BY <1>21 DEF RestoreStartWord, history
<1>22. CASE Return(t)
  BY <1>22 DEF Return, core, history
<1>23. CASE AccessLost(t)
  BY <1>23 DEF AccessLost, core, TimesOut, Raise, Open
<1>24. CASE RestoreLost(t)
  BY <1>24 DEF RestoreLost, core
<1>. QED
  BY <1>1, <1>2, <1>3, <1>4, <1>5, <1>6, <1>7, <1>8, <1>9, <1>10, <1>11, <1>12, <1>13, <1>14,
     <1>15, <1>16, <1>17, <1>18, <1>19, <1>20, <1>21, <1>22, <1>23, <1>24 DEF HostStep

HaltInv == IInv /\ \A t \in Threads : ThreadOK(t)

LEMMA HaltInvInit == Init => HaltInv
<1>. SUFFICES ASSUME Init PROVE \A t \in Threads : ThreadOK(t)
  BY IInvInit DEF HaltInv
<1>. QED  BY DEF Init, ThreadOK, BodyHalted, FoundHalted, BodySteps

LEMMA HaltInvNext == OneThread /\ HaltInv /\ [Next]_vars => HaltInv'
<1>. SUFFICES ASSUME OneThread, HaltInv, [Next]_vars PROVE HaltInv'
  OBVIOUS
<1>1. IInv'
  BY IInvNext DEF HaltInv
<1>. SUFFICES ASSUME NEW t \in Threads PROVE ThreadOK(t)'
  BY <1>1 DEF HaltInv
<1>2. ThreadOK(t) /\ IInv
  BY DEF HaltInv
<1>. USE DEF ThreadOK, BodyHalted, FoundHalted, OwesNoCont
<1>3. ASSUME NEW s \in Threads, HostStep(s) PROVE ThreadOK(t)'
  <2>1. s = t
    BY DEF OneThread
  <2>. QED  BY <1>2, <1>3, <2>1, HostStepHalted
<1>4. CASE CoreStops
  BY <1>2, <1>4 DEF CoreStops, control, history, halted
<1>5. CASE OtherHostSetsReset
  BY <1>2, <1>5 DEF OtherHostSetsReset
<1>6. CASE UNCHANGED vars
  BY <1>2, <1>6 DEF vars, core, control, history, halted
<1>. QED  BY <1>3, <1>4, <1>5, <1>6 DEF Next

\* What ensure_halted documents, for a core that one thread operates on: its
\* body only touches the core while the core is halted, however accesses are
\* lost, the core's program stops by itself and other programs reset it.
THEOREM BodyRunsHaltedOneThread ==
  ASSUME OneThread
  PROVE  Spec => []BodyRunsHalted
<1>1. HaltInv => BodyRunsHalted
  BY DEF HaltInv, ThreadOK, BodyHalted, BodyRunsHalted
<1>2. HaltInv /\ [Next]_vars => HaltInv'
  BY OneThread, HaltInvNext
<1>. QED  BY HaltInvInit, <1>1, <1>2, PTL DEF Spec

\* A core found stopped stays stopped: no path through the nested contexts,
\* their bodies and their finally blocks continues it.
THEOREM StoppedCoreStaysStoppedOneThread ==
  ASSUME OneThread
  PROVE  Spec => []StoppedCoreStaysStopped
<1>1. HaltInv => StoppedCoreStaysStopped
  BY DEF HaltInv, ThreadOK, FoundHalted, OwesNoCont, StoppedCoreStaysStopped
<1>2. HaltInv /\ [Next]_vars => HaltInv'
  BY OneThread, HaltInvNext
<1>. QED  BY HaltInvInit, <1>1, <1>2, PTL DEF Spec

---------------------------------------------------------------------------
(* What an operation gives back to the core, however it ends.              *)

\* The start address holds the program's word, or the thread holds that word
\* and is inside the try block whose finally writes it back.
WordOK(t) ==
  /\ pc[t] \in {"pm_loop", "pm_deassert", "pm_assert", "pm_restore"} => guarded[t]
  /\ "pm_restore" \notin faultedAt
       => IF guarded[t] THEN saved[t] = "program" ELSE word = "program"

\* A private access that has not raised has left the reset signal alone, or
\* found the core in reset and is on its way to the step that puts it back.
ResetOK(t) ==
  op[t] = "private" /\ ~disturbed[t] =>
    /\ pc[t] = "pm_probe" => ~raised[t]
    /\ guarded[t] \/ pc[t] = "pm_save" => entry[t].inReset
    /\ ~guarded[t] /\ ~raised[t] => inReset = entry[t].inReset
    /\ pc[t] = "pm_restore" /\ ~raised[t] => inReset

\* The operations RunningCoreResumed speaks of, while they run.
MustResume(t) ==
  /\ op[t] \in ContextOps /\ ~entry[t].halted /\ ~disturbed[t]
  /\ faultedAt \cap {"halt_cmd", "halt_verify", "exit", "cont_check", "cont_cmd"} = {}

\* A core that the host has halted belongs to the outermost ensure_halted,
\* which is still open (or about to open) and has recorded that the core ran.
\* The nested context of a watchpoint never halts the core itself.
ResumeOK(t) ==
  MustResume(t) =>
    /\ run = "host" => pc[t] = "halt_verify" \/ (depth[t] >= 1 /\ ~wasHalted[t][1])
    /\ pc[t] = "enter" /\ depth[t] = 1 => halted
    /\ pc[t] \in {"halt_check", "halt_cmd", "halt_verify"} => depth[t] = 0 /\ ~wasHalted[t][1]

GivenBack(t) == WordOK(t) /\ ResetOK(t)
Unowned      == Threads = {} => word = "program"

---------------------------------------------------------------------------
(* Each step of the only thread keeps what it has to give back.            *)

LEMMA HostStepGivenBack ==
  ASSUME IInv, NEW t \in Threads, GivenBack(t), HostStep(t)
  PROVE  GivenBack(t)'
<1>0. /\ ControlTypeOK /\ StackOK(t) /\ GuardOK(t)
      /\ inReset \in BOOLEAN /\ entry \in [Threads -> [halted : BOOLEAN, inReset : BOOLEAN]]
      /\ disturbed \in [Threads -> BOOLEAN]
  BY DEF IInv, ControlOK, TypeOK
<1>. USE <1>0 DEF ControlTypeOK, StackOK, GuardOK, GivenBack, WordOK, ResetOK, BodySteps,
                  MaxDepth, Goto
<1>1. CASE Call(t)
  BY <1>1 DEF Call, core, bounds, Operations
<1>2. CASE AssertNotInReset(t)
  BY <1>2 DEF AssertNotInReset, core, history, Raise
<1>3. CASE EnsureHalted(t)
  BY <1>3 DEF EnsureHalted, core, history, Entered
<1>4. CASE HaltCheck(t)
  BY <1>4 DEF HaltCheck, core, history, HaltReturns, Entered
<1>5. CASE HaltCommand(t)
  BY <1>5 DEF HaltCommand, Complete, Proceed, TimesOut, Raise, Open
<1>6. CASE HaltVerify(t)
  BY <1>6 DEF HaltVerify, core, history, HaltReturns, Entered, Raise
<1>7. CASE WriteWatchpointAddress(t)
  BY <1>7 DEF WriteWatchpointAddress, core, Proceed
<1>8. CASE WriteWatchpointSettings(t)
  BY <1>8 DEF WriteWatchpointSettings, core, Proceed
<1>9. CASE AssertHalted(t)
  BY <1>9 DEF AssertHalted, core, Proceed, Raise
<1>10. CASE AccessPrivateMemory(t)
  BY <1>10 DEF AccessPrivateMemory, core, Proceed
<1>11. CASE BodyRaises(t)
  BY <1>11 DEF BodyRaises, core, history, Raise
<1>12. CASE ExitContext(t)
  BY <1>12 DEF ExitContext, core, history, Leave
<1>13. CASE ContCheck(t)
  BY <1>13 DEF ContCheck, core, history, ContReturns, Leave
<1>14. CASE ContCommand(t)
  BY <1>14 DEF ContCommand, ContReturns, Leave, TimesOut, Raise, Open
<1>15. CASE StepCommand(t)
  BY <1>15 DEF StepCommand, core, Proceed
<1>16. CASE ProbeReset(t)
  <2>1. ~guarded[t] /\ UNCHANGED <<op, guarded, saved, raised, faultedAt, word, entry, disturbed, inReset>>
    BY <1>16 DEF ProbeReset, core, Proceed
  <2>2. pc'[t] \in {"pm_save", "enter"} /\ (pc'[t] = "pm_save" => inReset)
    BY <1>16 DEF ProbeReset, Proceed
  <2>3. WordOK(t)'
    BY <2>1, <2>2
  <2>4. ResetOK(t)'
    BY <1>16, <2>1, <2>2 DEF ProbeReset
  <2>. QED  BY <2>3, <2>4
<1>17. CASE SaveStartWord(t)
  BY <1>17 DEF SaveStartWord, core, history
<1>18. CASE WriteEndlessLoop(t)
  BY <1>18 DEF WriteEndlessLoop, Complete, Proceed, TimesOut, Raise, Open
<1>19. CASE TakeOutOfReset(t)
  BY <1>19 DEF TakeOutOfReset, Complete, Proceed, TimesOut, Raise, Open
<1>20. CASE TakeBackToReset(t)
  BY <1>20 DEF TakeBackToReset, Complete, Proceed, TimesOut, Raise, Open
<1>21. CASE RestoreStartWord(t)
  BY <1>21 DEF RestoreStartWord, history
<1>22. CASE Return(t)
  BY <1>22 DEF Return, core, history
<1>23. CASE AccessLost(t)
  BY <1>23 DEF AccessLost, core, TimesOut, Raise, Open
<1>24. CASE RestoreLost(t)
  BY <1>24 DEF RestoreLost, core
<1>. QED
  BY <1>1, <1>2, <1>3, <1>4, <1>5, <1>6, <1>7, <1>8, <1>9, <1>10, <1>11, <1>12, <1>13, <1>14,
     <1>15, <1>16, <1>17, <1>18, <1>19, <1>20, <1>21, <1>22, <1>23, <1>24 DEF HostStep

LEMMA HostStepResume ==
  ASSUME IInv, NEW t \in Threads, ThreadOK(t), ResumeOK(t), HostStep(t)
  PROVE  ResumeOK(t)'
<1>0. /\ ControlTypeOK /\ StackOK(t) /\ GuardOK(t)
      /\ entry \in [Threads -> [halted : BOOLEAN, inReset : BOOLEAN]]
      /\ disturbed \in [Threads -> BOOLEAN]
  BY DEF IInv, ControlOK, TypeOK
<1>. USE <1>0 DEF ControlTypeOK, StackOK, GuardOK, ThreadOK, BodyHalted, MustResume, ResumeOK,
                  halted, BodySteps, ContextOps, MaxDepth, Goto
<1>1. CASE Call(t)
  <2>1. depth'[t] = 0 /\ run' = run /\ entry'[t].halted = halted
    BY <1>1 DEF Call, core
  <2>2. pc'[t] \in {"pm_probe", "enter", "assert"}
    BY <1>1 DEF Call
  <2>3. ~entry'[t].halted => run' = "running"
    BY <2>1
  <2>. QED  BY <2>1, <2>2, <2>3
<1>2. CASE AssertNotInReset(t)
  <2>1. depth'[t] = 0 /\ UNCHANGED <<op, wasHalted, run, entry, disturbed, faultedAt>>
    BY <1>2 DEF AssertNotInReset, core, history, Raise
  <2>2. op[t] \in ContextOps => pc'[t] \in {"enter", "pm_restore", "done"}
    BY <1>2 DEF AssertNotInReset, Raise
  <2>. QED  BY <1>2, <2>1, <2>2 DEF AssertNotInReset
<1>3. CASE EnsureHalted(t)
  BY <1>3 DEF EnsureHalted, core, history, Entered
<1>4. CASE HaltCheck(t)
  BY <1>4 DEF HaltCheck, core, history, HaltReturns, Entered
<1>5. CASE HaltCommand(t)
  BY <1>5 DEF HaltCommand, Complete, Proceed, TimesOut, Raise, Open
<1>6. CASE HaltVerify(t)
  BY <1>6 DEF HaltVerify, core, history, HaltReturns, Entered, Raise
<1>7. CASE WriteWatchpointAddress(t)
  BY <1>7 DEF WriteWatchpointAddress, core, Proceed
<1>8. CASE WriteWatchpointSettings(t)
  BY <1>8 DEF WriteWatchpointSettings, core, Proceed
<1>9. CASE AssertHalted(t)
  BY <1>9 DEF AssertHalted, core, Proceed, Raise
<1>10. CASE AccessPrivateMemory(t)
  BY <1>10 DEF AccessPrivateMemory, core, Proceed
<1>11. CASE BodyRaises(t)
  BY <1>11 DEF BodyRaises, core, history, Raise
<1>12. CASE ExitContext(t)
  BY <1>12 DEF ExitContext, core, history, Leave
<1>13. CASE ContCheck(t)
  BY <1>13 DEF ContCheck, core, history, ContReturns, Leave
<1>14. CASE ContCommand(t)
  BY <1>14 DEF ContCommand, ContReturns, Leave, TimesOut, Raise, Open
<1>15. CASE StepCommand(t)
  BY <1>15 DEF StepCommand, core, Proceed
<1>16. CASE ProbeReset(t)
  BY <1>16 DEF ProbeReset, core, Proceed
<1>17. CASE SaveStartWord(t)
  BY <1>17 DEF SaveStartWord, core, history
<1>18. CASE WriteEndlessLoop(t)
  BY <1>18 DEF WriteEndlessLoop, Complete, Proceed, TimesOut, Raise, Open
<1>19. CASE TakeOutOfReset(t)
  BY <1>19 DEF TakeOutOfReset, Complete, Proceed, TimesOut, Raise, Open
<1>20. CASE TakeBackToReset(t)
  BY <1>20 DEF TakeBackToReset, Complete, Proceed, TimesOut, Raise, Open
<1>21. CASE RestoreStartWord(t)
  BY <1>21 DEF RestoreStartWord, history
<1>22. CASE Return(t)
  BY <1>22 DEF Return, core, history
<1>23. CASE AccessLost(t)
  BY <1>23 DEF AccessLost, core, TimesOut, Raise, Open
<1>24. CASE RestoreLost(t)
  BY <1>24 DEF RestoreLost, core
<1>. QED
  BY <1>1, <1>2, <1>3, <1>4, <1>5, <1>6, <1>7, <1>8, <1>9, <1>10, <1>11, <1>12, <1>13, <1>14,
     <1>15, <1>16, <1>17, <1>18, <1>19, <1>20, <1>21, <1>22, <1>23, <1>24 DEF HostStep

\* Without a thread, the core keeps the program's word.
OneInv == HaltInv /\ Unowned /\ \A t \in Threads : GivenBack(t) /\ ResumeOK(t)

LEMMA OneInvInit == Init => OneInv
<1>. SUFFICES ASSUME Init PROVE OneInv
  OBVIOUS
<1>1. Unowned
  BY DEF Init, Unowned
<1>2. ASSUME NEW t \in Threads PROVE GivenBack(t) /\ ResumeOK(t)
  BY DEF Init, GivenBack, WordOK, ResetOK, ResumeOK, MustResume, ContextOps
<1>. QED  BY <1>1, <1>2, HaltInvInit DEF OneInv

LEMMA OneInvNext == OneThread /\ OneInv /\ [Next]_vars => OneInv'
<1>. SUFFICES ASSUME OneThread, OneInv, [Next]_vars PROVE OneInv'
  OBVIOUS
<1>1. HaltInv' /\ HaltInv /\ IInv
  BY HaltInvNext DEF OneInv, HaltInv
<1>2. Unowned'
  BY DEF OneInv, Unowned, Next, CoreStops, OtherHostSetsReset, vars, core
<1>. SUFFICES ASSUME NEW t \in Threads PROVE GivenBack(t)' /\ ResumeOK(t)'
  BY <1>1, <1>2 DEF OneInv
<1>3. GivenBack(t) /\ ResumeOK(t) /\ ThreadOK(t) /\ StackOK(t)
  BY <1>1 DEF OneInv, HaltInv, IInv, ControlOK
<1>4. ASSUME NEW s \in Threads, HostStep(s) PROVE GivenBack(t)' /\ ResumeOK(t)'
  <2>1. s = t
    BY DEF OneThread
  <2>. QED  BY <1>1, <1>3, <1>4, <2>1, HostStepGivenBack, HostStepResume
<1>. USE DEF GivenBack, WordOK, ResetOK, ResumeOK, MustResume
<1>5. CASE CoreStops
  BY <1>3, <1>5 DEF CoreStops, control, history, halted
<1>6. CASE OtherHostSetsReset
  BY <1>3, <1>6 DEF OtherHostSetsReset, control
<1>7. CASE UNCHANGED vars
  BY <1>3, <1>7 DEF vars, core, control, history, halted
<1>. QED  BY <1>4, <1>5, <1>6, <1>7 DEF Next

\* The start address gets its word back however a private access ended, unless
\* the write that restores it was itself lost.
THEOREM StartWordRestoredOneThread ==
  ASSUME OneThread
  PROVE  Spec => []StartWordRestored
<1>1. OneInv => StartWordRestored
  BY DEF OneInv, HaltInv, IInv, ControlOK, GuardOK, Unowned, GivenBack, WordOK, StartWordRestored
<1>2. OneInv /\ [Next]_vars => OneInv'
  BY OneThread, OneInvNext
<1>. QED  BY OneInvInit, <1>1, <1>2, PTL DEF Spec

\* A private access that returns normally leaves the reset signal of the core
\* as it found it.
THEOREM ResetSignalRestoredOneThread ==
  ASSUME OneThread
  PROVE  Spec => []ResetSignalRestored
<1>1. OneInv => ResetSignalRestored
  BY DEF OneInv, HaltInv, IInv, ControlOK, GuardOK, GivenBack, ResetOK, ResetSignalRestored
<1>2. OneInv /\ [Next]_vars => OneInv'
  BY OneThread, OneInvNext
<1>. QED  BY OneInvInit, <1>1, <1>2, PTL DEF Spec

\* A core that ran when ensure_halted was entered is not left halted by the
\* host, even if the body raised, when no halt or continue of it was lost.
THEOREM RunningCoreResumedOneThread ==
  ASSUME OneThread
  PROVE  Spec => []RunningCoreResumed
<1>1. OneInv => RunningCoreResumed
  BY DEF OneInv, HaltInv, IInv, ControlOK, StackOK, ResumeOK, MustResume, RunningCoreResumed
<1>2. OneInv /\ [Next]_vars => OneInv'
  BY OneThread, OneInvNext
<1>. QED  BY OneInvInit, <1>1, <1>2, PTL DEF Spec

=============================================================================
