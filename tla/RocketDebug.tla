---------------------------- MODULE RocketDebug ----------------------------
(***************************************************************************)
(* QuasarRocketCoreDebug (hardware/quasar/rocket_core_debug.py): one host   *)
(* thread drives the Rocket cores (harts) of a Quasar overlay cluster       *)
(* through the one RISC-V debug module that they share.                     *)
(*                                                                          *)
(* A method is the sequence of register accesses it makes, its script; an   *)
(* action carries out the next one.  The debug module is external: an       *)
(* abstract command and the program buffer act on the hart that was last    *)
(* selected in DMCONTROL, and fail unless it is halted.  A command may fail *)
(* by itself, a hart may refuse to halt, and any access may raise a         *)
(* HardwareError (TimeoutDeviceRegisterError).                              *)
(***************************************************************************)
EXTENDS Integers, Sequences

CONSTANTS
  Harts,      \* harts of the cluster
  First,      \* the one with risc_id 0
  Values,     \* of a register
  MaxCalls,   \* bound on calls
  MaxFaults   \* bound on failing accesses, commands and halt requests

ASSUME RocketAssumption ==
  First \in Harts /\ Values # {} /\ MaxCalls \in Nat /\ MaxFaults \in Nat

\* x5, the scratch register, one that is not, and dpc.
Registers == {"x1", "x5", "pc"}

VARIABLES
  dm,        \* the debug module is out of reset and active
  hartsel,   \* the hart selected in DMCONTROL
  state,     \* of each hart: "reset", "running", "halted"
  reg,       \* registers of each hart, of use while it is halted
  single,    \* dcsr.step of each hart
  progbuf, data, cmderr,   \* PROGBUF0, DATA0/1, sticky error of ABSTRACTCS
  op,        \* the call: method, hart, register, value
  script,    \* accesses it has yet to make
  inside,    \* in the body of ensure_halted
  was_halted,
  outcome,   \* "busy" during a call, then how it ended
  calls, faults,
  \* history, read by the properties only
  before,    \* state and registers of the harts when the call began
  retired,   \* instructions that each hart has finished since, up to two
  own,       \* a command of this call failed by itself
  lost       \* an access failed in the entry or exit of ensure_halted or in
             \* between the resume request and the end of a step

hardware == <<dm, hartsel, state, reg, single, progbuf, data, cmderr>>
host == <<op, script, inside, was_halted, outcome>>
history == <<before, retired, own, lost>>
vars == <<hardware, host, calls, faults, history>>
---------------------------------------------------------------------------
(* Scripts.                                                                *)

Do(what) == [do |-> what, arg |-> "none"]
With(what, arg) == [do |-> what, arg |-> arg]

\* COMMAND: run the program buffer, or move a register from or to DATA0/1.
Access(kind, r) == [kind |-> kind, reg |-> r]
Exec == Access("exec", "none")

\* The check, the halt request and its verification; then the try.
EnsureHalted(body) ==
  <<Do("check"), Do("request"), Do("verify")>> \o body \o <<Do("exit")>>

\* Mutant of Abstract: a sticky error is not cleared.
AbstractUncleared(prepare, command) ==
  EnsureHalted(prepare \o <<With("command", command)>>)

\* _execute_abstract_command.
Abstract(prepare, command) ==
  EnsureHalted(<<Do("clear")>> \o prepare \o <<With("command", command)>>)

ProgramBuffer(insn) == Abstract(<<With("progbuf", insn)>>, Exec)

\* The value is fetched from DATA0 and DATA1 after the context has ended.
ReadRegister(r) == Abstract(<<>>, Access("read", r)) \o <<Do("fetch")>>

WriteRegister(r, v) == Abstract(<<With("data", v)>>, Access("write", r))

\* Mutant of Step: a step that has ended leaves dcsr.step set.
StepUncleared ==
  <<Do("assert_halted")>> \o ProgramBuffer("csrsi_step")
    \o <<Do("resume"), Do("wait")>>

Step ==
  <<Do("assert_halted")>> \o ProgramBuffer("csrsi_step")
    \o <<Do("resume"), Do("wait")>> \o ProgramBuffer("csrci_step")

Script(o) ==
  CASE o.method = "halt" -> <<Do("check"), Do("request"), Do("verify")>>
    [] o.method = "cont" -> <<Do("cont")>>
    [] o.method = "step" -> Step
    [] o.method = "read" /\ o.reg # "pc" -> ReadRegister(o.reg)
    [] o.method = "read" /\ o.reg = "pc" -> <<Do("pc")>>
    [] o.method = "write" /\ o.reg # "pc" -> WriteRegister(o.reg, o.value)
    [] o.method = "write" /\ o.reg = "pc" ->
         WriteRegister("x5", o.value) \o ProgramBuffer("csrw_dpc_x5")
    [] o.method = "set_reset" -> <<Do("set_reset")>>
    [] o.method = "clear_reset" -> <<Do("clear_reset")>>

Ops ==
  [method : {"halt", "cont", "step", "set_reset", "clear_reset"}, hart : Harts,
   reg : {"none"}, value : {"none"}]
  \cup [method : {"read"}, hart : Harts, reg : Registers, value : {"none"}]
  \cup [method : {"write"}, hart : Harts, reg : Registers, value : Values]
---------------------------------------------------------------------------
Init ==
  /\ dm \in BOOLEAN /\ hartsel \in Harts
  /\ state \in [Harts -> {"reset", "running", "halted"}]
  /\ ~dm => \A h \in Harts : state[h] # "halted"
  /\ \E v \in Values : reg = [h \in Harts |-> [r \in Registers |-> v]] /\ data = v
  /\ single = [h \in Harts |-> FALSE]
  /\ progbuf = "none" /\ cmderr = FALSE
  /\ op = [method |-> "none", hart |-> First, reg |-> "none", value |-> "none"]
  /\ script = <<>> /\ inside = FALSE /\ was_halted = FALSE /\ outcome = "ok"
  /\ calls = 0 /\ faults = 0
  /\ before = [state |-> state, reg |-> reg]
  /\ retired = [h \in Harts |-> 0]
  /\ own = FALSE /\ lost = FALSE

\* Every method begins with ensure_debug_module_is_active, whose write of 1 to
\* DMCONTROL also selects hart 0.
Call(o) ==
  /\ outcome # "busy" /\ calls < MaxCalls
  /\ calls' = calls + 1
  /\ op' = o
  /\ script' = Script(o)
  /\ outcome' = "busy"
  /\ dm' = TRUE
  /\ hartsel' = IF dm THEN hartsel ELSE First
  /\ before' = [state |-> state, reg |-> reg]
  /\ retired' = [h \in Harts |-> 0]
  /\ own' = FALSE /\ lost' = FALSE
  /\ UNCHANGED <<state, reg, single, progbuf, data, cmderr, inside, was_halted, faults>>

Due(what) == outcome = "busy" /\ script # <<>> /\ Head(script).do = what

\* The access was made: the call goes on with rest, and ends when that is empty.
GoOn(rest) ==
  /\ script' = rest
  /\ outcome' = IF rest = <<>> THEN "ok" ELSE "busy"

\* An exception: the finally of ensure_halted, when inside, then the caller.
Raise(how) ==
  IF inside
  THEN script' = <<With("exit", how)>> /\ UNCHANGED outcome
  ELSE script' = <<>> /\ outcome' = how

Hart == op.hart
Halted(h) == state[h] = "halted"

\* is_halted before the halt: in ensure_halted, and again in halt, which
\* returns if the hart is halted already.
Check ==
  /\ Due("check")
  /\ IF Halted(Hart) THEN GoOn(SubSeq(script, 4, Len(script))) ELSE GoOn(Tail(script))
  /\ was_halted' = Halted(Hart)
  /\ inside' = (Halted(Hart) /\ op.method # "halt")
  /\ UNCHANGED <<hardware, op, calls, faults, history>>

\* A hart that is in reset, or refuses, does not halt.
Request ==
  /\ Due("request")
  /\ hartsel' = Hart
  /\ \/ /\ state[Hart] = "running"
        /\ state' = [state EXCEPT ![Hart] = "halted"]
        /\ \E registers \in [Registers -> Values] : reg' = [reg EXCEPT ![Hart] = registers]
        /\ UNCHANGED faults
     \/ /\ faults < MaxFaults \/ state[Hart] # "running"
        /\ faults' = IF state[Hart] = "running" THEN faults + 1 ELSE faults
        /\ UNCHANGED <<state, reg>>
  /\ GoOn(Tail(script))
  /\ UNCHANGED <<dm, single, progbuf, data, cmderr, op, inside, was_halted, calls, history>>

Verify ==
  /\ Due("verify")
  /\ IF Halted(Hart) THEN GoOn(Tail(script)) ELSE Raise("not_halted")
  /\ inside' = (Halted(Hart) /\ op.method # "halt")
  /\ UNCHANGED <<hardware, op, was_halted, calls, faults, history>>

Clear ==
  /\ Due("clear")
  /\ cmderr' = FALSE
  /\ GoOn(Tail(script))
  /\ UNCHANGED <<dm, hartsel, state, reg, single, progbuf, data, op, inside, was_halted,
                 calls, faults, history>>

Stage ==
  /\ \/ Due("progbuf") /\ progbuf' = Head(script).arg /\ UNCHANGED data
     \/ Due("data") /\ data' = Head(script).arg /\ UNCHANGED progbuf
  /\ GoOn(Tail(script))
  /\ UNCHANGED <<dm, hartsel, state, reg, single, cmderr, op, inside, was_halted, calls,
                 faults, history>>

\* What a command does to the hart that is selected.
Execute(h, command) ==
  LET runs(insn) == command.kind = "exec" /\ progbuf = insn IN
  /\ single' = [single EXCEPT ![h] = (@ \/ runs("csrsi_step")) /\ ~runs("csrci_step")]
  /\ data' = IF command.kind = "read" THEN reg[h][command.reg] ELSE data
  /\ reg' = CASE command.kind = "write" -> [reg EXCEPT ![h][command.reg] = data]
              [] runs("csrr_x5_dpc") -> [reg EXCEPT ![h]["x5"] = reg[h]["pc"]]
              [] runs("csrw_dpc_x5") -> [reg EXCEPT ![h]["pc"] = reg[h]["x5"]]
              [] OTHER -> reg

\* A command is ignored while an error is set.
Command ==
  /\ Due("command")
  /\ \/ /\ ~cmderr /\ Halted(hartsel)
        /\ Execute(hartsel, Head(script).arg)
        /\ GoOn(Tail(script))
        /\ UNCHANGED <<cmderr, faults, own>>
     \/ /\ cmderr \/ ~Halted(hartsel) \/ faults < MaxFaults
        /\ faults' = IF cmderr \/ ~Halted(hartsel) THEN faults ELSE faults + 1
        /\ own' = ~(cmderr \/ ~Halted(hartsel))
        /\ cmderr' = TRUE
        /\ Raise("command_error")
        /\ UNCHANGED <<reg, single, data>>
  /\ UNCHANGED <<dm, hartsel, state, progbuf, op, inside, was_halted, calls, before,
                 retired, lost>>

Resume(h) ==
  /\ hartsel' = h
  /\ state' = [state EXCEPT ![h] = "running"]

\* Mutant of Exit: a hart that was halted is resumed as well.
ExitAlways == state[Hart] = "halted"

\* The finally of ensure_halted: cont, which warns when the hart is running.
Resumes == ~was_halted /\ state[Hart] = "halted"

Exit ==
  /\ Due("exit")
  /\ IF Resumes THEN Resume(Hart) ELSE UNCHANGED <<hartsel, state>>
  /\ inside' = FALSE
  /\ IF Head(script).arg = "none" THEN GoOn(Tail(script))
     ELSE script' = <<>> /\ outcome' = Head(script).arg
  /\ UNCHANGED <<dm, reg, single, progbuf, data, cmderr, op, was_halted, calls, faults,
                 history>>

Cont ==
  /\ Due("cont")
  /\ IF Halted(Hart) THEN Resume(Hart) ELSE UNCHANGED <<hartsel, state>>
  /\ GoOn(<<>>)
  /\ UNCHANGED <<dm, reg, single, progbuf, data, cmderr, op, inside, was_halted, calls,
                 faults, history>>

\* get_pc: dpc of a halted hart, else the write-back tap.
ReadPc ==
  /\ Due("pc")
  /\ GoOn(IF Halted(Hart) THEN ProgramBuffer("csrr_x5_dpc") \o ReadRegister("x5") ELSE <<>>)
  /\ UNCHANGED <<hardware, op, inside, was_halted, calls, faults, history>>

AssertHalted ==
  /\ Due("assert_halted")
  /\ IF Halted(Hart) THEN GoOn(Tail(script)) ELSE Raise("assertion")
  /\ UNCHANGED <<hardware, op, inside, was_halted, calls, faults, history>>

ResumeForStep ==
  /\ Due("resume")
  /\ Resume(Hart)
  /\ GoOn(Tail(script))
  /\ UNCHANGED <<dm, reg, single, progbuf, data, cmderr, op, inside, was_halted, calls,
                 faults, history>>

\* _wait_for_step_to_complete polls DMSTATUS, of the selected hart, and may
\* give up.
Wait ==
  /\ Due("wait")
  /\ \/ Halted(hartsel) /\ GoOn(Tail(script)) /\ UNCHANGED <<faults, lost>>
     \/ ~Halted(hartsel) /\ faults < MaxFaults /\ Raise("timeout")
          /\ faults' = faults + 1 /\ lost' = TRUE
  /\ UNCHANGED <<hardware, op, inside, was_halted, calls, before, retired, own>>

Fetch ==
  /\ Due("fetch")
  /\ GoOn(Tail(script))
  /\ UNCHANGED <<hardware, op, inside, was_halted, calls, faults, history>>

\* set_reset_signal; a hart that leaves reset runs.
SetReset ==
  /\ \/ Due("set_reset") /\ state' = [state EXCEPT ![Hart] = "reset"]
     \/ Due("clear_reset") /\ state' = [state EXCEPT ![Hart] = IF @ = "reset" THEN "running" ELSE @]
  /\ single' = [single EXCEPT ![Hart] = @ /\ state'[Hart] # "reset"]
  /\ GoOn(<<>>)
  /\ UNCHANGED <<dm, hartsel, reg, progbuf, data, cmderr, op, inside, was_halted, calls,
                 faults, history>>

\* An access raises, without its effect.  An exception in the finally replaces
\* the one that is being handled.
AccessFails ==
  /\ outcome = "busy" /\ faults < MaxFaults
  /\ faults' = faults + 1
  /\ lost' = (lost \/ Head(script).do \in {"verify", "exit", "wait"}
                   \/ (op.method = "step" /\ single[Hart]))
  /\ \/ Head(script).do = "exit" /\ script' = <<>> /\ outcome' = "raised" /\ inside' = FALSE
     \/ Head(script).do # "exit" /\ Raise("raised") /\ UNCHANGED inside
  /\ UNCHANGED <<hardware, op, was_halted, calls, before, retired, own>>

\* A running hart finishes an instruction, and with dcsr.step set it halts.
HartRuns(h) ==
  /\ state[h] = "running"
  /\ \/ /\ single[h]
        /\ state' = [state EXCEPT ![h] = "halted"]
        /\ \E registers \in [Registers -> Values] : reg' = [reg EXCEPT ![h] = registers]
     \/ /\ ~single[h] /\ retired[h] < 2
        /\ UNCHANGED <<state, reg>>
  /\ retired' = [retired EXCEPT ![h] = IF @ < 2 THEN @ + 1 ELSE @]
  /\ UNCHANGED <<dm, hartsel, single, progbuf, data, cmderr, host, calls, faults, before,
                 own, lost>>

Next ==
  \/ \E o \in Ops : Call(o)
  \/ Check \/ Request \/ Verify \/ Clear \/ Stage \/ Command \/ Exit \/ Cont \/ ReadPc
  \/ AssertHalted \/ ResumeForStep \/ Wait \/ Fetch \/ SetReset \/ AccessFails
  \/ \E h \in Harts : HartRuns(h)

Spec == Init /\ [][Next]_vars
---------------------------------------------------------------------------
(* Properties.                                                             *)

Ended(how) == outcome # "busy" /\ outcome \in how /\ op.method # "none"
Throughout == before.state[Hart] = "halted" /\ op.method \in {"read", "write"}

\* What a call on a halted hart may change: the register it writes, and x5
\* where dpc goes through it (rocket_core_debug.py 252-258).
Written == (IF op.method = "write" THEN {op.reg} ELSE {})
             \cup (IF op.reg = "pc" THEN {"x5"} ELSE {})

\* However a read or a write of a halted hart ends, its other registers are
\* those it had; a read that ends well has the value in DATA0 and DATA1, a
\* write has it in the register, and a command error is one of its own, not
\* a sticky one of an earlier call (rocket_core_debug.py 207-230).
RegistersKept ==
  Ended({"ok", "command_error", "raised"}) /\ Throughout =>
    /\ \A r \in Registers \ Written : reg[Hart][r] = before.reg[Hart][r]
    /\ outcome = "ok" /\ op.method = "read" => data = before.reg[Hart][op.reg]
    /\ outcome = "ok" /\ op.method = "write" => reg[Hart][op.reg] = op.value
    /\ outcome = "command_error" => own

\* A read or a write gives the hart back halted or running, as it found it,
\* unless a failed step has left it stepping: when it ends well, when a command
\* fails and when an access in the body of ensure_halted raises
\* (rocket_core_debug.py 123-132).
HartGivenBack ==
  Ended({"ok", "command_error", "raised"}) /\ op.method \in {"read", "write"}
    /\ ~lost /\ ~single[Hart] => state[Hart] = before.state[Hart]

\* A step of a halted hart that ends well has run one instruction and cleared
\* dcsr.step, so that the next cont runs on; only a failure leaves it set
\* (rocket_core_debug.py 134-143).
OneInstruction ==
  /\ Ended({"ok"}) /\ op.method = "step" /\ before.state[Hart] = "halted" =>
       retired[Hart] = 1 /\ Halted(Hart) /\ ~single[Hart]
  /\ outcome # "busy" /\ single[Hart] => calls > 0 /\ faults > 0
=============================================================================
