----------------------------- MODULE WorkerDebug -----------------------------
(***************************************************************************)
(* The debug registers of one worker block, driven by one host thread: the  *)
(* debug bus and the sampling of its signals into L1                        *)
(* (DebugBusSignalStore, debug_bus_signal_store.py), and the injection of   *)
(* Tensix instructions and the register files that are read with it         *)
(* (TensixDebug, debug_tensix.py).                                          *)
(*                                                                          *)
(* A method is the sequence of accesses it makes, its script; an action     *)
(* carries out the next one, and any may raise.  The hardware is external:  *)
(* it takes the samples and executes the instructions in its own time, the  *)
(* program of the block pushes instructions of its own while the host has   *)
(* not claimed the FIFO, and a push into a full FIFO is lost.               *)
(***************************************************************************)
EXTENDS Integers, Sequences

CONSTANTS
  Groups,      \* signal groups; a group fills one line of L1
  Words,       \* read selects of a group
  LastLine,    \* L1 that samples may go to: lines 0..LastLine
  MaxSamples,  \* bound on the samples of one call
  Threads,     \* of the Tensix
  MathThread,  \* the one that register files are read with
  LastRow,     \* register file: rows 0..LastRow
  Depth,       \* of a FIFO
  MaxCalls, MaxFaults

ASSUME WorkerAssumption ==
  /\ MathThread \in Threads
  /\ {Words, LastLine, LastRow, MaxCalls, MaxFaults} \subseteq Nat
  /\ {MaxSamples, Depth} \subseteq Nat \ {0}

VARIABLES
  select,                \* DBG_BUS_CNTL_REG: group and word
  reg0, reg1,            \* L1_MEM_REG0 and 1: first line, end of the lines
  mode, trigger,         \* fields of L1_MEM_REG2
  sampling, line,        \* the sampler is at work, and its next line
  l1,
  claim, staged,         \* INSTRN_BUF_CTRL0: threads claimed; INSTRN_BUF_CTRL1
  fifo,                  \* of each thread
  dst0, saved,           \* row 0 of DST, and the register it is saved to
  array_en, array_row,   \* DBG_ARRAY_RD_EN and _CMD
  op, script, got,       \* the call, the accesses it has yet to make, its result
  outcome,               \* "busy" during a call, then how it ended
  calls, faults,
  \* history, read by the properties only
  before,                \* row 0 of DST when the call began, and if no
                         \* instruction of an earlier call was still to execute
  executed               \* instructions of this call that were executed

bus == <<select, reg0, reg1, mode, trigger, sampling, line, l1>>
tensix == <<claim, staged, fifo, dst0, saved, array_en, array_row>>
history == <<before, executed>>
vars == <<bus, tensix, op, script, got, outcome, calls, faults, history>>
---------------------------------------------------------------------------
(* Scripts.                                                                *)

With(what, arg) == [do |-> what, arg |-> arg]
Word(group, word) == [group |-> group, word |-> word]
Reg2(m, t) == With("reg2", [mode |-> m, trigger |-> t])
Mode(samples) == IF samples > 1 THEN "many" ELSE "one"

\* _read_signal_data.
ReadWord(group, word) == <<With("select", Word(group, word)), With("data", "none")>>

\* read_signal_group_unsafe.
ReadUnsafe(group) ==
  LET from[w \in 0..Words] ==
        IF w = Words THEN <<>> ELSE ReadWord(group, w) \o from[w + 1]
  IN from[0]

\* _setup_l1_sampling_configuration.
Setup(group, at, samples) ==
  <<With("select", Word(group, 0)), Reg2("prepare", FALSE), With("reg0", at)>>
    \o (IF samples > 1 THEN <<With("reg1", at + samples)>> ELSE <<>>)
    \o <<Reg2(Mode(samples), FALSE)>>

\* Mutant of Sample: the sentinel goes to the first line.
SampleFirst(at, samples) ==
  <<With("sentinel", at), Reg2(Mode(samples), TRUE), Reg2(Mode(samples), FALSE),
    With("await", at)>>

\* _execute_l1_sampling.
Sample(at, samples) ==
  LET last == at + samples - 1 IN
  <<With("sentinel", last), Reg2(Mode(samples), TRUE), Reg2(Mode(samples), FALSE),
    With("await", last)>>

\* _process_l1_samples.
Process(at, samples) == [i \in 1..samples |-> With("line", at + i - 1)]

\* Mutant of Inject: the FIFO is claimed and filled on one check.
InjectUnchecked(insn, t) ==
  <<With("ready", t), With("claim", t), With("stage", insn), With("push", t),
    With("drained", t), With("release", t)>>

\* _start_insn_push, _insn_push and _end_insn_push.
Inject(insn, t) ==
  <<With("ready", t), With("claim", t), With("ready", t), With("stage", insn),
    With("push", t), With("drained", t), With("release", t)>>

\* Mutant of ReadRow: row 0 of DST is saved after it was moved over.
ReadRowMovedFirst(file, row) ==
  IF file = "dst" THEN <<With("row", row), With("array", "none")>>
  ELSE Inject(With("move", row), MathThread) \o Inject(With("save", 0), MathThread)
         \o <<With("row", 0), With("array", "none")>>
         \o Inject(With("store", 0), MathThread)

\* A row of SRCA is moved over row 0 of DST, which is saved and stored around
\* it: SFPLOAD, MOVDBGA2D, SFPSTORE.
ReadRow(file, row) ==
  IF file = "dst" THEN <<With("row", row), With("array", "none")>>
  ELSE Inject(With("save", 0), MathThread) \o Inject(With("move", row), MathThread)
         \o <<With("row", 0), With("array", "none")>>
         \o Inject(With("store", 0), MathThread)

\* read_regfile_data, for the files that are not read directly.
ReadFile(file) ==
  LET from[r \in 0..(LastRow + 1)] ==
        IF r > LastRow THEN <<>> ELSE ReadRow(file, r) \o from[r + 1]
  IN <<With("enable", TRUE)>> \o from[0] \o <<With("enable", FALSE), With("row", 0)>>

\* _validate_l1_parameters: the samples fit.
Fits(o) == o.at + o.samples - 1 <= LastLine

Script(o) ==
  CASE o.method = "read_signal" -> ReadWord(o.group, o.word)
    [] o.method = "read_signal_group_unsafe" -> ReadUnsafe(o.group)
    [] o.method = "sample_signal_group" /\ Fits(o) ->
         Setup(o.group, o.at, o.samples) \o Sample(o.at, o.samples) \o Process(o.at, o.samples)
    [] o.method = "sample_signal_group" /\ ~Fits(o) -> <<>>
    [] o.method = "inject_instruction" -> Inject(With("other", 0), o.thread)
    [] o.method = "read_regfile" -> ReadFile(o.file)

Ops ==
  [method : {"read_signal"}, group : Groups, word : 0..(Words - 1)]
  \cup [method : {"read_signal_group_unsafe"}, group : Groups]
  \cup [method : {"sample_signal_group"}, group : Groups, at : 0..LastLine,
        samples : 1..MaxSamples]
  \cup [method : {"inject_instruction"}, thread : Threads]
  \cup [method : {"read_regfile"}, file : {"dst", "srca"}]
---------------------------------------------------------------------------
(* Register files, and what L1 holds: a line of an earlier use, the         *)
(* sentinel, or a sample of a group taken during a call.                    *)

Row(file, row) == [file |-> file, row |-> row]
Line(group, call) == [group |-> group, call |-> call]

Init ==
  /\ \E g \in Groups : select = Word(g, 0)
  /\ reg0 = 0 /\ reg1 = 0 /\ mode = "one" /\ trigger = FALSE
  /\ sampling = FALSE /\ line = 0
  /\ l1 = [x \in 0..LastLine |-> Line("old", 0)]
  /\ claim = {} /\ staged = [do |-> "none", row |-> 0, call |-> 0]
  /\ fifo = [t \in Threads |-> <<>>]
  /\ dst0 = Row("dst", 0) /\ saved = Row("lreg", 0)
  /\ array_en = FALSE /\ array_row = 0
  /\ op = [method |-> "none"] /\ script = <<>> /\ got = <<>> /\ outcome = "ok"
  /\ calls = 0 /\ faults = 0
  /\ before = [dst0 |-> dst0, clean |-> TRUE] /\ executed = <<>>

OfProgram == [do |-> "program", row |-> 0, call |-> 0]

Call(o) ==
  /\ outcome # "busy" /\ calls < MaxCalls
  /\ calls' = calls + 1
  /\ op' = o /\ script' = Script(o) /\ got' = <<>>
  /\ outcome' = IF script' = <<>> THEN "refused" ELSE "busy"
  /\ before' = [dst0 |-> dst0,
                clean |-> \A t \in Threads : \A i \in DOMAIN fifo[t] : fifo[t][i] = OfProgram]
  /\ executed' = <<>>
  /\ UNCHANGED <<bus, tensix, faults>>

Due(what) == outcome = "busy" /\ Head(script).do = what
Arg == Head(script).arg

\* The access was made, and added result to what the call returns.
GoOn(result) ==
  /\ script' = Tail(script)
  /\ got' = got \o result
  /\ outcome' = IF script' = <<>> THEN "ok" ELSE "busy"
  /\ UNCHANGED <<op, calls, faults, history>>

Select ==
  /\ Due("select") /\ GoOn(<<>>)
  /\ select' = Arg
  /\ UNCHANGED <<reg0, reg1, mode, trigger, sampling, line, l1, tensix>>

ReadData == Due("data") /\ GoOn(<<select>>) /\ UNCHANGED <<bus, tensix>>

SetLines ==
  /\ \/ Due("reg0") /\ reg0' = Arg /\ UNCHANGED reg1
     \/ Due("reg1") /\ reg1' = Arg /\ UNCHANGED reg0
  /\ GoOn(<<>>)
  /\ UNCHANGED <<select, mode, trigger, sampling, line, l1, tensix>>

\* A rising trigger starts the sampler; the mode 0xF that prepares it ends a
\* sampling that is going on.
WriteReg2 ==
  /\ Due("reg2") /\ GoOn(<<>>)
  /\ mode' = Arg.mode /\ trigger' = Arg.trigger
  /\ IF Arg.trigger /\ ~trigger THEN sampling' = TRUE /\ line' = reg0
     ELSE sampling' = (sampling /\ Arg.mode # "prepare") /\ UNCHANGED line
  /\ UNCHANGED <<select, reg0, reg1, l1, tensix>>

WriteSentinel ==
  /\ Due("sentinel") /\ GoOn(<<>>)
  /\ l1' = [l1 EXCEPT ![Arg] = Line("sentinel", calls)]
  /\ UNCHANGED <<select, reg0, reg1, mode, trigger, sampling, line, tensix>>

\* The loop reads the line until it is not the sentinel.
Await ==
  /\ Due("await") /\ l1[Arg].group # "sentinel" /\ GoOn(<<>>)
  /\ UNCHANGED <<bus, tensix>>

ReadLine == Due("line") /\ GoOn(<<l1[Arg]>>) /\ UNCHANGED <<bus, tensix>>

\* The polls of DBG_INSTRN_BUF_STATUS.
Poll ==
  /\ \/ Due("ready") /\ Len(fifo[Arg]) < Depth
     \/ Due("drained") /\ fifo[Arg] = <<>>
  /\ GoOn(<<>>)
  /\ UNCHANGED <<bus, tensix>>

\* INSTRN_BUF_CTRL0 is written as a whole.
Claim ==
  /\ \/ Due("claim") /\ claim' = {Arg}
     \/ Due("release") /\ claim' = {}
  /\ GoOn(<<>>)
  /\ UNCHANGED <<bus, staged, fifo, dst0, saved, array_en, array_row>>

Stage ==
  /\ Due("stage") /\ GoOn(<<>>)
  /\ staged' = [do |-> Arg.do, row |-> Arg.arg, call |-> calls]
  /\ UNCHANGED <<bus, claim, fifo, dst0, saved, array_en, array_row>>

Append_(queue, insn) == IF Len(queue) < Depth THEN Append(queue, insn) ELSE queue

Push ==
  /\ Due("push") /\ GoOn(<<>>)
  /\ claim' = {Arg}
  /\ fifo' = [fifo EXCEPT ![Arg] = Append_(@, staged)]
  /\ UNCHANGED <<bus, staged, dst0, saved, array_en, array_row>>

SetArray ==
  /\ \/ Due("enable") /\ array_en' = Arg /\ UNCHANGED array_row
     \/ Due("row") /\ array_row' = Arg /\ UNCHANGED array_en
  /\ GoOn(<<>>)
  /\ UNCHANGED <<bus, claim, staged, fifo, dst0, saved>>

ReadArray ==
  /\ Due("array")
  /\ GoOn(<<CASE ~array_en -> Row("off", 0)
              [] array_en /\ array_row = 0 -> dst0
              [] OTHER -> Row("dst", array_row)>>)
  /\ UNCHANGED <<bus, tensix>>

\* An access raises without its effect, and no method undoes what it did.
AccessFails ==
  /\ outcome = "busy" /\ faults < MaxFaults
  /\ faults' = faults + 1
  /\ outcome' = "raised" /\ script' = <<>>
  /\ UNCHANGED <<bus, tensix, op, got, calls, history>>

\* The sampler writes its next line; "many" goes on to the end in reg1.
TakeSample ==
  /\ sampling /\ line \in 0..LastLine
  /\ l1' = [l1 EXCEPT ![line] = Line(select.group, calls)]
  /\ line' = line + 1
  /\ sampling' = (mode = "many" /\ line + 1 < reg1)
  /\ UNCHANGED <<select, reg0, reg1, mode, trigger, tensix, op, script, got, outcome,
                 calls, faults, history>>

ProgramPushes(t) ==
  /\ t \notin claim /\ Len(fifo[t]) < Depth
  /\ fifo' = [fifo EXCEPT ![t] = Append(@, OfProgram)]
  /\ UNCHANGED <<bus, claim, staged, dst0, saved, array_en, array_row, op, script, got,
                 outcome, calls, faults, history>>

ExecuteNext(t) ==
  /\ fifo[t] # <<>>
  /\ LET insn == Head(fifo[t]) IN
       /\ saved' = IF insn.do = "save" THEN dst0 ELSE saved
       /\ dst0' = CASE insn.do = "move" -> Row("srca", insn.row)
                    [] insn.do = "store" -> saved
                    [] OTHER -> dst0
       /\ executed' = IF insn.call = calls /\ insn # OfProgram
                      THEN Append(executed, insn.do) ELSE executed
  /\ fifo' = [fifo EXCEPT ![t] = Tail(@)]
  /\ UNCHANGED <<bus, claim, staged, array_en, array_row, op, script, got, outcome, calls,
                 faults, before>>

Next ==
  \/ \E o \in Ops : Call(o)
  \/ Select \/ ReadData \/ SetLines \/ WriteReg2 \/ WriteSentinel \/ Await \/ ReadLine
  \/ Poll \/ Claim \/ Stage \/ Push \/ SetArray \/ ReadArray \/ AccessFails \/ TakeSample
  \/ \E t \in Threads : ProgramPushes(t) \/ ExecuteNext(t)

Spec == Init /\ [][Next]_vars
---------------------------------------------------------------------------
(* Properties.                                                             *)

Ended(method) == outcome = "ok" /\ op.method = method

\* The samples that a call returns were taken during the call and are of its
\* group, whatever sampling an earlier call that raised has left going on and
\* whatever L1 held (debug_bus_signal_store.py 306-402).
SamplesExact ==
  Ended("sample_signal_group") =>
    got = [i \in 1..op.samples |-> Line(op.group, calls)]

\* An injected instruction has been executed once when the call returns, also
\* when the program fills the FIFO until it is claimed, and the program can
\* push again (debug_tensix.py 74-146).
InjectedOnce ==
  Ended("inject_instruction") => executed = <<"other">> /\ claim = {}

\* A register file is read row by row, each after the instruction that shows
\* it was executed, and SRCA leaves row 0 of DST as it was, unless an
\* instruction of an earlier call that raised was still to be executed
\* (debug_tensix.py 218-269).
FileExact ==
  Ended("read_regfile") /\ (before.clean \/ op.file = "srca") =>
    /\ got = [i \in 1..(LastRow + 1) |->
                IF op.file = "dst" /\ i = 1 THEN before.dst0 ELSE Row(op.file, i - 1)]
    /\ before.clean => dst0 = before.dst0 /\ ~array_en
=============================================================================
