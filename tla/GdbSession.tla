----------------------------- MODULE GdbSession -----------------------------
(***************************************************************************)
(* One GDB server of a ttexalens process and the sessions it serves:       *)
(* GdbServer (gdb/gdb_server.py), its thread, the cores it halts and       *)
(* resumes, one gdb client after the other, and the main thread that stops *)
(* and starts the server (uistate.py).                                     *)
(*                                                                         *)
(* Every core is a process with an id of its own.  gdb is synchronous: it  *)
(* sends a request when it has the reply to the one before, but it may     *)
(* send a break while vCont runs, and may close the connection at any      *)
(* time.  The cores run their programs and stop at their own ebreaks and   *)
(* breakpoints, and run-elf or another host program resets and starts      *)
(* them.  Requests that touch neither the session nor the state of a core  *)
(* (registers, memory, features, files) are left out.                      *)
(***************************************************************************)
EXTENDS Naturals, Sequences, FiniteSets

CONSTANTS
  NumCores,     \* cores that have an ELF loaded
  Elfs,         \* paths of ELF files
  MaxResets,    \* bound on resets and starts of cores by others
  MaxFaults,    \* bound on accesses to the chip that fail
  Stoppable     \* the main thread may stop and start the server

ASSUME SessionAssumption ==
  /\ NumCores \in Nat \ {0}
  /\ MaxResets \in Nat
  /\ MaxFaults \in Nat
  /\ Elfs # {}
  /\ Stoppable \in BOOLEAN

Cores  == 1..NumCores
MaxPid == NumCores + MaxResets          \* one id per core, and one per start
Pids   == 1..MaxPid

VARIABLES
  \* the chip
  state,        \* "running", "reset", or who halted the core: "host" or it"self"
  armed,        \* the core has a watchpoint enabled
  elf,          \* ELF loaded on the core
  \* the server
  process,      \* core and ELF of each process id
  last,         \* ids of _last_available_processes
  next_pid,
  debugging_threads, current_process, vCont_pending_statuses,
  stop_event,
  \* its thread
  pc, op,
  thread_actions, processes_to_watch,
  todo,         \* processes left in the loop that runs
  focus,        \* process at hand in it
  stop_watching,
  leftover,     \* the writer holds a reply that was not sent
  \* its clients and its owner
  client,       \* state of the connection
  break_sent,   \* \x03 in the socket
  reply,        \* last reply
  stopper,      \* the main thread in gdb stop
  resets, faults,
  \* history, read by the properties only
  exited,       \* processes whose core was reset after the attach
  loose,        \* processes of a request that failed halfway
  freed         \* processes that the request at hand detaches from

chip    == <<state, armed, elf>>
ids     == <<process, last, next_pid>>
session == <<debugging_threads, current_process, vCont_pending_statuses>>
local   == <<thread_actions, processes_to_watch, todo, focus, stop_watching>>
others  == <<stop_event, client, break_sent, stopper, resets>>
history == <<exited, loose, freed>>
vars    == <<chip, ids, session, pc, op, local, leftover, reply, others, faults, history>>

States   == {"running", "host", "self", "reset"}
Statuses == [kind: {"W00", "T05", "S02"}, pid: Pids \cup {0}]
Replies  == {"none", "OK", "E01", "T00", "W00", "T05", "S02", "nak", "garbled"}
Steps    == {"accept", "loop", "read", "attach", "detach_check", "detach_disarm",
             "detach_release", "apply", "watch", "look", "halt_rest", "ended", "dead"}
Requests == {"none", "attach", "detach", "detach_all", "vCont", "status", "other"}
Actions  == {"c", "s", "unchanged"}

Core(p)   == process[p].core
halted(c) == state[c] \in {"host", "self"}
alive     == {c \in Cores : state[c] # "reset"}
Status(k, p) == [kind |-> k, pid |-> p]
---------------------------------------------------------------------------
(* Process ids.                                                            *)

\* The process that the core had at the last evaluation, if it still has the
\* same ELF.
Reused(c) == {p \in last : process[p] = [core |-> c, elf |-> elf[c]]}
fresh     == {c \in alive : Reused(c) = {}}
FreshPid(c) == next_pid + Cardinality({b \in fresh : b < c})

\* Mutant of available_processes: no process is reused.
RenumberedProcesses ==
  LET NewPid(c) == next_pid + Cardinality({b \in alive : b < c}) IN
  /\ next_pid + Cardinality(alive) <= MaxPid + 1
  /\ process' = [p \in Pids |->
       IF \E c \in alive : p = NewPid(c)
       THEN LET c == CHOOSE b \in alive : p = NewPid(b)
            IN  [core |-> c, elf |-> elf[c]]
       ELSE process[p]]
  /\ last' = {NewPid(c) : c \in alive}
  /\ next_pid' = next_pid + Cardinality(alive)

\* Mutant of available_processes: the new processes all get the next id.
SharedPid ==
  /\ process' = [p \in Pids |->
       IF p = next_pid /\ fresh # {}
       THEN LET c == CHOOSE b \in fresh : TRUE IN [core |-> c, elf |-> elf[c]]
       ELSE process[p]]
  /\ last' = UNION {Reused(c) : c \in alive} \cup {next_pid : c \in fresh}
  /\ next_pid' = next_pid

\* Evaluation of the property available_processes: afterwards last' holds the
\* processes it returned.  MaxPid is never exceeded.
available_processes ==
  /\ next_pid + Cardinality(fresh) <= MaxPid + 1
  /\ process' = [p \in Pids |->
       IF \E c \in fresh : p = FreshPid(c)
       THEN LET c == CHOOSE b \in fresh : p = FreshPid(b)
            IN  [core |-> c, elf |-> elf[c]]
       ELSE process[p]]
  /\ last' = {p \in Pids : \/ \E c \in alive : p \in Reused(c)
                          \/ \E c \in fresh : p = FreshPid(c)}
  /\ next_pid' = next_pid + Cardinality(fresh)
---------------------------------------------------------------------------
(* Replies.                                                                *)

\* The writer is sent and cleared.
Answer(r) ==
  /\ reply' = IF leftover THEN Status("garbled", 0) ELSE r
  /\ leftover' = FALSE

\* process_message returns, and process_client goes on to the next message.
Return(r) == Answer(r) /\ pc' = "loop"

\* process_message raises: the writer keeps what it holds.
Raise(written) ==
  /\ reply' = Status("nak", 0)
  /\ leftover' = (leftover \/ written)
  /\ pc' = "loop"

\* A HardwareError passes every `except Exception` up to the thread itself.
Die ==
  /\ pc' = "dead"
  /\ client' = "none"
  /\ break_sent' = FALSE

\* The processes that a request which fails may leave half handled.
LeaveLoose == loose' = loose \cup (IF op = "vCont" THEN debugging_threads ELSE freed)
---------------------------------------------------------------------------
(* The thread between clients and between messages.                        *)

NoLocals ==
  /\ thread_actions' = [p \in Pids |-> "unchanged"]
  /\ processes_to_watch' = {} /\ todo' = {} /\ focus' = 0 /\ stop_watching' = FALSE

NewSession ==
  /\ current_process' = 0
  /\ debugging_threads' = {}

Init ==
  /\ state \in [Cores -> {"running", "reset"}]
  /\ armed = [c \in Cores |-> FALSE]
  /\ elf \in [Cores -> Elfs]
  /\ process = [p \in Pids |-> [core |-> 1, elf |-> elf[1]]]
  /\ last = {} /\ next_pid = 1
  /\ debugging_threads = {} /\ current_process = 0 /\ vCont_pending_statuses = <<>>
  /\ stop_event = FALSE
  /\ pc = "accept" /\ op = "none"
  /\ thread_actions = [p \in Pids |-> "unchanged"]
  /\ processes_to_watch = {} /\ todo = {} /\ focus = 0 /\ stop_watching = FALSE
  /\ leftover = FALSE
  /\ client = "none" /\ break_sent = FALSE /\ reply = Status("none", 0)
  /\ stopper = "idle" /\ resets = 0 /\ faults = 0
  /\ exited = {} /\ loose = {} /\ freed = {}

\* run() accepts the next client, or ends when it is asked to stop.
Accept ==
  /\ pc = "accept" /\ ~stop_event /\ client = "waiting"
  /\ client' = "connected"
  /\ pc' = "loop"
  /\ NewSession
  /\ leftover' = FALSE /\ loose' = {}
  /\ UNCHANGED <<chip, ids, vCont_pending_statuses, op, local, reply, stop_event, break_sent,
                 stopper, resets, faults, exited, freed>>

StopAccepting ==
  /\ pc = "accept" /\ stop_event
  /\ pc' = "ended"
  /\ UNCHANGED <<chip, ids, session, op, local, leftover, reply, others, faults, history>>

CloseClient ==
  /\ pc' = "accept"
  /\ client' = "none"
  /\ break_sent' = FALSE

\* while not self.stop_event.is_set(): the locals of the request are gone and
\* the thread blocks in recv.
CheckStop ==
  /\ pc = "loop"
  /\ op' = "none" /\ NoLocals /\ freed' = {} /\ reply' = Status("none", 0)
  /\ \/ stop_event /\ CloseClient
     \/ ~stop_event /\ pc' = "read" /\ UNCHANGED <<client, break_sent>>
  /\ UNCHANGED <<chip, ids, session, leftover, stop_event, stopper, resets, faults, exited, loose>>

\* recv returns nothing: the client has gone.
ReadEnd ==
  /\ pc = "read" /\ client = "gone" /\ CloseClient
  /\ UNCHANGED <<chip, ids, session, op, local, leftover, reply, stop_event, stopper,
                 resets, faults, history>>

\* A break that crossed with a reply is answered with an error and dropped.
StrayBreak ==
  /\ pc = "read" /\ break_sent
  /\ break_sent' = FALSE
  /\ UNCHANGED <<chip, ids, session, pc, op, local, leftover, reply, stop_event, client,
                 stopper, resets, faults, history>>
---------------------------------------------------------------------------
(* Requests.                                                               *)

\* The client sends a request and the thread reads it.
Request(o) ==
  /\ pc = "read" /\ client = "connected" /\ ~break_sent
  /\ op' = o
  /\ UNCHANGED <<chip, others>>

\* info os processes, qfThreadInfo, vFile:setfs: the ids are brought up to date.
ListProcesses ==
  /\ Request("other")
  /\ available_processes
  /\ Return(Status("OK", 0))
  /\ UNCHANGED <<session, local, faults, history>>

\* Hg: another of the debugged processes becomes current.
SetThread(p) ==
  /\ Request("other")
  /\ current_process # 0 /\ p \in debugging_threads
  /\ available_processes
  /\ IF p \in last'
     THEN Return(Status("OK", 0)) /\ current_process' = p
     ELSE Return(Status("E01", 0)) /\ UNCHANGED current_process
  /\ UNCHANGED <<debugging_threads, vCont_pending_statuses, local, faults, history>>

\* Z0 to Z4: a watchpoint on the core of the current process.
InsertWatchpoint ==
  LET c == Core(current_process) IN
  /\ pc = "read" /\ client = "connected" /\ ~break_sent
  /\ op' = "other"
  /\ current_process \in debugging_threads
  /\ \/ /\ state[c] # "reset"
        /\ armed' = [armed EXCEPT ![c] = TRUE]
        /\ Return(Status("OK", 0))
     \/ /\ state[c] = "reset"
        /\ Raise(FALSE)
        /\ UNCHANGED armed
  /\ UNCHANGED <<state, elf, ids, session, local, others, faults, history>>

\* A request fails before it has changed anything.
RequestFails ==
  /\ Request("other")
  /\ faults < MaxFaults /\ faults' = faults + 1
  /\ Raise(FALSE)
  /\ UNCHANGED <<ids, session, local, history>>

\* vAttach: the process must be available and not yet debugged.
VAttach(p) ==
  /\ Request("attach")
  /\ available_processes
  /\ IF p \in last' \ debugging_threads
     THEN /\ pc' = "attach" /\ focus' = p /\ exited' = exited \ {p}
          /\ UNCHANGED <<leftover, reply>>
     ELSE Return(Status("E01", 0)) /\ UNCHANGED <<focus, exited>>
  /\ UNCHANGED <<session, thread_actions, processes_to_watch, todo, stop_watching,
                 faults, loose, freed>>

\* is_halted() raises for a core in reset; the except clause answers E01.
AttachHalt ==
  LET c == Core(focus) IN
  /\ pc = "attach"
  /\ \/ /\ state[c] = "reset"
        /\ Return(Status("E01", 0))
        /\ UNCHANGED <<state, debugging_threads, current_process>>
     \/ /\ state[c] # "reset"
        /\ state' = IF halted(c) THEN state ELSE [state EXCEPT ![c] = "host"]
        /\ debugging_threads' = debugging_threads \cup {focus}
        /\ current_process' = focus
        /\ Return(Status("T00", focus))
  /\ UNCHANGED <<armed, elf, ids, vCont_pending_statuses, op, local, others, faults, history>>

\* D;pid: the process is forgotten first and released afterwards.
Detach(p) ==
  /\ Request("detach")
  /\ IF p \in debugging_threads
     THEN /\ debugging_threads' = debugging_threads \ {p}
          /\ todo' = {p} /\ freed' = {p}
          /\ pc' = "detach_check"
          /\ UNCHANGED <<leftover, reply>>
     ELSE Return(Status("E01", 0)) /\ UNCHANGED <<debugging_threads, todo, freed>>
  /\ UNCHANGED <<ids, current_process, vCont_pending_statuses, thread_actions,
                 processes_to_watch, focus, stop_watching, faults, exited, loose>>

\* D: all the processes are released first and forgotten afterwards.
DetachAll ==
  /\ Request("detach_all")
  /\ todo' = debugging_threads /\ freed' = debugging_threads
  /\ pc' = "detach_check"
  /\ UNCHANGED <<ids, session, thread_actions, processes_to_watch, focus, stop_watching,
                 leftover, reply, faults, exited, loose>>

\* A process that is not available is skipped.
DetachCheck(p) ==
  /\ pc = "detach_check" /\ p \in todo
  /\ available_processes
  /\ todo' = todo \ {p}
  /\ IF p \in last'
     THEN focus' = p /\ pc' = "detach_disarm"
     ELSE UNCHANGED <<focus, pc>>
  /\ UNCHANGED <<chip, session, op, thread_actions, processes_to_watch, stop_watching,
                 leftover, reply, others, faults, history>>

\* disable_watchpoint halts the core for the write, which a core in reset
\* does not do.
DetachDisarm ==
  LET c == Core(focus) IN
  /\ pc = "detach_disarm"
  /\ \/ /\ state[c] = "reset"
        /\ Raise(FALSE) /\ LeaveLoose
        /\ UNCHANGED armed
     \/ /\ state[c] # "reset"
        /\ armed' = [armed EXCEPT ![c] = FALSE]
        /\ pc' = "detach_release"
        /\ UNCHANGED <<leftover, reply, loose>>
  /\ UNCHANGED <<state, elf, ids, session, op, local, others, faults, exited, freed>>

\* Mutant of DetachRelease: only a core that stopped by itself is resumed.
DetachStopped ==
  LET c == Core(focus) IN
  /\ pc = "detach_release"
  /\ state' = IF state[c] = "self" THEN [state EXCEPT ![c] = "running"] ELSE state
  /\ pc' = "detach_check"
  /\ UNCHANGED <<armed, elf, ids, session, op, local, leftover, reply, others, faults, history>>

DetachRelease ==
  LET c == Core(focus) IN
  /\ pc = "detach_release"
  /\ \/ /\ state[c] = "reset"
        /\ Raise(FALSE) /\ LeaveLoose
        /\ UNCHANGED state
     \/ /\ state[c] # "reset"
        /\ state' = [state EXCEPT ![c] = "running"]
        /\ pc' = "detach_check"
        /\ UNCHANGED <<leftover, reply, loose>>
  /\ UNCHANGED <<armed, elf, ids, session, op, local, others, faults, exited, freed>>

DetachDone ==
  /\ pc = "detach_check" /\ todo = {}
  /\ debugging_threads' = IF op = "detach_all" THEN {} ELSE debugging_threads
  /\ Return(Status("OK", 0))
  /\ UNCHANGED <<chip, ids, current_process, vCont_pending_statuses, op, local, others,
                 faults, history>>
---------------------------------------------------------------------------
(* vCont.                                                                  *)

\* A status left from the last run answers the request.
VContPending ==
  LET n == Len(vCont_pending_statuses) IN
  /\ Request("status") /\ n > 0
  /\ Return(vCont_pending_statuses[n])
  /\ vCont_pending_statuses' = SubSeq(vCont_pending_statuses, 1, n - 1)
  /\ UNCHANGED <<ids, debugging_threads, current_process, local, faults, history>>

\* Every debugged process must be available; else the client hears of one
\* that is not and nothing else happens.
VCont(actions) ==
  /\ Request("vCont") /\ vCont_pending_statuses = <<>>
  /\ available_processes
  /\ \/ \E p \in debugging_threads \ last' :
          /\ Return(Status("W00", p))
          /\ UNCHANGED local
     \/ /\ debugging_threads \subseteq last'
        /\ thread_actions' = actions
        /\ todo' = debugging_threads
        /\ pc' = "apply"
        /\ UNCHANGED <<processes_to_watch, focus, stop_watching, leftover, reply>>
  /\ UNCHANGED <<session, faults, history>>

\* Continue and step are for halted cores only.  A running core is watched
\* only if the client left it unchanged.  A step ends halted.
ApplyAction(p) ==
  LET c == Core(p) IN
  /\ pc = "apply" /\ p \in todo
  /\ \/ /\ state[c] = "reset"
        /\ Raise(FALSE) /\ LeaveLoose
        /\ UNCHANGED <<state, todo, processes_to_watch>>
     \/ /\ state[c] # "reset"
        /\ todo' = todo \ {p}
        /\ state' = CASE thread_actions[p] = "c" /\ halted(c) -> [state EXCEPT ![c] = "running"]
                      [] thread_actions[p] = "s" /\ halted(c) -> [state EXCEPT ![c] = "self"]
                      [] OTHER -> state
        /\ processes_to_watch' =
             IF halted(c) <=> thread_actions[p] # "unchanged"
             THEN processes_to_watch \cup {p} ELSE processes_to_watch
        /\ UNCHANGED <<pc, leftover, reply, loose>>
  /\ UNCHANGED <<armed, elf, ids, session, op, thread_actions, focus, stop_watching, others,
                 faults, exited, freed>>

ApplyDone ==
  /\ pc = "apply" /\ todo = {}
  /\ pc' = "watch"
  /\ UNCHANGED <<chip, ids, session, op, local, leftover, reply, others, faults, history>>

\* Mutant of WatchAgain: the break stays in the socket unread.
WatchCoresOnly ==
  /\ pc = "watch"
  /\ stop_watching' = stop_event
  /\ todo' = processes_to_watch
  /\ pc' = "look"
  /\ UNCHANGED <<chip, ids, session, op, thread_actions, processes_to_watch, focus, leftover,
                 reply, others, faults, history>>

\* A round of the watch loop starts with the stop event and the socket, where
\* it looks for a break only.
WatchAgain ==
  /\ pc = "watch"
  /\ stop_watching' = (stop_event \/ break_sent)
  /\ break_sent' = FALSE
  /\ todo' = processes_to_watch
  /\ pc' = "look"
  /\ UNCHANGED <<chip, ids, session, op, thread_actions, processes_to_watch, focus, leftover,
                 reply, stop_event, client, stopper, resets, faults, history>>

\* Mutant of Seen: only exits are reported.
SeenExits(p) ==
  IF state[Core(p)] = "reset" THEN {<<Status("W00", p)>>} ELSE {<<>>}

\* What the status of the core of a process tells.  A core in reset has
\* exited; its status register, which is read all the same, may hold anything.
Seen(p) ==
  LET c == Core(p) IN
  CASE state[c] = "reset" -> {<<Status("W00", p)>>, <<Status("W00", p), Status("T05", p)>>}
    [] halted(c)          -> {<<Status("T05", p)>>}
    [] OTHER              -> {<<>>}

LookAt(p) ==
  /\ pc = "look" /\ p \in todo
  /\ todo' = todo \ {p}
  /\ \E seen \in Seen(p) :
       /\ vCont_pending_statuses' = vCont_pending_statuses \o seen
       /\ stop_watching' = (stop_watching \/ seen # <<>>)
  /\ UNCHANGED <<chip, ids, debugging_threads, current_process, pc, op, thread_actions,
                 processes_to_watch, focus, leftover, reply, others, faults, history>>

Reversed(s) == [i \in 1..Len(s) |-> s[Len(s) + 1 - i]]

\* The end of a round.  The statuses are kept in reverse with a T05 of no
\* process as the last to report; the first of them is written to the reply.
RoundDone ==
  LET n == Len(vCont_pending_statuses) IN
  /\ pc = "look" /\ todo = {}
  /\ \/ /\ ~stop_watching
        /\ pc' = "watch"
        /\ UNCHANGED <<vCont_pending_statuses, todo, reply>>
     \/ /\ stop_watching
        /\ pc' = "halt_rest"
        /\ todo' = processes_to_watch
        /\ reply' = IF n = 0 THEN Status("S02", 0) ELSE Head(vCont_pending_statuses)
        /\ vCont_pending_statuses' =
             IF n = 0 THEN <<>>
             ELSE <<Status("T05", 0)>> \o Reversed(Tail(vCont_pending_statuses))
  /\ UNCHANGED <<chip, ids, debugging_threads, current_process, op, thread_actions,
                 processes_to_watch, focus, stop_watching, leftover, others, faults, history>>

\* Mutant of HaltRest: the other cores run on.
LeaveRest(p) ==
  /\ pc = "halt_rest" /\ p \in todo
  /\ todo' = todo \ {p}
  /\ UNCHANGED <<chip, ids, session, pc, op, thread_actions, processes_to_watch, focus,
                 stop_watching, leftover, reply, others, faults, history>>

\* "Once we are done with watching, we should stop all processes"
HaltRest(p) ==
  LET c == Core(p) IN
  /\ pc = "halt_rest" /\ p \in todo
  /\ todo' = todo \ {p}
  /\ state' = IF state[c] = "running" THEN [state EXCEPT ![c] = "host"] ELSE state
  /\ UNCHANGED <<armed, elf, ids, session, pc, op, thread_actions, processes_to_watch, focus,
                 stop_watching, leftover, reply, others, faults, history>>

VContDone ==
  /\ pc = "halt_rest" /\ todo = {}
  /\ Return(reply)
  /\ loose' = loose \ processes_to_watch
  /\ UNCHANGED <<chip, ids, session, op, local, others, faults, exited, freed>>

\* An access to the chip fails.  The failure of an access that took effect
\* shows as one of the step that follows.  An ordinary exception is answered
\* as the handler does, a HardwareError ends the thread.
AccessFails ==
  /\ pc \in {"attach", "detach_check", "detach_disarm", "detach_release", "apply", "look",
             "halt_rest"}
  /\ faults < MaxFaults /\ faults' = faults + 1
  /\ \/ /\ pc = "attach"
        /\ Return(Status("E01", 0))
        /\ UNCHANGED <<loose, client, break_sent>>
     \/ /\ pc # "attach"
        /\ Raise(pc = "halt_rest") /\ LeaveLoose
        /\ UNCHANGED <<client, break_sent>>
     \/ Die /\ LeaveLoose /\ UNCHANGED <<reply, leftover>>
  /\ UNCHANGED <<chip, ids, session, op, local, stop_event, stopper, resets, exited, freed>>
---------------------------------------------------------------------------
(* The client, the main thread, and the chip.                              *)

Connect ==
  /\ client = "none" /\ stopper # "stopped"
  /\ client' = "waiting"
  /\ UNCHANGED <<chip, ids, session, pc, op, local, leftover, reply, stop_event, break_sent,
                 stopper, resets, faults, history>>

\* gdb is closed, killed or loses the connection, with or without a detach.
Disconnect ==
  /\ client = "connected"
  /\ client' = "gone"
  /\ UNCHANGED <<chip, ids, session, pc, op, local, leftover, reply, stop_event, break_sent,
                 stopper, resets, faults, history>>

\* Ctrl+C in gdb while it waits for the reply to vCont.
SendBreak ==
  /\ client = "connected" /\ ~break_sent
  /\ op = "vCont" /\ pc \in {"apply", "watch", "look", "halt_rest", "loop"}
  /\ break_sent' = TRUE
  /\ UNCHANGED <<chip, ids, session, pc, op, local, leftover, reply, stop_event, client,
                 stopper, resets, faults, history>>

\* gdb stop sets the event and joins the thread, and closes the socket then.
GdbStop ==
  /\ Stoppable /\ stopper = "idle"
  /\ stopper' = "join" /\ stop_event' = TRUE
  /\ UNCHANGED <<chip, ids, session, pc, op, local, leftover, reply, client, break_sent,
                 resets, faults, history>>

Joined ==
  /\ stopper = "join" /\ pc \in {"ended", "dead"}
  /\ stopper' = "stopped" /\ client' = "none"
  /\ UNCHANGED <<chip, ids, session, pc, op, local, leftover, reply, stop_event, break_sent,
                 resets, faults, history>>

\* gdb start: a new GdbServer.
GdbStart ==
  /\ stopper = "stopped"
  /\ stopper' = "idle" /\ stop_event' = FALSE
  /\ pc' = "accept" /\ op' = "none" /\ NoLocals
  /\ last' = {} /\ next_pid' = 1
  /\ NewSession /\ vCont_pending_statuses' = <<>>
  /\ leftover' = FALSE /\ reply' = Status("none", 0)
  /\ exited' = {} /\ loose' = {} /\ freed' = {}
  /\ UNCHANGED <<chip, process, client, break_sent, resets, faults>>

\* The program of a core runs into an ebreak or a watchpoint.
CoreStops(c) ==
  /\ state[c] = "running"
  /\ state' = [state EXCEPT ![c] = "self"]
  /\ UNCHANGED <<armed, elf, ids, session, pc, op, local, leftover, reply, others, faults, history>>

OthersReset(c) ==
  /\ state[c] # "reset" /\ resets < MaxResets
  /\ resets' = resets + 1
  /\ state' = [state EXCEPT ![c] = "reset"]
  /\ \E keeps \in BOOLEAN : armed' = [armed EXCEPT ![c] = @ /\ keeps]
  /\ exited' = exited \cup {p \in Pids : p < next_pid /\ Core(p) = c}
  /\ UNCHANGED <<elf, ids, session, pc, op, local, leftover, reply, stop_event, client,
                 break_sent, stopper, faults, loose, freed>>

\* run-elf and the library load an ELF and take the core out of reset.
OthersStart(c, e) ==
  /\ state[c] = "reset" /\ resets < MaxResets
  /\ resets' = resets + 1
  /\ state' = [state EXCEPT ![c] = "running"]
  /\ elf' = [elf EXCEPT ![c] = e]
  /\ UNCHANGED <<armed, ids, session, pc, op, local, leftover, reply, stop_event, client,
                 break_sent, stopper, faults, history>>
---------------------------------------------------------------------------
ClientRequest ==
  \/ ListProcesses \/ InsertWatchpoint \/ RequestFails \/ VContPending \/ DetachAll
  \/ \E p \in Pids : SetThread(p) \/ VAttach(p) \/ Detach(p)
  \/ \E actions \in [debugging_threads -> Actions] :
       VCont([p \in Pids |-> IF p \in debugging_threads THEN actions[p] ELSE "unchanged"])

\* What the thread does without waiting for a client.
ThreadStep ==
  \/ Accept \/ StopAccepting \/ CheckStop \/ ReadEnd \/ StrayBreak
  \/ AttachHalt
  \/ DetachDisarm \/ DetachRelease \/ DetachDone
  \/ ApplyDone \/ WatchAgain \/ RoundDone \/ VContDone
  \/ \E p \in todo : DetachCheck(p) \/ ApplyAction(p) \/ LookAt(p) \/ HaltRest(p)

Environment ==
  \/ AccessFails
  \/ Connect \/ Disconnect \/ SendBreak
  \/ GdbStop \/ Joined \/ GdbStart
  \/ \E c \in Cores : CoreStops(c) \/ OthersReset(c) \/ \E e \in Elfs : OthersStart(c, e)

Next == ClientRequest \/ ThreadStep \/ Environment

Spec == Init /\ [][Next]_vars

\* The thread runs, and join returns; clients and cores may do nothing.
FairSpec == Spec /\ WF_vars(ThreadStep) /\ WF_vars(Joined)
---------------------------------------------------------------------------
(* Properties.                                                             *)

TypeIds ==
  /\ state \in [Cores -> States]
  /\ armed \in [Cores -> BOOLEAN]
  /\ elf \in [Cores -> Elfs]
  /\ process \in [Pids -> [core: Cores, elf: Elfs]]
  /\ next_pid \in 1..(MaxPid + 1)
  /\ last \subseteq 1..(next_pid - 1)
  /\ debugging_threads \subseteq 1..(next_pid - 1)

TypeData ==
  /\ current_process \in Pids \cup {0}
  /\ vCont_pending_statuses \in Seq(Statuses)
  /\ thread_actions \in [Pids -> Actions]
  /\ processes_to_watch \subseteq Pids /\ todo \subseteq Pids /\ focus \in Pids \cup {0}
  /\ reply \in [kind: Replies, pid: Pids \cup {0}]
  /\ exited \subseteq Pids /\ loose \subseteq Pids /\ freed \subseteq Pids

TypeControl ==
  /\ pc \in Steps /\ op \in Requests
  /\ stop_event \in BOOLEAN /\ stop_watching \in BOOLEAN /\ leftover \in BOOLEAN
  /\ client \in {"none", "waiting", "connected", "gone"}
  /\ break_sent \in BOOLEAN
  /\ stopper \in {"idle", "join", "stopped"}
  /\ resets \in Nat /\ faults \in Nat

\* Type invariant.
TypeOK == TypeIds /\ TypeData /\ TypeControl

\* The server still knows the process, and its core runs the same ELF.
Intact(p) ==
  /\ p \in last
  /\ state[Core(p)] # "reset"
  /\ elf[Core(p)] = process[p].elf

\* The id of a process that a client debugs stays the id of its core, however
\* often the ids are recomputed, until the core is reset.
DebuggedKeepsPid == \A p \in debugging_threads \ exited : Intact(p)

\* vCont tells of an exit only if the core was reset.
ExitIsReal == op = "vCont" /\ reply.kind = "W00" => reply.pid \in exited

\* All-stop: whenever the thread waits for a request, the cores that the
\* client debugs are halted, except after a reset and after a request that
\* failed halfway.
HeldBetweenRequests ==
  pc \in {"loop", "read"} =>
    \A p \in debugging_threads \ (exited \cup loose) : halted(Core(p))

\* A detach answered with OK has left no core halted by the server and none
\* with a watchpoint, unless it was reset.
DetachReleases ==
  pc = "loop" /\ op \in {"detach", "detach_all"} /\ reply.kind \in {"OK", "garbled"} =>
    \A p \in freed \ exited : state[Core(p)] # "host" /\ ~armed[Core(p)]

Watching == pc \in {"watch", "look"}

\* A break, or gdb stop, ends the run that vCont watches.
BreakEndsRun ==
  Watching /\ (break_sent \/ stop_event) ~> ~Watching

\* So does the stop of a core that vCont resumed.
StopEndsRun ==
  \A p \in Pids :
    Watching /\ p \in processes_to_watch /\ state[Core(p)] = "self"
      ~> ~Watching \/ p \in exited

============================================================================
