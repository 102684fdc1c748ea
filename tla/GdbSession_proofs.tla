------------------------- MODULE GdbSession_proofs -------------------------
(***************************************************************************)
(* Theorems about GdbSession for any number of cores, ELF files, resets    *)
(* and failing accesses.                                                   *)
(***************************************************************************)
EXTENDS GdbSession, FiniteSetTheorems, TLAPS

---------------------------------------------------------------------------
(* The inductive invariant.                                                *)

\* The server knows one process per core.
OneProcessPerCore == \A p, q \in last : Core(p) = Core(q) => p = q

\* A process that passed the checks of vAttach is intact until its core is
\* reset.
AttachIntact == pc = "attach" => focus \in 1..(next_pid - 1) /\ (focus \in exited \/ Intact(focus))

\* The processes that HeldBetweenRequests is about.
Kept == debugging_threads \ (exited \cup loose)

\* Between two requests they are halted.
HeldWaiting == pc \in {"loop", "read", "attach"} => \A p \in Kept : halted(Core(p))

\* A detach runs only cores of processes that it detaches from.
HeldDetaching ==
  /\ pc \in {"detach_check", "detach_disarm", "detach_release"} =>
       /\ op \in {"detach", "detach_all"}
       /\ op = "detach" => freed \cap debugging_threads = {}
       /\ todo \subseteq freed
       /\ \A p \in Kept \ freed : halted(Core(p))
  /\ pc \in {"detach_disarm", "detach_release"} => focus \in freed \cap last

\* vCont runs only cores that it watches, and has halted each of them when it
\* is done.
HeldRunning ==
  /\ pc = "read" => processes_to_watch = {}
  /\ pc \in {"apply", "watch", "look", "halt_rest"} =>
       /\ op = "vCont"
       /\ processes_to_watch \subseteq debugging_threads
       /\ \A p \in Kept : halted(Core(p)) \/ p \in processes_to_watch
  /\ pc = "apply" =>
       /\ todo \subseteq debugging_threads
       /\ debugging_threads \subseteq last
       /\ \A p \in Kept \cap todo : halted(Core(p))
  /\ pc = "halt_rest" => \A p \in processes_to_watch \ exited : p \in todo \/ halted(Core(p))

PidsInv == OneProcessPerCore /\ DebuggedKeepsPid /\ AttachIntact
HeldInv == HeldWaiting /\ HeldDetaching /\ HeldRunning
IInv    == TypeOK /\ PidsInv /\ HeldInv
---------------------------------------------------------------------------
(* Process ids.                                                            *)

LEMMA IntervalGrows ==
  ASSUME NEW m \in Nat, NEW n \in Nat, m <= n
  PROVE  1..(m - 1) \subseteq 1..(n - 1)
OBVIOUS

LEMMA FreshFinite ==
  /\ IsFiniteSet(fresh)
  /\ Cardinality(fresh) \in Nat
<1>1. IsFiniteSet(Cores)
  BY FS_Interval, SessionAssumption DEF Cores
<1>. QED  BY <1>1, FS_Subset, FS_CardinalityType DEF fresh, alive

\* The new ids follow the ones that were given out.
LEMMA FreshRange ==
  ASSUME next_pid \in Nat, NEW c \in fresh
  PROVE  FreshPid(c) \in next_pid..(next_pid + Cardinality(fresh) - 1)
<1>. DEFINE before == {b \in fresh : b < c}
<1>1. c \in Nat
  BY SessionAssumption DEF fresh, alive, Cores
<1>2. before \subseteq fresh /\ c \notin before
  BY <1>1
<1>3. Cardinality(before) \in Nat /\ Cardinality(before) <= Cardinality(fresh)
      /\ (Cardinality(before) = Cardinality(fresh) => before = fresh)
  BY <1>2, FreshFinite, FS_Subset, FS_CardinalityType
<1>. QED  BY <1>2, <1>3, FreshFinite DEF FreshPid

\* Reading available_processes keeps the processes that have not changed and
\* returns only processes that are intact.
LEMMA AvailableProcesses ==
  ASSUME TypeOK, OneProcessPerCore, available_processes, UNCHANGED <<state, elf>>
  PROVE  /\ next_pid' \in 1..(MaxPid + 1) /\ next_pid <= next_pid'
         /\ last' \subseteq 1..(next_pid' - 1)
         /\ process' \in [Pids -> [core: Cores, elf: Elfs]]
         /\ \A p \in 1..(next_pid - 1) : process'[p] = process[p]
         /\ \A p \in last : Intact(p) => p \in last'
         /\ \A p \in last' : state[process'[p].core] # "reset"
                             /\ elf[process'[p].core] = process'[p].elf
         /\ OneProcessPerCore'
<1>1. MaxPid \in Nat /\ next_pid \in Nat /\ 1 <= next_pid /\ next_pid <= MaxPid + 1
  BY SessionAssumption DEF TypeOK, TypeIds, MaxPid
<1>2. Cardinality(fresh) \in Nat /\ next_pid + Cardinality(fresh) <= MaxPid + 1
      /\ next_pid' = next_pid + Cardinality(fresh)
  BY FreshFinite DEF available_processes
<1>3. next_pid' \in Nat /\ next_pid' \in 1..(MaxPid + 1) /\ next_pid <= next_pid'
  BY <1>1, <1>2
<1>4. \A c \in fresh : FreshPid(c) \in next_pid..(next_pid' - 1) /\ FreshPid(c) \in Pids
  BY <1>1, <1>2, FreshRange DEF Pids
<1>5. last' = {p \in Pids : (\E c \in alive : p \in Reused(c)) \/ (\E c \in fresh : p = FreshPid(c))}
  BY DEF available_processes
<1>6. \A c \in Cores : Reused(c) \subseteq last
  BY DEF Reused
<1>7. last' \subseteq 1..(next_pid' - 1)
  <2>1. last \subseteq 1..(next_pid - 1)
    BY DEF TypeOK, TypeIds
  <2>2. 1..(next_pid - 1) \subseteq 1..(next_pid' - 1)
    BY <1>1, <1>3, IntervalGrows
  <2>3. \A c \in fresh : FreshPid(c) \in 1..(next_pid' - 1)
    BY <1>1, <1>3, <1>4
  <2>4. alive \subseteq Cores
    BY DEF alive
  <2>5. \A c \in alive : Reused(c) \subseteq 1..(next_pid' - 1)
    BY <1>6, <2>1, <2>2, <2>4, Zenon
  <2>. QED  BY <1>5, <2>3, <2>5
<1>8. \A p \in Pids : process'[p] =
        IF \E c \in fresh : p = FreshPid(c)
        THEN [core |-> CHOOSE b \in fresh : p = FreshPid(b),
              elf |-> elf[CHOOSE b \in fresh : p = FreshPid(b)]]
        ELSE process[p]
  BY DEF available_processes
<1>9. \A p \in Pids : (\E c \in fresh : p = FreshPid(c)) =>
        \E c \in fresh : p = FreshPid(c) /\ process'[p] = [core |-> c, elf |-> elf[c]]
  BY <1>8
<1>10. \A p \in 1..(next_pid - 1) : p \in Pids /\ process'[p] = process[p]
  <2>1. SUFFICES ASSUME NEW p \in 1..(next_pid - 1)
                 PROVE  p \in Pids /\ process'[p] = process[p]
    OBVIOUS
  <2>2. p \in Pids
    BY <1>1 DEF Pids
  <2>3. \A c \in fresh : p # FreshPid(c)
    BY <1>1, <1>3, <1>4
  <2>. QED  BY <1>8, <2>2, <2>3
<1>11. \A c \in fresh : c \in Cores /\ state[c] # "reset" /\ elf[c] \in Elfs
  BY DEF fresh, alive, TypeOK, TypeIds
<1>12. process' \in [Pids -> [core: Cores, elf: Elfs]]
  <2>1. DOMAIN process' = Pids /\ process' = [p \in Pids |-> process'[p]]
    BY DEF available_processes
  <2>2. \A p \in Pids : process[p] \in [core: Cores, elf: Elfs]
    BY DEF TypeOK, TypeIds
  <2>3. \A p \in Pids : process'[p] \in [core: Cores, elf: Elfs]
    <3>1. SUFFICES ASSUME NEW p \in Pids  PROVE process'[p] \in [core: Cores, elf: Elfs]
      OBVIOUS
    <3>2. CASE \E c \in fresh : p = FreshPid(c)
      <4>1. PICK c \in fresh : process'[p] = [core |-> c, elf |-> elf[c]]
        BY <1>9, <3>2
      <4>. QED  BY <1>11, <4>1
    <3>3. CASE ~ \E c \in fresh : p = FreshPid(c)
      BY <1>8, <2>2, <3>3
    <3>. QED  BY <3>2, <3>3
  <2>. QED  BY <2>1, <2>3
<1>13. \A p \in last : Intact(p) => p \in last'
  <2>1. SUFFICES ASSUME NEW p \in last, Intact(p)  PROVE p \in last'
    OBVIOUS
  <2>2. p \in Pids /\ process[p] \in [core: Cores, elf: Elfs]
    BY <1>10 DEF TypeOK, TypeIds
  <2>3. Core(p) \in alive /\ p \in Reused(Core(p))
    BY <2>1, <2>2 DEF Intact, Core, alive, Reused
  <2>. QED  BY <1>5, <2>2, <2>3
<1>14. \A p \in last' :
         \/ p \in last /\ process'[p] = process[p] /\ process[p].core \in alive \ fresh
            /\ elf[process[p].core] = process[p].elf
         \/ \E c \in fresh : p = FreshPid(c) /\ process'[p] = [core |-> c, elf |-> elf[c]]
  <2>1. SUFFICES ASSUME NEW p \in last'
                 PROVE  \/ p \in last /\ process'[p] = process[p]
                           /\ process[p].core \in alive \ fresh
                           /\ elf[process[p].core] = process[p].elf
                        \/ \E c \in fresh : p = FreshPid(c)
                                            /\ process'[p] = [core |-> c, elf |-> elf[c]]
    OBVIOUS
  <2>2. CASE \E c \in fresh : p = FreshPid(c)
    BY <1>4, <1>9, <2>2
  <2>3. CASE \E c \in alive : p \in Reused(c)
    <3>1. PICK c \in alive : p \in Reused(c)
      BY <2>3
    <3>2. p \in last /\ process[p] = [core |-> c, elf |-> elf[c]] /\ c \notin fresh
      BY <3>1 DEF Reused, fresh
    <3>3. p \in 1..(next_pid - 1)
      BY <3>2 DEF TypeOK, TypeIds
    <3>. QED  BY <3>1, <3>2, <3>3, <1>10
  <2>4. \/ \E c \in fresh : p = FreshPid(c)
        \/ \E c \in alive : p \in Reused(c)
    BY <1>5, <2>1
  <2>. QED  BY <2>2, <2>3, <2>4
<1>15. \A p \in last' : state[process'[p].core] # "reset"
                        /\ elf[process'[p].core] = process'[p].elf
  <2>1. SUFFICES ASSUME NEW p \in last'
                 PROVE  state[process'[p].core] # "reset"
                        /\ elf[process'[p].core] = process'[p].elf
    OBVIOUS
  <2>2. CASE \E c \in fresh : process'[p] = [core |-> c, elf |-> elf[c]]
    BY <1>11, <2>2
  <2>3. CASE process'[p] = process[p] /\ process[p].core \in alive
             /\ elf[process[p].core] = process[p].elf
    BY <2>3 DEF alive
  <2>. QED  BY <1>14, <2>2, <2>3
<1>16. OneProcessPerCore'
  <2>1. SUFFICES ASSUME NEW p \in last', NEW q \in last', process'[p].core = process'[q].core
                 PROVE  p = q
    BY DEF OneProcessPerCore, Core
  <2>2. CASE p \in last /\ q \in last /\ process'[p] = process[p] /\ process'[q] = process[q]
    BY <2>1, <2>2 DEF OneProcessPerCore, Core
  <2>3. CASE \E c, b \in fresh : /\ p = FreshPid(c) /\ process'[p] = [core |-> c, elf |-> elf[c]]
                                /\ q = FreshPid(b) /\ process'[q] = [core |-> b, elf |-> elf[b]]
    BY <2>1, <2>3
  <2>4. ASSUME NEW s \in last', NEW r \in last', process'[s] = process[s],
               process[s].core \notin fresh,
               \E c \in fresh : process'[r] = [core |-> c, elf |-> elf[c]]
        PROVE  process'[s].core # process'[r].core
    BY <2>4
  <2>. QED  BY <1>14, <2>1, <2>2, <2>3, <2>4
<1>. QED  BY <1>3, <1>7, <1>10, <1>12, <1>13, <1>15, <1>16
---------------------------------------------------------------------------
(* Types.                                                                  *)

\* Every initial state satisfies the invariant.
LEMMA InitInv == Init => IInv
<1>. SUFFICES ASSUME Init  PROVE IInv
  OBVIOUS
<1>1. 1 \in Cores /\ MaxPid \in Nat
  BY SessionAssumption DEF Cores, MaxPid
<1>2. TypeIds
  <2>1. process \in [Pids -> [core: Cores, elf: Elfs]]
    BY <1>1 DEF Init
  <2>. QED  BY <1>1, <2>1 DEF Init, TypeIds, States
<1>3. TypeData
  BY <1>1 DEF Init, TypeData, Statuses, Replies, Actions, Status
<1>4. TypeControl
  BY DEF Init, TypeControl, Steps, Requests
<1>. QED  BY <1>2, <1>3, <1>4
          DEF Init, IInv, TypeOK, PidsInv, HeldInv, OneProcessPerCore, DebuggedKeepsPid,
              AttachIntact, HeldWaiting, HeldDetaching, HeldRunning, Kept

LEMMA PidsOK ==
  ASSUME TypeOK
  PROVE  /\ next_pid \in Nat /\ MaxPid \in Nat /\ next_pid <= MaxPid + 1
         /\ last \subseteq Pids /\ debugging_threads \subseteq Pids /\ todo \subseteq Pids
BY SessionAssumption DEF TypeOK, TypeIds, TypeData, MaxPid, Pids

LEMMA ShortSeq ==
  ASSUME NEW S, NEW s \in S, NEW t \in S
  PROVE  <<>> \in Seq(S) /\ <<s>> \in Seq(S) /\ <<t>> \in Seq(S) /\ <<s, t>> \in Seq(S)
OBVIOUS

\* The chip, the ids and the debugged processes.
LEMMA TypeIdsStep ==
  ASSUME TypeOK, OneProcessPerCore, AttachIntact, [Next]_vars
  PROVE  TypeIds'
<1>. USE PidsOK DEF TypeOK, TypeIds, States, chip, ids, session
<1>1. CASE StopAccepting \/ ReadEnd \/ StrayBreak \/ Connect \/ Disconnect \/ SendBreak \/
          GdbStop \/ Joined \/ CheckStop \/ RequestFails \/ VContPending \/ DetachAll \/
          ApplyDone \/ WatchAgain \/ RoundDone \/ VContDone \/ AccessFails
  BY <1>1 DEF StopAccepting, ReadEnd, StrayBreak, Connect, Disconnect, SendBreak, GdbStop,
     Joined, CheckStop, RequestFails, VContPending, DetachAll, ApplyDone, WatchAgain,
     RoundDone, VContDone, AccessFails, Request
<1>2. CASE Accept
  BY <1>2 DEF Accept, NewSession
<1>3. CASE InsertWatchpoint
  BY <1>3 DEF InsertWatchpoint, Core
<1>4. CASE AttachHalt
  BY <1>4 DEF AttachHalt, AttachIntact, halted
<1>5. CASE DetachDisarm
  BY <1>5 DEF DetachDisarm, Core
<1>6. CASE DetachRelease
  BY <1>6 DEF DetachRelease, Core
<1>7. CASE DetachDone
  BY <1>7 DEF DetachDone
<1>8. CASE GdbStart
  BY <1>8 DEF GdbStart, NewSession
<1>9. CASE ListProcesses
  BY <1>9, AvailableProcesses DEF ListProcesses, Request
<1>10. ASSUME NEW p \in Pids, SetThread(p)  PROVE TypeIds'
  BY <1>10, AvailableProcesses DEF SetThread, Request
<1>11. ASSUME NEW p \in Pids, VAttach(p)  PROVE TypeIds'
  BY <1>11, AvailableProcesses DEF VAttach, Request
<1>12. ASSUME NEW p \in Pids, Detach(p)  PROVE TypeIds'
  BY <1>12 DEF Detach, Request
<1>13. ASSUME NEW p \in todo, DetachCheck(p)  PROVE TypeIds'
  BY <1>13, AvailableProcesses DEF DetachCheck
<1>14. ASSUME NEW p \in todo, ApplyAction(p)  PROVE TypeIds'
  BY <1>14 DEF ApplyAction, Core
<1>15. ASSUME NEW p \in todo, LookAt(p)  PROVE TypeIds'
  BY <1>15 DEF LookAt, Core
<1>16. ASSUME NEW p \in todo, HaltRest(p)  PROVE TypeIds'
  BY <1>16 DEF HaltRest, Core
<1>17. ASSUME NEW c \in Cores, CoreStops(c)  PROVE TypeIds'
  BY <1>17 DEF CoreStops
<1>18. ASSUME NEW c \in Cores, OthersReset(c)  PROVE TypeIds'
  BY <1>18 DEF OthersReset, Core
<1>19. ASSUME NEW c \in Cores, NEW e \in Elfs, OthersStart(c, e)  PROVE TypeIds'
  BY <1>19 DEF OthersStart
<1>20. ASSUME NEW actions \in [Pids -> Actions], VCont(actions)  PROVE TypeIds'
  BY <1>20, AvailableProcesses DEF VCont, Request
<1>21. CASE UNCHANGED vars
  BY <1>21 DEF vars
<1>22. \A actions \in [debugging_threads -> Actions] :
         [p \in Pids |-> IF p \in debugging_threads THEN actions[p] ELSE "unchanged"]
           \in [Pids -> Actions]
  BY DEF Actions
<1>. QED  BY <1>1, <1>2, <1>3, <1>4, <1>5, <1>6, <1>7, <1>8, <1>9, <1>10, <1>11, <1>12, <1>13,
             <1>14, <1>15, <1>16, <1>17, <1>18, <1>19, <1>20, <1>21, <1>22 DEF Next,
             ClientRequest, ThreadStep, Environment

\* What the requests and their replies hold.
LEMMA TypeDataStep ==
  ASSUME TypeOK, OneProcessPerCore, AttachIntact, [Next]_vars
  PROVE  TypeData'
<1>. USE PidsOK DEF TypeOK, TypeIds, TypeData, chip, ids, session, local, history, Status,
        Replies, Actions
<1>1. CASE StopAccepting \/ ReadEnd \/ StrayBreak \/ Connect \/ Disconnect \/ SendBreak \/
          GdbStop \/ Joined
  BY <1>1 DEF StopAccepting, ReadEnd, StrayBreak, Connect, Disconnect, SendBreak, GdbStop,
     Joined
<1>2. CASE Accept
  BY <1>2 DEF Accept, NewSession
<1>3. CASE CheckStop
  BY <1>3 DEF CheckStop, NoLocals
<1>4. CASE InsertWatchpoint
  BY <1>4, SMTT(20) DEF InsertWatchpoint, Return, Raise, Answer, Core
<1>5. CASE RequestFails
  BY <1>5 DEF RequestFails, Request, Raise
<1>6. CASE VContPending
  <2>. DEFINE n == Len(vCont_pending_statuses)
  <2>1. n \in Nat /\ n \in 1..n /\ vCont_pending_statuses[n] \in Statuses
    BY <1>6 DEF VContPending
  <2>2. vCont_pending_statuses[n] \in [kind: Replies, pid: Pids \cup {0}]
    BY <2>1 DEF Statuses
  <2>3. SubSeq(vCont_pending_statuses, 1, n - 1) \in Seq(Statuses)
    BY <2>1
  <2>. QED  BY <1>6, <2>2, <2>3 DEF VContPending, Request, Return, Answer
<1>7. CASE AttachHalt
  BY <1>7 DEF AttachHalt, Return, Answer, Core, halted
<1>8. CASE DetachAll
  BY <1>8 DEF DetachAll, Request
<1>9. CASE DetachDisarm
  <2>1. CASE state[Core(focus)] = "reset"
    <3>1. debugging_threads \cup freed \cup loose \subseteq Pids
      OBVIOUS
    <3>2. loose' \subseteq Pids
      BY <1>9, <2>1, <3>1 DEF DetachDisarm, LeaveLoose
    <3>3. reply' \in [kind: Replies, pid: Pids \cup {0}]
      BY <1>9, <2>1 DEF DetachDisarm, Raise
    <3>. QED  BY <1>9, <2>1, <3>2, <3>3 DEF DetachDisarm
  <2>2. CASE state[Core(focus)] # "reset"
    BY <1>9, <2>2 DEF DetachDisarm
  <2>. QED  BY <2>1, <2>2
<1>10. CASE DetachRelease
  <2>1. CASE state[Core(focus)] = "reset"
    <3>1. debugging_threads \cup freed \cup loose \subseteq Pids
      OBVIOUS
    <3>2. loose' \subseteq Pids
      BY <1>10, <2>1, <3>1 DEF DetachRelease, LeaveLoose
    <3>3. reply' \in [kind: Replies, pid: Pids \cup {0}]
      BY <1>10, <2>1 DEF DetachRelease, Raise
    <3>. QED  BY <1>10, <2>1, <3>2, <3>3 DEF DetachRelease
  <2>2. CASE state[Core(focus)] # "reset"
    BY <1>10, <2>2 DEF DetachRelease
  <2>. QED  BY <2>1, <2>2
<1>11. CASE DetachDone
  BY <1>11 DEF DetachDone, Return, Answer
<1>12. CASE ApplyDone
  BY <1>12 DEF ApplyDone
<1>13. CASE WatchAgain
  BY <1>13 DEF WatchAgain
<1>14. CASE RoundDone
  <2>1. CASE ~stop_watching \/ vCont_pending_statuses = <<>>
    BY <1>14, <2>1 DEF RoundDone
  <2>2. CASE stop_watching /\ vCont_pending_statuses # <<>>
    <3>. DEFINE rest == Tail(vCont_pending_statuses)
    <3>1. Len(vCont_pending_statuses) # 0 /\ Head(vCont_pending_statuses) \in Statuses
          /\ rest \in Seq(Statuses)
      BY <2>2
    <3>2. Reversed(rest) \in Seq(Statuses)
      BY <3>1 DEF Reversed
    <3>3. <<Status("T05", 0)>> \in Seq(Statuses)
      BY DEF Statuses
    <3>4. <<Status("T05", 0)>> \o Reversed(rest) \in Seq(Statuses)
      BY <3>2, <3>3
    <3>5. Head(vCont_pending_statuses) \in [kind: Replies, pid: Pids \cup {0}]
      BY <3>1 DEF Statuses
    <3>. QED  BY <1>14, <2>2, <3>1, <3>4, <3>5 DEF RoundDone
  <2>. QED  BY <2>1, <2>2
<1>15. CASE VContDone
  BY <1>15 DEF VContDone, Return, Answer
<1>16. CASE AccessFails
  <2>1. debugging_threads \cup freed \cup loose \subseteq Pids
    OBVIOUS
  <2>2. LeaveLoose \/ UNCHANGED loose
    BY <1>16 DEF AccessFails
  <2>3. loose' \subseteq Pids
    BY <2>1, <2>2 DEF LeaveLoose
  <2>4. reply' \in [kind: Replies, pid: Pids \cup {0}]
    BY <1>16 DEF AccessFails, Return, Raise, Answer
  <2>. QED  BY <1>16, <2>3, <2>4 DEF AccessFails
<1>17. CASE GdbStart
  BY <1>17 DEF GdbStart, NewSession, NoLocals
<1>18. CASE ListProcesses
  BY <1>18, AvailableProcesses DEF ListProcesses, Request, Return, Answer
<1>19. ASSUME NEW p \in Pids, SetThread(p)  PROVE TypeData'
  <2>1. reply' \in [kind: Replies, pid: Pids \cup {0}]
    BY <1>19 DEF SetThread, Return, Answer
  <2>. QED  BY <1>19, <2>1 DEF SetThread, Request
<1>20. ASSUME NEW p \in Pids, VAttach(p)  PROVE TypeData'
  BY <1>20, AvailableProcesses DEF VAttach, Request, Return, Answer
<1>21. ASSUME NEW p \in Pids, Detach(p)  PROVE TypeData'
  BY <1>21 DEF Detach, Request, Return, Answer
<1>22. ASSUME NEW p \in todo, DetachCheck(p)  PROVE TypeData'
  BY <1>22, AvailableProcesses DEF DetachCheck
<1>23. ASSUME NEW p \in todo, ApplyAction(p)  PROVE TypeData'
  BY <1>23 DEF ApplyAction, Raise, LeaveLoose, Core, halted
<1>24. ASSUME NEW p \in todo, LookAt(p)  PROVE TypeData'
  <2>1. PICK seen \in Seen(p) : vCont_pending_statuses' = vCont_pending_statuses \o seen
    BY <1>24 DEF LookAt
  <2>2. Status("W00", p) \in Statuses /\ Status("T05", p) \in Statuses
    BY DEF Statuses
  <2>3. \/ seen = <<>>
        \/ seen = <<Status("W00", p)>> \/ seen = <<Status("T05", p)>>
        \/ seen = <<Status("W00", p), Status("T05", p)>>
    <3>. HIDE DEF Status
    <3>. QED  BY <2>1, Zenon DEF Seen
  <2>4. seen \in Seq(Statuses)
    <3>. HIDE DEF Status
    <3>1. /\ <<>> \in Seq(Statuses)
          /\ <<Status("W00", p)>> \in Seq(Statuses) /\ <<Status("T05", p)>> \in Seq(Statuses)
          /\ <<Status("W00", p), Status("T05", p)>> \in Seq(Statuses)
      BY <2>2, ShortSeq, Zenon
    <3>. QED  BY <2>3, <3>1, Zenon
  <2>. QED  BY <1>24, <2>1, <2>4 DEF LookAt
<1>25. ASSUME NEW p \in todo, HaltRest(p)  PROVE TypeData'
  BY <1>25 DEF HaltRest, Core
<1>26. ASSUME NEW c \in Cores, CoreStops(c)  PROVE TypeData'
  BY <1>26 DEF CoreStops
<1>27. ASSUME NEW c \in Cores, OthersReset(c)  PROVE TypeData'
  BY <1>27 DEF OthersReset, Core
<1>28. ASSUME NEW c \in Cores, NEW e \in Elfs, OthersStart(c, e)  PROVE TypeData'
  BY <1>28 DEF OthersStart
<1>29. ASSUME NEW actions \in [Pids -> Actions], VCont(actions)  PROVE TypeData'
  <2>1. CASE \E p \in debugging_threads \ last' : Return(Status("W00", p)) /\ UNCHANGED local
    BY <1>29, <2>1 DEF VCont, Request, Return, Answer
  <2>2. CASE thread_actions' = actions /\ todo' = debugging_threads
             /\ UNCHANGED <<processes_to_watch, focus, stop_watching, leftover, reply>>
    BY <1>29, <2>2 DEF VCont, Request
  <2>. QED  BY <1>29, <2>1, <2>2 DEF VCont
<1>30. CASE UNCHANGED vars
  BY <1>30 DEF vars
<1>31. \A actions \in [debugging_threads -> Actions] :
         [p \in Pids |-> IF p \in debugging_threads THEN actions[p] ELSE "unchanged"]
           \in [Pids -> Actions]
  BY DEF Actions
<1>. QED  BY <1>1, <1>2, <1>3, <1>4, <1>5, <1>6, <1>7, <1>8, <1>9, <1>10, <1>11, <1>12, <1>13,
             <1>14, <1>15, <1>16, <1>17, <1>18, <1>19, <1>20, <1>21, <1>22, <1>23, <1>24,
             <1>25, <1>26, <1>27, <1>28, <1>29, <1>30, <1>31 DEF Next, ClientRequest,
             ThreadStep, Environment

\* Where the thread, its clients and its owner are.
LEMMA TypeControlStep ==
  ASSUME TypeOK, OneProcessPerCore, AttachIntact, [Next]_vars
  PROVE  TypeControl'
<1>. USE PidsOK DEF TypeOK, TypeControl, chip, ids, session, local, others, history, Steps,
        Requests
<1>1. CASE Accept
  BY <1>1 DEF Accept, NewSession
<1>2. CASE StopAccepting
  BY <1>2 DEF StopAccepting
<1>3. CASE CheckStop
  BY <1>3 DEF CheckStop, CloseClient, NoLocals
<1>4. CASE ReadEnd
  BY <1>4 DEF ReadEnd, CloseClient
<1>5. CASE StrayBreak
  BY <1>5 DEF StrayBreak
<1>6. CASE InsertWatchpoint
  BY <1>6 DEF InsertWatchpoint, Return, Raise, Answer
<1>7. CASE RequestFails
  BY <1>7 DEF RequestFails, Request, Raise
<1>8. CASE VContPending
  BY <1>8 DEF VContPending, Request, Return, Answer
<1>9. CASE AttachHalt
  BY <1>9 DEF AttachHalt, Return, Answer
<1>10. CASE DetachAll
  BY <1>10 DEF DetachAll, Request
<1>11. CASE DetachDisarm
  BY <1>11 DEF DetachDisarm, Raise
<1>12. CASE DetachRelease
  BY <1>12 DEF DetachRelease, Raise
<1>13. CASE DetachDone
  BY <1>13 DEF DetachDone, Return, Answer
<1>14. CASE ApplyDone
  BY <1>14 DEF ApplyDone
<1>15. CASE WatchAgain
  BY <1>15 DEF WatchAgain
<1>16. CASE RoundDone
  BY <1>16 DEF RoundDone
<1>17. CASE VContDone
  BY <1>17 DEF VContDone, Return, Answer
<1>18. CASE AccessFails
  <2>0. faults' \in Nat /\ UNCHANGED <<op, stop_event, stop_watching, stopper, resets>>
    BY <1>18 DEF AccessFails
  <2>1. CASE Return(Status("E01", 0)) /\ UNCHANGED <<client, break_sent>>
    BY <2>0, <2>1 DEF Return, Answer
  <2>2. CASE Raise(pc = "halt_rest") /\ UNCHANGED <<client, break_sent>>
    BY <2>0, <2>2 DEF Raise
  <2>3. CASE Die /\ UNCHANGED leftover
    BY <2>0, <2>3 DEF Die
  <2>. QED  BY <1>18, <2>1, <2>2, <2>3 DEF AccessFails
<1>19. CASE Connect
  BY <1>19 DEF Connect
<1>20. CASE Disconnect
  BY <1>20 DEF Disconnect
<1>21. CASE SendBreak
  BY <1>21 DEF SendBreak
<1>22. CASE GdbStop
  BY <1>22 DEF GdbStop
<1>23. CASE Joined
  BY <1>23 DEF Joined
<1>24. CASE GdbStart
  BY <1>24 DEF GdbStart, NewSession, NoLocals
<1>25. CASE ListProcesses
  BY <1>25, AvailableProcesses DEF ListProcesses, Request, Return, Answer
<1>26. ASSUME NEW p \in Pids, SetThread(p)  PROVE TypeControl'
  BY <1>26, AvailableProcesses DEF SetThread, Request, Return, Answer
<1>27. ASSUME NEW p \in Pids, VAttach(p)  PROVE TypeControl'
  BY <1>27, AvailableProcesses DEF VAttach, Request, Return, Answer
<1>28. ASSUME NEW p \in Pids, Detach(p)  PROVE TypeControl'
  BY <1>28 DEF Detach, Request, Return, Answer
<1>29. ASSUME NEW p \in todo, DetachCheck(p)  PROVE TypeControl'
  BY <1>29, AvailableProcesses DEF DetachCheck
<1>30. ASSUME NEW p \in todo, ApplyAction(p)  PROVE TypeControl'
  BY <1>30 DEF ApplyAction, Raise
<1>31. ASSUME NEW p \in todo, LookAt(p)  PROVE TypeControl'
  BY <1>31 DEF LookAt
<1>32. ASSUME NEW p \in todo, HaltRest(p)  PROVE TypeControl'
  BY <1>32 DEF HaltRest
<1>33. ASSUME NEW c \in Cores, CoreStops(c)  PROVE TypeControl'
  BY <1>33 DEF CoreStops
<1>34. ASSUME NEW c \in Cores, OthersReset(c)  PROVE TypeControl'
  BY <1>34 DEF OthersReset
<1>35. ASSUME NEW c \in Cores, NEW e \in Elfs, OthersStart(c, e)  PROVE TypeControl'
  BY <1>35 DEF OthersStart
<1>36. ASSUME NEW actions \in [Pids -> Actions], VCont(actions)  PROVE TypeControl'
  BY <1>36, AvailableProcesses DEF VCont, Request, Return, Answer
<1>37. CASE UNCHANGED vars
  BY <1>37 DEF vars
<1>38. \A actions \in [debugging_threads -> Actions] :
         [p \in Pids |-> IF p \in debugging_threads THEN actions[p] ELSE "unchanged"]
           \in [Pids -> Actions]
  BY DEF Actions
<1>. QED  BY <1>1, <1>2, <1>3, <1>4, <1>5, <1>6, <1>7, <1>8, <1>9, <1>10, <1>11, <1>12, <1>13,
             <1>14, <1>15, <1>16, <1>17, <1>18, <1>19, <1>20, <1>21, <1>22, <1>23, <1>24,
             <1>25, <1>26, <1>27, <1>28, <1>29, <1>30, <1>31, <1>32, <1>33, <1>34, <1>35,
             <1>36, <1>37, <1>38 DEF Next, ClientRequest, ThreadStep, Environment

---------------------------------------------------------------------------
(* The ids of the debugged processes.                                      *)

\* A process is intact until its core is reset.
LEMMA PidsStep ==
  ASSUME TypeOK, PidsInv, [Next]_vars
  PROVE  PidsInv'
<1>. USE PidsOK DEF PidsInv, OneProcessPerCore, DebuggedKeepsPid, AttachIntact, Intact, Core,
        chip, ids, session, local, history
<1>1. CASE StopAccepting \/ ReadEnd \/ StrayBreak \/ Connect \/ Disconnect \/ SendBreak \/
          GdbStop \/ Joined \/ CheckStop \/ RequestFails \/ VContPending \/ DetachAll \/
          ApplyDone \/ WatchAgain \/ RoundDone \/ VContDone \/ AccessFails
  BY <1>1 DEF StopAccepting, ReadEnd, StrayBreak, Connect, Disconnect, SendBreak, GdbStop,
     Joined, CheckStop, RequestFails, VContPending, DetachAll, ApplyDone, WatchAgain,
     RoundDone, VContDone, AccessFails, CloseClient, NoLocals, Request, Raise, Return, Answer,
     Die
<1>2. CASE Accept
  BY <1>2 DEF Accept, NewSession
<1>3. CASE InsertWatchpoint
  BY <1>3 DEF InsertWatchpoint, Return, Raise, Answer, Core
<1>4. CASE AttachHalt
  <2>1. \A q \in Pids : Core(q) \in Cores
    BY DEF TypeOK, TypeIds
  <2>2. \A c \in Cores : state'[c] # "reset" <=> state[c] # "reset"
    BY <1>4, <2>1 DEF AttachHalt, TypeOK, TypeIds, halted
  <2>. QED  BY <1>4, <2>1, <2>2 DEF AttachHalt, Return, Raise, Answer
<1>5. CASE DetachDisarm
  BY <1>5 DEF DetachDisarm, Raise, Core
<1>6. CASE DetachRelease
  <2>1. \A q \in Pids : Core(q) \in Cores
    BY DEF TypeOK, TypeIds
  <2>2. \A c \in Cores : state'[c] # "reset" <=> state[c] # "reset"
    BY <1>6, <2>1 DEF DetachRelease, TypeOK, TypeIds, halted
  <2>. QED  BY <1>6, <2>1, <2>2 DEF DetachRelease, Return, Raise, Answer
<1>7. CASE DetachDone
  BY <1>7 DEF DetachDone, Return, Answer
<1>8. CASE GdbStart
  BY <1>8 DEF GdbStart, NewSession, NoLocals
<1>9. CASE ListProcesses
  BY <1>9, AvailableProcesses DEF ListProcesses, Request, Return, Answer
<1>10. ASSUME NEW p \in Pids, SetThread(p)  PROVE PidsInv'
  BY <1>10, AvailableProcesses DEF SetThread, Request, Return, Answer
<1>11. ASSUME NEW p \in Pids, VAttach(p)  PROVE PidsInv'
  BY <1>11, AvailableProcesses DEF VAttach, Request, Return, Answer
<1>12. ASSUME NEW p \in Pids, Detach(p)  PROVE PidsInv'
  BY <1>12 DEF Detach, Request, Return, Answer
<1>13. ASSUME NEW p \in todo, DetachCheck(p)  PROVE PidsInv'
  BY <1>13, AvailableProcesses DEF DetachCheck
<1>14. ASSUME NEW p \in todo, ApplyAction(p)  PROVE PidsInv'
  <2>1. \A q \in Pids : Core(q) \in Cores
    BY DEF TypeOK, TypeIds
  <2>2. \A c \in Cores : state'[c] # "reset" <=> state[c] # "reset"
    BY <1>14, <2>1 DEF ApplyAction, TypeOK, TypeIds, halted
  <2>. QED  BY <1>14, <2>1, <2>2 DEF ApplyAction, Return, Raise, Answer
<1>15. ASSUME NEW p \in todo, LookAt(p)  PROVE PidsInv'
  BY <1>15 DEF LookAt, Core, halted
<1>16. ASSUME NEW p \in todo, HaltRest(p)  PROVE PidsInv'
  BY <1>16 DEF HaltRest, Core
<1>17. ASSUME NEW c \in Cores, CoreStops(c)  PROVE PidsInv'
  BY <1>17 DEF CoreStops
<1>18. ASSUME NEW c \in Cores, OthersReset(c)  PROVE PidsInv'
  <2>1. \A q \in 1..(next_pid - 1) : q \in Pids /\ q < next_pid
    BY DEF Pids
  <2>2. debugging_threads \subseteq 1..(next_pid - 1)
    BY DEF TypeOK, TypeIds
  <2>3. \A q \in 1..(next_pid - 1) : q \notin exited' => q \notin exited /\ Core(q) # c
    BY <1>18, <2>1 DEF OthersReset
  <2>4. \A b \in Cores \ {c} : state'[b] = state[b]
    BY <1>18 DEF OthersReset, TypeOK, TypeIds
  <2>5. \A q \in Pids : Core(q) \in Cores
    BY DEF TypeOK, TypeIds
  <2>6. UNCHANGED <<pc, focus, next_pid, last, process, elf, debugging_threads>>
    BY <1>18 DEF OthersReset
  <2>. QED  BY <2>1, <2>2, <2>3, <2>4, <2>5, <2>6
<1>19. ASSUME NEW c \in Cores, NEW e \in Elfs, OthersStart(c, e)  PROVE PidsInv'
  BY <1>19 DEF OthersStart
<1>20. ASSUME NEW actions \in [Pids -> Actions], VCont(actions)  PROVE PidsInv'
  BY <1>20, AvailableProcesses DEF VCont, Request, Return, Answer
<1>21. CASE UNCHANGED vars
  BY <1>21 DEF vars
<1>22. \A actions \in [debugging_threads -> Actions] :
         [p \in Pids |-> IF p \in debugging_threads THEN actions[p] ELSE "unchanged"]
           \in [Pids -> Actions]
  BY DEF Actions
<1>. QED  BY <1>1, <1>2, <1>3, <1>4, <1>5, <1>6, <1>7, <1>8, <1>9, <1>10, <1>11, <1>12, <1>13,
             <1>14, <1>15, <1>16, <1>17, <1>18, <1>19, <1>20, <1>21, <1>22 DEF Next,
             ClientRequest, ThreadStep, Environment

---------------------------------------------------------------------------
(* The debugged cores are held.                                            *)

LEMMA DebuggedKept ==
  ASSUME TypeOK, PidsInv, available_processes, UNCHANGED <<state, elf>>
  PROVE  /\ \A q \in debugging_threads : process'[q] = process[q]
         /\ \A q \in debugging_threads \ exited : q \in last'
<1>1. debugging_threads \subseteq 1..(next_pid - 1)
  BY DEF TypeOK, TypeIds
<1>. QED  BY <1>1, AvailableProcesses DEF PidsInv, DebuggedKeepsPid, Intact

LEMMA CoresOfPids ==
  ASSUME TypeOK
  PROVE  /\ \A q \in Pids : process[q].core \in Cores
         /\ state \in [Cores -> States]
BY DEF TypeOK, TypeIds

\* Two debugged processes that are not excused have different cores, and
\* neither of them is in reset.
LEMMA KeptCores ==
  ASSUME TypeOK, PidsInv, NEW p \in last, NEW q \in debugging_threads \ exited
  PROVE  /\ p # q => process[p].core # process[q].core
         /\ q \in last /\ state[process[q].core] # "reset"
BY DEF PidsInv, OneProcessPerCore, DebuggedKeepsPid, Intact, Core

\* Only cores that the request at hand is about run.
LEMMA HeldStep ==
  ASSUME TypeOK, PidsInv, HeldInv, [Next]_vars
  PROVE  HeldInv'
<1>. USE PidsOK DEF HeldInv, HeldWaiting, HeldDetaching, HeldRunning, Kept, LeaveLoose, Core,
        halted, chip, ids, session, local, history
<1>1. CASE StopAccepting \/ ReadEnd \/ StrayBreak \/ Connect \/ Disconnect \/ SendBreak \/
          GdbStop \/ Joined
  BY <1>1 DEF StopAccepting, ReadEnd, StrayBreak, Connect, Disconnect, SendBreak, GdbStop,
     Joined, CloseClient
<1>2. CASE Accept
  BY <1>2 DEF Accept, NewSession
<1>3. CASE CheckStop
  BY <1>3 DEF CheckStop, CloseClient, NoLocals
<1>4. CASE InsertWatchpoint
  BY <1>4 DEF InsertWatchpoint, Return, Raise, Answer
<1>5. CASE RequestFails
  BY <1>5 DEF RequestFails, Request, Raise
<1>6. CASE VContPending
  BY <1>6 DEF VContPending, Request, Return, Answer
<1>7. CASE AttachHalt
  <2>1. \A b \in Cores : halted(b) => halted(b)'
    BY <1>7, CoresOfPids DEF AttachHalt
  <2>2. pc' = "loop" /\ UNCHANGED <<process, exited, loose>>
    BY <1>7 DEF AttachHalt, Return
  <2>3. CASE UNCHANGED debugging_threads
    BY <1>7, <2>1, <2>2, <2>3, CoresOfPids DEF AttachHalt
  <2>4. CASE state[Core(focus)] # "reset"
    <3>1. halted(Core(focus))' /\ debugging_threads' = debugging_threads \cup {focus}
      BY <1>7, <2>4, CoresOfPids DEF AttachHalt, PidsInv, AttachIntact, Pids, TypeOK, TypeIds
    <3>. QED  BY <1>7, <2>1, <2>2, <3>1, CoresOfPids DEF AttachHalt
  <2>. QED  BY <1>7, <2>3, <2>4 DEF AttachHalt
<1>8. CASE DetachAll
  BY <1>8 DEF DetachAll, Request
<1>9. CASE DetachDisarm
  BY <1>9 DEF DetachDisarm, Raise
<1>10. CASE DetachRelease
  <2>1. focus \in freed \cap last
    BY <1>10 DEF DetachRelease
  <2>2. \A b \in Cores \ {Core(focus)} : state'[b] = state[b]
    BY <1>10, CoresOfPids DEF DetachRelease
  <2>3. \A q \in Kept \ freed : Core(q) \in Cores \ {Core(focus)}
    BY <2>1, KeptCores, CoresOfPids
  <2>4. CASE state[Core(focus)] = "reset"
    BY <1>10, <2>4 DEF DetachRelease, Raise
  <2>5. CASE state[Core(focus)] # "reset"
    <3>1. pc' = "detach_check" /\ UNCHANGED <<op, freed, debugging_threads, exited, loose, todo, process>>
      BY <1>10, <2>5 DEF DetachRelease
    <3>. QED  BY <1>10, <2>2, <2>3, <3>1 DEF DetachRelease
  <2>. QED  BY <2>4, <2>5
<1>11. CASE DetachDone
  BY <1>11 DEF DetachDone, Return, Answer
<1>12. CASE ApplyDone
  BY <1>12 DEF ApplyDone
<1>13. CASE WatchAgain
  BY <1>13 DEF WatchAgain
<1>14. CASE RoundDone
  BY <1>14 DEF RoundDone
<1>15. CASE VContDone
  BY <1>15 DEF VContDone, Return, Answer
<1>16. CASE AccessFails
  BY <1>16 DEF AccessFails, Return, Raise, Answer, Die
<1>17. CASE GdbStart
  BY <1>17 DEF GdbStart, NewSession, NoLocals
<1>18. CASE ListProcesses
  <2>1. /\ \A q \in debugging_threads : process'[q] = process[q]
        /\ \A q \in debugging_threads \ exited : q \in last'
    BY <1>18, DebuggedKept DEF ListProcesses, Request
  <2>. QED  BY <1>18, <2>1 DEF ListProcesses, Request, Return, Answer
<1>19. ASSUME NEW p \in Pids, SetThread(p)  PROVE HeldInv'
  <2>1. /\ \A q \in debugging_threads : process'[q] = process[q]
        /\ \A q \in debugging_threads \ exited : q \in last'
    BY <1>19, DebuggedKept DEF SetThread, Request
  <2>. QED  BY <1>19, <2>1 DEF SetThread, Request, Return, Answer
<1>20. ASSUME NEW p \in Pids, VAttach(p)  PROVE HeldInv'
  <2>1. /\ \A q \in debugging_threads : process'[q] = process[q]
        /\ \A q \in debugging_threads \ exited : q \in last'
    BY <1>20, DebuggedKept DEF VAttach, Request
  <2>. QED  BY <1>20, <2>1 DEF VAttach, Request, Return, Answer
<1>21. ASSUME NEW p \in Pids, Detach(p)  PROVE HeldInv'
  BY <1>21 DEF Detach, Request, Return, Answer
<1>22. ASSUME NEW p \in todo, DetachCheck(p)  PROVE HeldInv'
  <2>1. /\ \A q \in debugging_threads : process'[q] = process[q]
        /\ \A q \in debugging_threads \ exited : q \in last'
    BY <1>22, DebuggedKept DEF DetachCheck, Request
  <2>. QED  BY <1>22, <2>1 DEF DetachCheck, Request
<1>23. ASSUME NEW p \in todo, ApplyAction(p)  PROVE HeldInv'
  <2>1. p \in debugging_threads /\ p \in last /\ op = "vCont"
    BY <1>23 DEF ApplyAction
  <2>2. \A q \in Kept \ {p} : Core(q) \in Cores \ {Core(p)}
    BY <2>1, KeptCores, CoresOfPids
  <2>3. CASE state[Core(p)] = "reset"
    BY <1>23, <2>1, <2>3 DEF ApplyAction, Raise
  <2>4. CASE state[Core(p)] # "reset"
    <3>1. /\ todo' = todo \ {p}
          /\ UNCHANGED <<pc, op, debugging_threads, exited, loose, freed, process, last>>
          /\ processes_to_watch \subseteq processes_to_watch'
          /\ processes_to_watch' \subseteq debugging_threads
      BY <1>23, <2>1, <2>4 DEF ApplyAction
    <3>2. \A b \in Cores \ {Core(p)} : state'[b] = state[b]
      BY <1>23, <2>4, CoresOfPids DEF ApplyAction
    <3>3. p \in Kept => halted(Core(p))' \/ p \in processes_to_watch'
      BY <1>23, <2>4, CoresOfPids DEF ApplyAction
    <3>. QED  BY <1>23, <2>1, <2>2, <3>1, <3>2, <3>3 DEF ApplyAction
  <2>. QED  BY <2>3, <2>4
<1>24. ASSUME NEW p \in todo, LookAt(p)  PROVE HeldInv'
  BY <1>24 DEF LookAt
<1>25. ASSUME NEW p \in todo, HaltRest(p)  PROVE HeldInv'
  <2>1. \A b \in Cores : halted(b) => halted(b)'
    BY <1>25, CoresOfPids DEF HaltRest
  <2>2. p \in processes_to_watch \ exited => halted(Core(p))'
    <3>1. SUFFICES ASSUME p \in processes_to_watch \ exited  PROVE halted(Core(p))'
      OBVIOUS
    <3>2. p \in debugging_threads \ exited /\ p \in Pids
      BY <1>25, <3>1 DEF HaltRest
    <3>3. state[Core(p)] \in {"running", "host", "self"} /\ Core(p) \in Cores
      BY <3>2, CoresOfPids DEF States, PidsInv, DebuggedKeepsPid, Intact
    <3>. QED  BY <1>25, <3>3, CoresOfPids DEF HaltRest
  <2>. QED  BY <1>25, <2>1, <2>2, CoresOfPids DEF HaltRest
<1>26. ASSUME NEW c \in Cores, CoreStops(c)  PROVE HeldInv'
  BY <1>26 DEF CoreStops
<1>27. ASSUME NEW c \in Cores, OthersReset(c)  PROVE HeldInv'
  <2>1. debugging_threads \subseteq 1..(next_pid - 1)
    BY DEF TypeOK, TypeIds
  <2>2. \A q \in 1..(next_pid - 1) : q \in Pids /\ q < next_pid
    BY DEF Pids
  <2>3. \A q \in debugging_threads \ exited' : q \notin exited /\ Core(q) \in Cores \ {c}
    BY <1>27, <2>1, <2>2, CoresOfPids DEF OthersReset
  <2>4. \A b \in Cores \ {c} : state'[b] = state[b]
    BY <1>27, CoresOfPids DEF OthersReset
  <2>5. exited \subseteq exited'
    BY <1>27 DEF OthersReset
  <2>. QED  BY <1>27, <2>3, <2>4, <2>5 DEF OthersReset
<1>28. ASSUME NEW c \in Cores, NEW e \in Elfs, OthersStart(c, e)  PROVE HeldInv'
  BY <1>28 DEF OthersStart
<1>29. ASSUME NEW actions \in [Pids -> Actions], VCont(actions)  PROVE HeldInv'
  <2>1. /\ \A q \in debugging_threads : process'[q] = process[q]
        /\ \A q \in Kept : halted(Core(q))
        /\ UNCHANGED <<state, debugging_threads, exited, loose>>
    BY <1>29, DebuggedKept DEF VCont, Request
  <2>2. CASE \E q \in debugging_threads \ last' : Return(Status("W00", q)) /\ UNCHANGED local
    BY <2>1, <2>2 DEF Return
  <2>3. CASE debugging_threads \subseteq last' /\ todo' = debugging_threads /\ pc' = "apply"
             /\ UNCHANGED processes_to_watch
    BY <1>29, <2>1, <2>3 DEF VCont, Request
  <2>. QED  BY <1>29, <2>2, <2>3 DEF VCont
<1>30. CASE UNCHANGED vars
  BY <1>30 DEF vars
<1>31. \A actions \in [debugging_threads -> Actions] :
         [p \in Pids |-> IF p \in debugging_threads THEN actions[p] ELSE "unchanged"]
           \in [Pids -> Actions]
  BY DEF Actions
<1>. QED  BY <1>1, <1>2, <1>3, <1>4, <1>5, <1>6, <1>7, <1>8, <1>9, <1>10, <1>11, <1>12, <1>13,
             <1>14, <1>15, <1>16, <1>17, <1>18, <1>19, <1>20, <1>21, <1>22, <1>23, <1>24,
             <1>25, <1>26, <1>27, <1>28, <1>29, <1>30, <1>31 DEF Next, ClientRequest,
             ThreadStep, Environment

---------------------------------------------------------------------------
(* What the replies of vCont and detach tell.                              *)

\* The statuses that vCont has gathered so far tell of exits of cores that
\* were reset: it looks at debugged processes only, and these are intact.
ExitInv ==
  /\ ExitIsReal
  /\ pc = "read" => reply.kind # "W00"
  /\ pc = "apply" => vCont_pending_statuses = <<>>
  /\ pc \in {"watch", "look"} =>
       \A i \in 1..Len(vCont_pending_statuses) :
         vCont_pending_statuses[i].kind = "W00" => vCont_pending_statuses[i].pid \in exited
  /\ pc = "look" => todo \subseteq processes_to_watch

Released(p) == state[Core(p)] # "host" /\ ~armed[Core(p)]

\* A process that a detach has taken up is intact until its core is reset, so
\* it is not skipped: it waits, is at hand, or has been released.
FreedInv ==
  /\ pc \in {"accept", "read"} => op = "none"
  /\ pc = "attach" => op = "attach"
  /\ pc = "read" => freed = {}
  /\ pc \in {"detach_check", "detach_disarm", "detach_release"} =>
       \A p \in freed \ exited :
         /\ Intact(p)
         /\ p \in todo \/ Released(p) \/ (pc # "detach_check" /\ p = focus)
  /\ pc = "detach_release" => focus \in exited \/ ~armed[Core(focus)]
  /\ DetachReleases

ReplyInv == ExitInv /\ FreedInv

\* An intact process is found again, with its core and ELF.
LEMMA IntactKept ==
  ASSUME TypeOK, PidsInv, available_processes, UNCHANGED <<state, elf>>,
         NEW q, Intact(q)
  PROVE  Intact(q)' /\ process'[q] = process[q] /\ q \in last'
<1>1. q \in 1..(next_pid - 1) /\ q \in last
  BY DEF TypeOK, TypeIds, Intact
<1>. QED  BY <1>1, AvailableProcesses DEF PidsInv, Intact, Core

\* vCont tells only of exits of cores that were reset.
LEMMA ExitStep ==
  ASSUME TypeOK, PidsInv, HeldInv, ExitInv, [Next]_vars
  PROVE  ExitInv'
<1>. USE PidsOK DEF HeldInv, HeldRunning, HeldDetaching, ExitInv, ExitIsReal, Core, Status, chip, ids,
        session, local, history
<1>1. CASE StopAccepting \/ ReadEnd \/ StrayBreak \/ Connect \/ Disconnect \/ SendBreak \/
          GdbStop \/ Joined
  BY <1>1 DEF StopAccepting, ReadEnd, StrayBreak, Connect, Disconnect, SendBreak, GdbStop,
     Joined, CloseClient
<1>2. CASE Accept
  BY <1>2 DEF Accept, NewSession
<1>3. CASE CheckStop
  BY <1>3 DEF CheckStop, CloseClient, NoLocals
<1>4. CASE InsertWatchpoint
  BY <1>4 DEF InsertWatchpoint, Return, Raise, Answer
<1>5. CASE RequestFails
  BY <1>5 DEF RequestFails, Request, Raise
<1>6. CASE VContPending
  BY <1>6 DEF VContPending, Request, Return, Answer
<1>7. CASE AttachHalt
  BY <1>7 DEF AttachHalt, Return, Answer
<1>8. CASE DetachAll
  BY <1>8 DEF DetachAll, Request
<1>9. CASE DetachDisarm
  BY <1>9 DEF DetachDisarm, Raise
<1>10. CASE DetachRelease
  BY <1>10 DEF DetachRelease, Raise
<1>11. CASE DetachDone
  BY <1>11 DEF DetachDone, Return, Answer
<1>12. CASE ApplyDone
  BY <1>12 DEF ApplyDone
<1>13. CASE WatchAgain
  BY <1>13 DEF WatchAgain
<1>14. CASE RoundDone
  <2>1. vCont_pending_statuses \in Seq(Statuses)
    BY DEF TypeOK, TypeData
  <2>2. CASE ~stop_watching
    BY <1>14, <2>2 DEF RoundDone
  <2>3. CASE stop_watching /\ vCont_pending_statuses = <<>>
    BY <1>14, <2>3 DEF RoundDone
  <2>4. CASE stop_watching /\ vCont_pending_statuses # <<>>
    <3>1. 1 \in 1..Len(vCont_pending_statuses)
          /\ Head(vCont_pending_statuses) = vCont_pending_statuses[1]
      BY <2>1, <2>4
    <3>2. reply' = vCont_pending_statuses[1] /\ pc' = "halt_rest" /\ UNCHANGED exited
      BY <1>14, <2>4, <3>1 DEF RoundDone
    <3>3. pc = "look"
      BY <1>14 DEF RoundDone
    <3>. QED  BY <3>1, <3>2, <3>3
  <2>. QED  BY <2>2, <2>3, <2>4
<1>15. CASE VContDone
  BY <1>15 DEF VContDone, Return, Answer
<1>16. CASE AccessFails
  BY <1>16 DEF AccessFails, Return, Raise, Answer, Die
<1>17. CASE GdbStart
  BY <1>17 DEF GdbStart, NewSession, NoLocals
<1>18. CASE ListProcesses
  BY <1>18 DEF ListProcesses, Request, Return, Answer
<1>19. ASSUME NEW p \in Pids, SetThread(p)  PROVE ExitInv'
  BY <1>19 DEF SetThread, Request, Return, Answer
<1>20. ASSUME NEW p \in Pids, VAttach(p)  PROVE ExitInv'
  BY <1>20 DEF VAttach, Request, Return, Answer
<1>21. ASSUME NEW p \in Pids, Detach(p)  PROVE ExitInv'
  BY <1>21 DEF Detach, Request, Return, Answer
<1>22. ASSUME NEW p \in todo, DetachCheck(p)  PROVE ExitInv'
  BY <1>22 DEF DetachCheck
<1>23. ASSUME NEW p \in todo, ApplyAction(p)  PROVE ExitInv'
  BY <1>23 DEF ApplyAction, Raise
<1>24. ASSUME NEW p \in todo, LookAt(p)  PROVE ExitInv'
  <2>1. PICK seen \in Seen(p) : vCont_pending_statuses' = vCont_pending_statuses \o seen
    BY <1>24 DEF LookAt
  <2>2. pc = "look" /\ p \in debugging_threads /\ UNCHANGED <<pc, op, reply, exited>>
    BY <1>24 DEF LookAt
  <2>3. p \notin exited => state[process[p].core] # "reset"
    BY <2>2 DEF PidsInv, DebuggedKeepsPid, Intact
  <2>4. \/ seen = <<>> \/ seen = <<[kind |-> "T05", pid |-> p]>>
        \/ /\ p \in exited
           /\ \/ seen = <<[kind |-> "W00", pid |-> p]>>
              \/ seen = <<[kind |-> "W00", pid |-> p], [kind |-> "T05", pid |-> p]>>
    BY <2>1, <2>3, Zenon DEF Seen
  <2>5. seen \in Seq([kind : {"W00", "T05"}, pid : Pids])
    <3>. DEFINE S == [kind : {"W00", "T05"}, pid : Pids]
                w == [kind |-> "W00", pid |-> p]
                t == [kind |-> "T05", pid |-> p]
    <3>1. w \in S /\ t \in S
      OBVIOUS
    <3>2. seen = <<>> \/ seen = <<t>> \/ seen = <<w>> \/ seen = <<w, t>>
      BY <2>4, Zenon
    <3>. HIDE DEF S, w, t
    <3>3. seen \in Seq(S)
      BY <3>1, <3>2, ShortSeq, Zenon
    <3>. QED  BY <3>3 DEF S
  <2>6. \A i \in 1..Len(seen) : seen[i].kind = "W00" => seen[i].pid \in exited
    <3>1. CASE seen = <<>>
      BY <3>1
    <3>2. CASE seen = <<[kind |-> "T05", pid |-> p]>>
      BY <3>2
    <3>3. CASE p \in exited /\ seen = <<[kind |-> "W00", pid |-> p]>>
      BY <3>3
    <3>4. CASE p \in exited /\ seen = <<[kind |-> "W00", pid |-> p], [kind |-> "T05", pid |-> p]>>
      BY <3>4
    <3>. QED  BY <2>4, <3>1, <3>2, <3>3, <3>4
  <2>7. vCont_pending_statuses \in Seq(Statuses)
    BY DEF TypeOK, TypeData
  <2>8. \A i \in 1..Len(vCont_pending_statuses') :
          vCont_pending_statuses'[i].kind = "W00" => vCont_pending_statuses'[i].pid \in exited
    BY <2>1, <2>2, <2>5, <2>6, <2>7
  <2>9. todo' \subseteq processes_to_watch'
    BY <1>24 DEF LookAt
  <2>. QED  BY <2>2, <2>8, <2>9
<1>25. ASSUME NEW p \in todo, HaltRest(p)  PROVE ExitInv'
  BY <1>25 DEF HaltRest
<1>26. ASSUME NEW c \in Cores, CoreStops(c)  PROVE ExitInv'
  BY <1>26 DEF CoreStops
<1>27. ASSUME NEW c \in Cores, OthersReset(c)  PROVE ExitInv'
  <2>1. exited \subseteq exited'
    BY <1>27 DEF OthersReset
  <2>. QED  BY <1>27, <2>1 DEF OthersReset
<1>28. ASSUME NEW c \in Cores, NEW e \in Elfs, OthersStart(c, e)  PROVE ExitInv'
  BY <1>28 DEF OthersStart
<1>29. ASSUME NEW actions \in [Pids -> Actions], VCont(actions)  PROVE ExitInv'
  <2>1. vCont_pending_statuses' = <<>> /\ UNCHANGED exited
    BY <1>29 DEF VCont, Request
  <2>2. CASE \E q \in debugging_threads \ last' : Return(Status("W00", q)) /\ UNCHANGED local
    <3>1. PICK q \in debugging_threads \ last' : Return(Status("W00", q))
      BY <2>2
    <3>2. q \in exited
      BY <1>29, <3>1, DebuggedKept DEF VCont, Request
    <3>. QED  BY <2>1, <3>1, <3>2 DEF Return, Answer
  <2>3. CASE pc' = "apply" /\ UNCHANGED reply
    <3>1. pc = "read"
      BY <1>29 DEF VCont, Request
    <3>. QED  BY <2>1, <2>3, <3>1
  <2>. QED  BY <1>29, <2>2, <2>3 DEF VCont
<1>30. CASE UNCHANGED vars
  BY <1>30 DEF vars
<1>31. \A actions \in [debugging_threads -> Actions] :
         [p \in Pids |-> IF p \in debugging_threads THEN actions[p] ELSE "unchanged"]
           \in [Pids -> Actions]
  BY DEF Actions
<1>. QED  BY <1>1, <1>2, <1>3, <1>4, <1>5, <1>6, <1>7, <1>8, <1>9, <1>10, <1>11, <1>12, <1>13,
             <1>14, <1>15, <1>16, <1>17, <1>18, <1>19, <1>20, <1>21, <1>22, <1>23, <1>24,
             <1>25, <1>26, <1>27, <1>28, <1>29, <1>30, <1>31 DEF Next, ClientRequest,
             ThreadStep, Environment

\* A detach releases every process it has taken up, but for those whose core
\* is reset meanwhile.
LEMMA FreedStep ==
  ASSUME TypeOK, PidsInv, HeldInv, FreedInv, [Next]_vars
  PROVE  FreedInv'
<1>. USE PidsOK DEF HeldInv, HeldDetaching, FreedInv, DetachReleases, Released, Core, Status, chip,
        ids, session, local, history
<1>1. CASE StopAccepting \/ ReadEnd \/ StrayBreak \/ Connect \/ Disconnect \/ SendBreak \/
          GdbStop \/ Joined
  BY <1>1 DEF StopAccepting, ReadEnd, StrayBreak, Connect, Disconnect, SendBreak, GdbStop,
     Joined, CloseClient, Intact
<1>2. CASE Accept
  BY <1>2 DEF Accept, NewSession
<1>3. CASE CheckStop
  BY <1>3 DEF CheckStop, CloseClient, NoLocals
<1>4. CASE InsertWatchpoint
  BY <1>4 DEF InsertWatchpoint, Return, Raise, Answer
<1>5. CASE RequestFails
  BY <1>5 DEF RequestFails, Request, Raise
<1>6. CASE VContPending
  BY <1>6 DEF VContPending, Request, Return, Answer
<1>7. CASE AttachHalt
  BY <1>7 DEF AttachHalt, Return, Answer
<1>8. CASE DetachAll
  BY <1>8 DEF DetachAll, Request, PidsInv, DebuggedKeepsPid, Intact
<1>9. CASE DetachDisarm
  <2>1. CASE state[Core(focus)] = "reset"
    <3>1. pc' = "loop" /\ reply'.kind = "nak"
      BY <1>9, <2>1 DEF DetachDisarm, Raise
    <3>. QED  BY <3>1
  <2>2. CASE state[Core(focus)] # "reset"
    <3>1. /\ pc' = "detach_release"
          /\ \A b \in Cores : armed'[b] => armed[b]
          /\ ~armed'[Core(focus)]
          /\ UNCHANGED <<state, elf, process, last, freed, exited, focus, todo>>
      BY <1>9, <2>2, CoresOfPids DEF DetachDisarm, TypeOK, TypeIds
    <3>. QED  BY <1>9, <3>1, CoresOfPids DEF DetachDisarm, Intact
  <2>. QED  BY <2>1, <2>2
<1>10. CASE DetachRelease
  <2>1. CASE state[Core(focus)] = "reset"
    <3>1. pc' = "loop" /\ reply'.kind = "nak"
      BY <1>10, <2>1 DEF DetachRelease, Raise
    <3>. QED  BY <3>1
  <2>2. CASE state[Core(focus)] # "reset"
    <3>1. /\ pc' = "detach_check"
          /\ \A b \in Cores \ {Core(focus)} : state'[b] = state[b]
          /\ state'[Core(focus)] = "running"
          /\ UNCHANGED <<armed, elf, process, last, freed, exited, focus, todo>>
      BY <1>10, <2>2, CoresOfPids DEF DetachRelease, TypeOK, TypeIds
    <3>2. ASSUME NEW q \in freed \ exited
          PROVE  Intact(q)' /\ (q \in todo' \/ Released(q)')
      <4>1. Intact(q) /\ (q \in todo \/ Released(q) \/ q = focus) /\ Core(q) \in Cores
        BY <1>10, <3>2, CoresOfPids DEF DetachRelease, Intact
      <4>2. q = focus => ~armed[Core(q)]
        BY <1>10, <3>2 DEF DetachRelease
      <4>. QED  BY <3>1, <4>1, <4>2 DEF Intact
    <3>. QED  BY <3>1, <3>2
  <2>. QED  BY <2>1, <2>2
<1>11. CASE DetachDone
  BY <1>11 DEF DetachDone, Return, Answer
<1>12. CASE ApplyDone
  BY <1>12 DEF ApplyDone
<1>13. CASE WatchAgain
  BY <1>13 DEF WatchAgain
<1>14. CASE RoundDone
  BY <1>14 DEF RoundDone
<1>15. CASE VContDone
  BY <1>15 DEF VContDone, Return, Answer, HeldRunning
<1>16. CASE AccessFails
  BY <1>16 DEF AccessFails, Return, Raise, Answer, Die
<1>17. CASE GdbStart
  BY <1>17 DEF GdbStart, NewSession, NoLocals
<1>18. CASE ListProcesses
  BY <1>18 DEF ListProcesses, Request, Return, Answer
<1>19. ASSUME NEW p \in Pids, SetThread(p)  PROVE FreedInv'
  BY <1>19 DEF SetThread, Request, Return, Answer
<1>20. ASSUME NEW p \in Pids, VAttach(p)  PROVE FreedInv'
  BY <1>20 DEF VAttach, Request, Return, Answer
<1>21. ASSUME NEW p \in Pids, Detach(p)  PROVE FreedInv'
  BY <1>21 DEF Detach, Request, Return, Answer, PidsInv, DebuggedKeepsPid, Intact
<1>22. ASSUME NEW p \in todo, DetachCheck(p)  PROVE FreedInv'
  <2>1. /\ pc = "detach_check" /\ todo' = todo \ {p}
        /\ UNCHANGED <<freed, exited, state, armed, op, reply>>
        /\ IF p \in last' THEN focus' = p /\ pc' = "detach_disarm" ELSE pc' = "detach_check"
    BY <1>22 DEF DetachCheck
  <2>2. ASSUME NEW q \in freed \ exited
        PROVE  Intact(q)' /\ process'[q] = process[q] /\ q \in last'
    BY <1>22, <2>1, <2>2, IntactKept DEF DetachCheck
  <2>3. pc' = "detach_check" => p \in exited \/ p \notin freed
    BY <2>1, <2>2
  <2>. QED  BY <2>1, <2>2, <2>3
<1>23. ASSUME NEW p \in todo, ApplyAction(p)  PROVE FreedInv'
  BY <1>23 DEF ApplyAction, Raise
<1>24. ASSUME NEW p \in todo, LookAt(p)  PROVE FreedInv'
  BY <1>24 DEF LookAt
<1>25. ASSUME NEW p \in todo, HaltRest(p)  PROVE FreedInv'
  BY <1>25 DEF HaltRest
<1>26. ASSUME NEW c \in Cores, CoreStops(c)  PROVE FreedInv'
  BY <1>26, CoresOfPids DEF CoreStops, Intact
<1>27. ASSUME NEW c \in Cores, OthersReset(c)  PROVE FreedInv'
  <2>1. /\ exited \subseteq exited'
        /\ \A b \in Cores \ {c} : state'[b] = state[b] /\ armed'[b] = armed[b]
        /\ state'[c] = "reset" /\ (armed'[c] => armed[c])
        /\ UNCHANGED <<pc, op, reply, freed, focus, todo, process, last, elf>>
    BY <1>27, CoresOfPids DEF OthersReset, TypeOK, TypeIds
  <2>2. ASSUME NEW q \in last, q \notin exited'  PROVE Core(q) \in Cores \ {c}
    <3>1. q \in Pids /\ q < next_pid
      BY DEF TypeOK, TypeIds
    <3>. QED  BY <1>27, <2>2, <3>1, CoresOfPids DEF OthersReset
  <2>3. \A q \in Pids : Released(q) => Released(q)'
    BY <2>1, CoresOfPids
  <2>4. ASSUME NEW q, Intact(q), q \notin exited'  PROVE Intact(q)'
    BY <2>1, <2>2, <2>4 DEF Intact
  <2>5. freed \subseteq Pids /\ freed \ exited' \subseteq freed \ exited
    BY <2>1 DEF TypeOK, TypeData
  <2>6. DetachReleases'
    BY <2>1, <2>3, <2>5
  <2>7. pc \in {"detach_check", "detach_disarm", "detach_release"} =>
          \A q \in freed \ exited' :
            /\ Intact(q)'
            /\ q \in todo \/ Released(q)' \/ (pc # "detach_check" /\ q = focus)
    BY <2>3, <2>4, <2>5
  <2>8. pc = "detach_release" => focus \in exited' \/ ~armed'[Core(focus)]
    <3>1. pc = "detach_release" => focus \in Pids
      BY DEF TypeOK, TypeData
    <3>. QED  BY <2>1, <3>1, CoresOfPids
  <2>. QED  BY <2>1, <2>6, <2>7, <2>8
<1>28. ASSUME NEW c \in Cores, NEW e \in Elfs, OthersStart(c, e)  PROVE FreedInv'
  BY <1>28, CoresOfPids DEF OthersStart, Intact
<1>29. ASSUME NEW actions \in [Pids -> Actions], VCont(actions)  PROVE FreedInv'
  BY <1>29 DEF VCont, Request, Return, Answer
<1>30. CASE UNCHANGED vars
  BY <1>30 DEF vars, Intact
<1>31. \A actions \in [debugging_threads -> Actions] :
         [p \in Pids |-> IF p \in debugging_threads THEN actions[p] ELSE "unchanged"]
           \in [Pids -> Actions]
  BY DEF Actions
<1>. QED  BY <1>1, <1>2, <1>3, <1>4, <1>5, <1>6, <1>7, <1>8, <1>9, <1>10, <1>11, <1>12, <1>13,
             <1>14, <1>15, <1>16, <1>17, <1>18, <1>19, <1>20, <1>21, <1>22, <1>23, <1>24,
             <1>25, <1>26, <1>27, <1>28, <1>29, <1>30, <1>31 DEF Next, ClientRequest,
             ThreadStep, Environment

---------------------------------------------------------------------------
(* Theorems.                                                               *)

\* Every reachable state satisfies the inductive invariant.
THEOREM Invariance == Spec => []IInv
<1>1. Init => IInv
  BY InitInv
<1>2. IInv /\ [Next]_vars => IInv'
  BY TypeIdsStep, TypeDataStep, TypeControlStep, PidsStep, HeldStep DEF IInv, PidsInv, TypeOK
<1>. QED  BY <1>1, <1>2, PTL DEF Spec

\* Type correctness: every variable keeps its type, and the ids that the
\* server has given out are below next_pid.
THEOREM TypeCorrect == Spec => []TypeOK
<1>1. IInv => TypeOK
  BY DEF IInv
<1>. QED  BY Invariance, <1>1, PTL

\* The id of a debugged process stays the id of its core, whatever other cores
\* and clients do, until the core is reset (GdbServer.available_processes).
THEOREM ProcessIdsAreStable == Spec => []DebuggedKeepsPid
<1>1. IInv => DebuggedKeepsPid
  BY DEF IInv, PidsInv
<1>. QED  BY Invariance, <1>1, PTL

\* All-stop: between two requests the debugged cores are halted, but for those
\* that were reset and those that a failed request has left (vAttach, vCont and
\* detach in GdbServer.process_message).
THEOREM CoresAreHeld == Spec => []HeldBetweenRequests
<1>1. IInv => HeldBetweenRequests
  BY DEF IInv, HeldInv, HeldWaiting, HeldBetweenRequests, Kept
<1>. QED  BY Invariance, <1>1, PTL

\* What the replies tell is an invariant, by the one above.
LEMMA ReplyInvariance == Spec => []ReplyInv
<1>1. Init => ReplyInv
  BY DEF Init, ReplyInv, ExitInv, ExitIsReal, FreedInv, DetachReleases, Status
<1>2. IInv /\ ReplyInv /\ [Next]_vars => ReplyInv'
  BY ExitStep, FreedStep DEF IInv, ReplyInv
<1>. QED  BY <1>1, <1>2, Invariance, PTL DEF Spec

\* vCont answers W00 only for a process whose core was reset: a core that ran
\* on, stopped or was skipped is never reported as exited.
THEOREM ExitsAreReal == Spec => []ExitIsReal
<1>1. ReplyInv => ExitIsReal
  BY DEF ReplyInv, ExitInv
<1>. QED  BY ReplyInvariance, <1>1, PTL

\* A detach answered with OK has released every core it was asked to: none is
\* left halted by the server or with a watchpoint armed, unless it was reset.
THEOREM DetachReleasesCores == Spec => []DetachReleases
<1>1. ReplyInv => DetachReleases
  BY DEF ReplyInv, FreedInv
<1>. QED  BY ReplyInvariance, <1>1, PTL
=============================================================================
