-------------------------- MODULE HostAccess_proofs --------------------------
(***************************************************************************)
(* Theorems about what the host does on the way to a device and with what  *)
(* it gets from there: which NOC an access goes over (NocFailover, for any *)
(* number of threads, devices and NOCs and any interleaving of accesses,   *)
(* go commands, hangs and recoveries), and what the functions of HostLogic *)
(* compute (for any jobs that satisfy its assumptions).                    *)
(*                                                                         *)
(* HostLogic's functions are recursive.  That such a function exists, and  *)
(* that it takes the values its definition gives, follows from a measure   *)
(* that falls with each call (RecursionDefines); what it computes then     *)
(* follows by induction over the measure (MeasureInduction) or over the    *)
(* numbers up to a bound (BoundedInduction), which are proved here from    *)
(* the cardinality of finite sets.                                         *)
(***************************************************************************)
EXTENDS NocFailover, HostLogic, FiniteSetTheorems, FunctionTheorems, SequenceTheorems,
        TLAPS

---------------------------------------------------------------------------
(* The rotation through available_nocs.                                    *)

\* Every position of the rotation is one of the device's NOCs.
LEMMA NocAtAvailable ==
  ASSUME NEW d \in Devices, NEW i \in Nat, i < 2 * NumNocs[d]
  PROVE  NocAt(d, i) \in available_nocs(d) /\ NocAt(d, i) \in Nocs
<1>1. NumNocs[d] \in Nat \ {0} /\ Available[d] \in [Indices(d) -> Nocs]
  BY AvailableAssumption DEF Indices
<1>2. (IF i < NumNocs[d] THEN i ELSE i - NumNocs[d]) \in Indices(d)
  BY <1>1 DEF Indices
<1>. QED  BY <1>1, <1>2 DEF NocAt, available_nocs

\* One turn of the rotation meets no NOC twice.
LEMMA NocAtDistinct ==
  ASSUME NEW d \in Devices, NEW s \in Indices(d), NEW j \in Indices(d), NEW k \in Indices(d),
         NocAt(d, s + j) = NocAt(d, s + k)
  PROVE  j = k
<1>. DEFINE at(i) == IF i < NumNocs[d] THEN i ELSE i - NumNocs[d]
<1>1. NumNocs[d] \in Nat \ {0}
  BY AvailableAssumption
<1>2. at(s + j) \in Indices(d) /\ at(s + k) \in Indices(d)
  BY <1>1 DEF Indices
<1>3. at(s + j) = at(s + k)
  BY <1>2, AvailableAssumption DEF NocAt, Indices
<1>. QED  BY <1>1, <1>3 DEF Indices

\* The NOC that follows is the first one exactly at the end of the turn.
LEMMA TurnEnds ==
  ASSUME NEW d \in Devices, NEW s \in Indices(d), NEW o \in Indices(d)
  PROVE  NocAt(d, s + o + 1) = NocAt(d, s) <=> o = NumNocs[d] - 1
<1>1. NumNocs[d] \in Nat \ {0}
  BY AvailableAssumption
<1>2. CASE o = NumNocs[d] - 1
  <2>1. NocAt(d, s + o + 1) = Available[d][s] /\ NocAt(d, s) = Available[d][s]
    BY <1>1, <1>2 DEF NocAt, Indices
  <2>. QED  BY <1>2, <2>1
<1>3. CASE o # NumNocs[d] - 1
  <2>1. o + 1 \in Indices(d) /\ 0 \in Indices(d) /\ s + 0 = s /\ s + o + 1 = s + (o + 1)
    BY <1>1, <1>3 DEF Indices
  <2>2. o + 1 # 0
    BY DEF Indices
  <2>. QED  BY <1>3, <2>1, <2>2, NocAtDistinct
<1>. QED  BY <1>2, <1>3

\* The NOCs at the first n positions of a turn from s.
Turn(d, s, n) == {NocAt(d, s + k) : k \in 0..(n - 1)}

\* A full turn is all the NOCs of the device.
LEMMA FullTurn ==
  ASSUME NEW d \in Devices, NEW s \in Indices(d)
  PROVE  Turn(d, s, NumNocs[d]) = available_nocs(d)
<1>1. NumNocs[d] \in Nat \ {0}
  BY AvailableAssumption
<1>2. Turn(d, s, NumNocs[d]) \subseteq available_nocs(d)
  <2>1. ASSUME NEW k \in 0..(NumNocs[d] - 1) PROVE NocAt(d, s + k) \in available_nocs(d)
    BY <1>1, NocAtAvailable DEF Indices
  <2>. QED  BY <2>1 DEF Turn
<1>3. ASSUME NEW i \in Indices(d) PROVE Available[d][i] \in Turn(d, s, NumNocs[d])
  <2>. DEFINE k == IF s <= i THEN i - s ELSE i - s + NumNocs[d]
  <2>1. k \in 0..(NumNocs[d] - 1) /\ NocAt(d, s + k) = Available[d][i]
    BY <1>1 DEF Indices, NocAt
  <2>. QED  BY <2>1 DEF Turn
<1>. QED  BY <1>2, <1>3 DEF available_nocs

\* The turn grows by the NOC at the next position.
LEMMA TurnGrows ==
  ASSUME NEW d \in Devices, NEW s \in Indices(d), NEW n \in Nat
  PROVE  Turn(d, s, n + 1) = Turn(d, s, n) \cup {NocAt(d, s + n)}
<1>1. 0..((n + 1) - 1) = (0..(n - 1)) \cup {n}
  OBVIOUS
<1>. QED  BY <1>1 DEF Turn
---------------------------------------------------------------------------
(* The inductive invariant.                                                *)

\* The loop of a failover has tried one stretch of the turn, and none of the
\* NOCs it tried has been healthy all along.
LoopOK(t) ==
  /\ pc[t] = "try" => tried[t] = IF selected[t] = NoNoc
                                THEN Turn(dev[t], start_index[t], offset[t]) ELSE {}
  /\ pc[t] = "try" /\ target[t] = "answers" => healthy[t] \cap tried[t] = {}

\* A failover that found a NOC is about to publish it.
PublishOK(t) ==
  pc[t] = "publish" =>
    /\ selected[t] = NoNoc /\ target[t] = "answers"
    /\ current_noc(t) \in tried[t]

GaveUpOK(t) ==
  pc[t] = "done" /\ op[t] = "access" /\ selected[t] = NoNoc /\ result[t] = "timeout" =>
    /\ tried[t] = available_nocs(dev[t])
    /\ target[t] = "answers" => healthy[t] \cap tried[t] = {}

HealthyOK(t) ==
  /\ healthy[t] \subseteq available_nocs(dev[t])
  /\ \A n \in healthy[t] : <<dev[t], n>> \notin hung

OperationOK(t) ==
  /\ pc[t] \in {"try", "publish", "notify"} => op[t] = "access"
  /\ pc[t] \in {"switch", "switched"} =>
       op[t] = "go" /\ selected[t] \in Nocs /\ switching[t] \in 1..NumDevices

ThreadOK(t) ==
  LoopOK(t) /\ PublishOK(t) /\ GaveUpOK(t) /\ HealthyOK(t) /\ OperationOK(t)

IInv == TypeOK /\ ActiveNocAvailable /\ \A t \in Threads : ThreadOK(t)

\* What ThreadOK says of a thread depends on its locals and on hung only.
LocalsKept(s) ==
  /\ hung' = hung
  /\ pc'[s] = pc[s] /\ op'[s] = op[s] /\ dev'[s] = dev[s]
  /\ selected'[s] = selected[s] /\ start_index'[s] = start_index[s]
  /\ offset'[s] = offset[s] /\ target'[s] = target[s]
  /\ switching'[s] = switching[s] /\ result'[s] = result[s]
  /\ tried'[s] = tried[s] /\ healthy'[s] = healthy[s]

LEMMA KeptThreadOK ==
  ASSUME NEW s \in Threads, ThreadOK(s), LocalsKept(s)
  PROVE  ThreadOK(s)'
BY DEF ThreadOK, LocalsKept, LoopOK, PublishOK, GaveUpOK, HealthyOK, OperationOK, current_noc

\* A step of one thread keeps the locals of the others.
LEMMA OthersKept ==
  ASSUME TypeOK, NEW t \in Threads, Start(t) \/ Continue(t), NEW s \in Threads, s # t,
         hung' = hung
  PROVE  LocalsKept(s)
<1>. USE DEF TypeOK, LocalsKept, locals, history, Goto, Finish, Attempted
<1>1. CASE Start(t)
  <2>1. ASSUME NEW d \in Devices, NEW noc, Access(t, d, noc) PROVE LocalsKept(s)
    BY <2>1 DEF Access
  <2>2. ASSUME NEW n \in Nocs, Go(t, n) PROVE LocalsKept(s)
    BY <2>2 DEF Go
  <2>. QED  BY <1>1, <2>1, <2>2
            DEF Start, DefaultAccess, LibraryAccess, ExplicitAccess, TelemetryAccess
<1>2. CASE AttemptSucceeds(t)  BY <1>2 DEF AttemptSucceeds
<1>3. CASE AttemptTimesOut(t)  BY <1>3 DEF AttemptTimesOut
<1>4. CASE AttemptFails(t)  BY <1>4 DEF AttemptFails
<1>5. CASE PublishActiveNoc(t)  BY <1>5 DEF PublishActiveNoc
<1>6. CASE NotifyFailover(t)  BY <1>6 DEF NotifyFailover
<1>7. CASE SwitchNoc(t)  BY <1>7 DEF SwitchNoc
<1>8. CASE NotifySwitch(t)  BY <1>8 DEF NotifySwitch
<1>9. CASE Return(t)  BY <1>9 DEF Return
<1>. QED  BY <1>1, <1>2, <1>3, <1>4, <1>5, <1>6, <1>7, <1>8, <1>9 DEF Continue

\* The NOC of the current attempt is always a NOC.
LEMMA CurrentNoc ==
  ASSUME TypeOK, NEW t \in Threads
  PROVE  /\ current_noc(t) \in Nocs
         /\ selected[t] = NoNoc => current_noc(t) \in available_nocs(dev[t])
<1>1. /\ dev[t] \in Devices /\ NumNocs[dev[t]] \in Nat \ {0}
      /\ start_index[t] \in Nat /\ offset[t] \in Nat
      /\ start_index[t] + offset[t] \in Nat
      /\ start_index[t] + offset[t] < 2 * NumNocs[dev[t]]
  BY AvailableAssumption DEF TypeOK
<1>. QED  BY <1>1, NocAtAvailable DEF TypeOK, current_noc

\* An access starts on the active NOC, whichever caller it comes from.
LEMMA AccessOK ==
  ASSUME IInv, NEW t \in Threads, NEW d \in Devices, NEW noc \in Nocs \cup {NoNoc},
         Access(t, d, noc)
  PROVE  TypeOK' /\ ActiveNocAvailable' /\ ThreadOK(t)'
<1>. USE DEF IInv, context, Goto
<1>1. NumNocs[d] \in Nat \ {0}
  BY AvailableAssumption
<1>2. available_nocs(d) \subseteq Nocs
  BY AvailableAssumption DEF available_nocs, Indices
<1>3. TypeOK'
  BY <1>1, <1>2 DEF Access, TypeOK, Steps, Operations, Targets, Indices
<1>4. ActiveNocAvailable'
  BY DEF Access, ActiveNocAvailable
<1>5. tried'[t] = {} /\ offset'[t] = 0 /\ pc'[t] = "try" /\ op'[t] = "access" /\ dev'[t] = d
  BY DEF Access, TypeOK
<1>6. LoopOK(t)'
  <2>1. Turn(d, start_index'[t], 0) = {}
    BY DEF Turn
  <2>. QED  BY <1>5, <2>1 DEF LoopOK
<1>7. HealthyOK(t)'
  BY <1>5 DEF Access, TypeOK, HealthyOK
<1>. QED  BY <1>3, <1>4, <1>5, <1>6, <1>7 DEF ThreadOK, PublishOK, GaveUpOK, OperationOK

\* The go command leaves every device on one of its own NOCs.
LEMMA GoOK ==
  ASSUME IInv, NEW t \in Threads, NEW n \in Nocs, Go(t, n)
  PROVE  TypeOK' /\ ActiveNocAvailable' /\ ThreadOK(t)'
<1>. USE DevicesAssumption DEF IInv, Goto, Finish, history
<1>1. TypeOK'
  <2>1. 1 \in 0..NumDevices
    OBVIOUS
  <2>2. CASE n = contextNoc
    BY <2>2 DEF Go, TypeOK, Steps, Operations, Results
  <2>3. CASE n # contextNoc
    BY <2>1, <2>3 DEF Go, TypeOK, Steps, Operations, Results
  <2>. QED  BY <2>2, <2>3
<1>2. ActiveNocAvailable'
  BY DEF Go, ActiveNocAvailable
<1>3. pc'[t] \in {"done", "switch"} /\ op'[t] = "go" /\ selected'[t] = n
      /\ (pc'[t] = "switch" => switching'[t] = 1)
  BY DEF Go, TypeOK
<1>4. HealthyOK(t)'
  BY DEF Go, TypeOK, ThreadOK, HealthyOK
<1>. QED  BY <1>1, <1>2, <1>3, <1>4 DEF ThreadOK, LoopOK, PublishOK, GaveUpOK, OperationOK

\* An attempt that times out extends the stretch of the turn by one NOC, and
\* that NOC was hung just now; the last one completes the turn.
LEMMA TimesOutOK ==
  ASSUME IInv, NEW t \in Threads, AttemptTimesOut(t)
  PROVE  TypeOK' /\ ActiveNocAvailable' /\ ThreadOK(t)'
<1>. USE DEF IInv, Goto, Finish, Attempted, context, locals
<1>. DEFINE d == dev[t]
            s == start_index[t]
            o == offset[t]
            last == selected[t] # NoNoc \/ next_noc(t) = start_noc(t)
<1>1. /\ d \in Devices /\ NumNocs[d] \in Nat \ {0}
      /\ s \in Indices(d) /\ o \in Indices(d) /\ o \in Nat
  BY AvailableAssumption DEF TypeOK, Indices
<1>2. current_noc(t) \in Nocs
  BY CurrentNoc
<1>3. selected[t] = NoNoc => (last <=> o = NumNocs[d] - 1)
  BY <1>1, TurnEnds DEF next_noc, start_noc
<1>4. tried'[t] = tried[t] \cup {current_noc(t)} /\ tried' \in [Threads -> SUBSET Nocs]
  BY <1>2 DEF AttemptTimesOut, TypeOK
<1>5. selected[t] = NoNoc => tried'[t] = Turn(d, s, o + 1)
  <2>1. Turn(d, s, o + 1) = Turn(d, s, o) \cup {NocAt(d, s + o)}
    BY <1>1, TurnGrows
  <2>2. selected[t] = NoNoc => tried[t] = Turn(d, s, o)
    BY DEF AttemptTimesOut, ThreadOK, LoopOK
  <2>. QED  BY <1>4, <2>1, <2>2 DEF current_noc
<1>6. target[t] = "answers" => healthy[t] \cap tried'[t] = {}
  BY <1>4 DEF AttemptTimesOut, ThreadOK, LoopOK, HealthyOK
<1>7. CASE last
  <2>1. TypeOK'
    BY <1>4, <1>7 DEF AttemptTimesOut, TypeOK, Steps, Results
  <2>2. ActiveNocAvailable'
    BY DEF AttemptTimesOut, ActiveNocAvailable
  <2>3. pc'[t] = "done" /\ UNCHANGED <<hung, healthy, dev, selected, target, op>>
    BY <1>7 DEF AttemptTimesOut, TypeOK
  <2>4. selected[t] = NoNoc => tried'[t] = available_nocs(d)
    BY <1>1, <1>3, <1>5, <1>7, FullTurn
  <2>5. GaveUpOK(t)'
    BY <1>6, <2>3, <2>4 DEF GaveUpOK
  <2>6. HealthyOK(t)'
    BY <2>3 DEF ThreadOK, HealthyOK
  <2>. QED  BY <2>1, <2>2, <2>3, <2>5, <2>6 DEF ThreadOK, LoopOK, PublishOK, OperationOK
<1>8. CASE ~last
  <2>1. o + 1 \in Indices(d) /\ selected[t] = NoNoc
    BY <1>1, <1>3, <1>8 DEF Indices
  <2>2. UNCHANGED <<pc, result, hung, healthy, dev, selected, target, op, start_index, switching>>
        /\ offset' = [offset EXCEPT ![t] = @ + 1]
    BY <1>8 DEF AttemptTimesOut
  <2>3. TypeOK'
    BY <1>1, <1>4, <2>1, <2>2 DEF AttemptTimesOut, TypeOK, Indices
  <2>4. ActiveNocAvailable'
    BY DEF AttemptTimesOut, ActiveNocAvailable
  <2>5. pc[t] = "try" /\ offset'[t] = o + 1
    BY <2>2 DEF AttemptTimesOut, TypeOK
  <2>6. LoopOK(t)'
    BY <1>5, <1>6, <2>1, <2>2, <2>5 DEF LoopOK
  <2>7. HealthyOK(t)' /\ OperationOK(t)'
    BY <2>2, <2>5 DEF ThreadOK, HealthyOK, OperationOK
  <2>. QED  BY <2>2, <2>3, <2>4, <2>5, <2>6, <2>7 DEF ThreadOK, PublishOK, GaveUpOK
<1>. QED  BY <1>7, <1>8

\* Every other step of a call.
LEMMA ContinueOK ==
  ASSUME IInv, NEW t \in Threads, Continue(t)
  PROVE  TypeOK' /\ ActiveNocAvailable' /\ ThreadOK(t)'
<1>. USE DEF IInv, Goto, Finish, context, locals
<1>1. current_noc(t) \in Nocs /\ (selected[t] = NoNoc => current_noc(t) \in available_nocs(dev[t]))
  BY CurrentNoc
<1>2. ThreadOK(t) /\ dev[t] \in Devices
  BY DEF TypeOK
<1>3. CASE AttemptSucceeds(t)
  <2>1. TypeOK' /\ ActiveNocAvailable'
    BY <1>1, <1>3 DEF AttemptSucceeds, Attempted, TypeOK, ActiveNocAvailable, Steps, Results
  <2>2. /\ UNCHANGED <<hung, healthy, dev, selected, target, op, start_index, offset, switching>>
        /\ pc[t] = "try" /\ target[t] = "answers"
        /\ current_noc(t) \in tried'[t]
        /\ \/ pc'[t] = "publish" /\ selected[t] = NoNoc
           \/ pc'[t] = "done" /\ result'[t] = "ok"
    BY <1>3 DEF AttemptSucceeds, Attempted, TypeOK
  <2>3. current_noc(t)' = current_noc(t)
    BY <2>2 DEF current_noc
  <2>. QED  BY <1>2, <2>1, <2>2, <2>3
            DEF ThreadOK, LoopOK, PublishOK, GaveUpOK, HealthyOK, OperationOK
<1>4. CASE AttemptTimesOut(t)
  BY <1>4, TimesOutOK
<1>5. CASE AttemptFails(t)
  <2>1. TypeOK' /\ ActiveNocAvailable'
    BY <1>1, <1>5 DEF AttemptFails, Attempted, TypeOK, ActiveNocAvailable, Steps, Results
  <2>2. /\ UNCHANGED <<hung, healthy, dev, selected, op>>
        /\ pc'[t] = "done" /\ result'[t] = "error"
    BY <1>5 DEF AttemptFails, TypeOK
  <2>. QED  BY <1>2, <2>1, <2>2 DEF ThreadOK, LoopOK, PublishOK, GaveUpOK, HealthyOK, OperationOK
<1>6. CASE PublishActiveNoc(t)
  <2>1. current_noc(t) \in available_nocs(dev[t])
    BY <1>1, <1>2, <1>6 DEF PublishActiveNoc, ThreadOK, PublishOK
  <2>2. TypeOK' /\ ActiveNocAvailable'
    BY <1>1, <1>2, <1>6, <2>1 DEF PublishActiveNoc, TypeOK, ActiveNocAvailable, Steps, history
  <2>3. UNCHANGED <<hung, healthy, dev, selected, op>> /\ pc[t] = "publish" /\ pc'[t] = "notify"
    BY <1>6 DEF PublishActiveNoc, TypeOK, history
  <2>. QED  BY <1>2, <2>2, <2>3 DEF ThreadOK, LoopOK, PublishOK, GaveUpOK, HealthyOK, OperationOK
<1>7. CASE NotifyFailover(t)
  <2>1. TypeOK' /\ ActiveNocAvailable'
    BY <1>2, <1>7 DEF NotifyFailover, TypeOK, ActiveNocAvailable, Steps, Results, history
  <2>2. UNCHANGED <<hung, healthy, dev, selected, op>> /\ pc'[t] = "done" /\ result'[t] = "ok"
    BY <1>7 DEF NotifyFailover, TypeOK, history
  <2>. QED  BY <1>2, <2>1, <2>2 DEF ThreadOK, LoopOK, PublishOK, GaveUpOK, HealthyOK, OperationOK
<1>8. CASE SwitchNoc(t)
  <2>1. /\ op[t] = "go" /\ selected[t] \in Nocs /\ switching[t] \in 1..NumDevices
        /\ DeviceAt[switching[t]] \in Devices
    BY <1>2, <1>8, DevicesAssumption DEF SwitchNoc, ThreadOK, OperationOK
  <2>2. TypeOK' /\ ActiveNocAvailable'
    BY <1>8, <2>1 DEF SwitchNoc, TypeOK, ActiveNocAvailable, Steps, Results, history
  <2>3. /\ UNCHANGED <<hung, healthy, dev, selected, op, switching>>
        /\ pc'[t] \in {"done", "switched"}
    BY <1>8 DEF SwitchNoc, TypeOK, history
  <2>. QED  BY <1>2, <2>1, <2>2, <2>3
            DEF ThreadOK, LoopOK, PublishOK, GaveUpOK, HealthyOK, OperationOK
<1>9. CASE NotifySwitch(t)
  <2>1. /\ op[t] = "go" /\ selected[t] \in Nocs /\ switching[t] \in 1..NumDevices
        /\ DeviceAt[switching[t]] \in Devices
    BY <1>2, <1>9, DevicesAssumption DEF NotifySwitch, ThreadOK, OperationOK
  <2>2. UNCHANGED <<hung, healthy, dev, selected, op, active_noc>>
    BY <1>9 DEF NotifySwitch, history
  <2>3. CASE switching[t] = NumDevices
    <3>1. TypeOK' /\ ActiveNocAvailable'
      BY <1>9, <2>1, <2>3 DEF NotifySwitch, TypeOK, ActiveNocAvailable, Steps, Results, history
    <3>2. pc'[t] = "done"
      BY <1>9, <2>3 DEF NotifySwitch, TypeOK
    <3>. QED  BY <1>2, <2>1, <2>2, <3>1, <3>2
              DEF ThreadOK, LoopOK, PublishOK, GaveUpOK, HealthyOK, OperationOK
  <2>4. CASE switching[t] # NumDevices
    <3>1. switching[t] + 1 \in 1..NumDevices /\ switching[t] + 1 \in 0..NumDevices
      BY <2>1, <2>4, DevicesAssumption
    <3>2. TypeOK' /\ ActiveNocAvailable'
      BY <1>9, <2>1, <2>4, <3>1 DEF NotifySwitch, TypeOK, ActiveNocAvailable, Steps, history
    <3>3. pc'[t] = "switch" /\ switching'[t] = switching[t] + 1
      BY <1>9, <2>4 DEF NotifySwitch, TypeOK
    <3>. QED  BY <1>2, <2>1, <2>2, <3>1, <3>2, <3>3
              DEF ThreadOK, LoopOK, PublishOK, GaveUpOK, HealthyOK, OperationOK
  <2>. QED  BY <2>3, <2>4
<1>10. CASE Return(t)
  <2>1. NumNocs[DeviceAt[1]] \in Nat \ {0} /\ DeviceAt[1] \in Devices
    BY DevicesAssumption, AvailableAssumption
  <2>2. TypeOK' /\ ActiveNocAvailable'
    BY <1>10, <2>1, DevicesAssumption
       DEF Return, TypeOK, ActiveNocAvailable, Steps, Operations, Targets, Results
  <2>3. pc'[t] = "idle" /\ healthy'[t] = {}
    BY <1>10 DEF Return, TypeOK
  <2>. QED  BY <2>2, <2>3 DEF ThreadOK, LoopOK, PublishOK, GaveUpOK, HealthyOK, OperationOK
<1>. QED  BY <1>3, <1>4, <1>5, <1>6, <1>7, <1>8, <1>9, <1>10 DEF Continue

---------------------------------------------------------------------------
(* The theorems.                                                           *)

LEMMA IInvInit == Init => IInv
<1>. SUFFICES ASSUME Init PROVE IInv
  OBVIOUS
<1>. USE DEF Init
<1>1. DeviceAt[1] \in Devices /\ NumNocs[DeviceAt[1]] \in Nat \ {0}
  BY DevicesAssumption, AvailableAssumption
<1>2. TypeOK
  BY <1>1, DevicesAssumption DEF TypeOK, Steps, Operations, Targets, Results
<1>3. ActiveNocAvailable
  BY DEF ActiveNocAvailable
<1>4. \A t \in Threads : ThreadOK(t)
  BY DEF ThreadOK, LoopOK, PublishOK, GaveUpOK, HealthyOK, OperationOK
<1>. QED  BY <1>2, <1>3, <1>4 DEF IInv

\* A call of any of the four kinds starts an access to a NOC or to none.
LEMMA StartOK ==
  ASSUME IInv, NEW t \in Threads, Start(t)
  PROVE  hung' = hung /\ TypeOK' /\ ActiveNocAvailable' /\ ThreadOK(t)'
<1>1. ASSUME NEW d \in Devices, NEW noc \in Nocs \cup {NoNoc}, Access(t, d, noc)
      PROVE  hung' = hung /\ TypeOK' /\ ActiveNocAvailable' /\ ThreadOK(t)'
  BY <1>1, AccessOK DEF Access
<1>2. ASSUME NEW n \in Nocs, Go(t, n)
      PROVE  hung' = hung /\ TypeOK' /\ ActiveNocAvailable' /\ ThreadOK(t)'
  BY <1>2, GoOK DEF Go
<1>3. contextNoc \in Nocs /\ initNoc \in Nocs
  BY DEF IInv, TypeOK
<1>4. \A d \in Devices : available_nocs(d) \subseteq Nocs
  BY AvailableAssumption DEF available_nocs, Indices
<1>. QED  BY <1>1, <1>2, <1>3, <1>4
          DEF Start, DefaultAccess, LibraryAccess, ExplicitAccess, TelemetryAccess

LEMMA ContinueKeepsHung ==
  ASSUME NEW t \in Threads, Continue(t)
  PROVE  hung' = hung
BY DEF Continue, AttemptSucceeds, AttemptTimesOut, AttemptFails, PublishActiveNoc,
       NotifyFailover, SwitchNoc, NotifySwitch, Return

LEMMA IInvNext == IInv /\ [Next]_vars => IInv'
<1>. SUFFICES ASSUME IInv, [Next]_vars PROVE IInv'
  OBVIOUS
<1>1. ASSUME NEW t \in Threads, Start(t) \/ Continue(t) PROVE IInv'
  <2>1. hung' = hung /\ TypeOK' /\ ActiveNocAvailable' /\ ThreadOK(t)'
    BY <1>1, StartOK, ContinueOK, ContinueKeepsHung
  <2>2. ASSUME NEW s \in Threads, s # t PROVE ThreadOK(s)'
    BY <1>1, <2>1, <2>2, OthersKept, KeptThreadOK DEF IInv
  <2>. QED  BY <2>1, <2>2 DEF IInv
<1>2. ASSUME NEW d \in Devices, NEW n \in available_nocs(d), NocHangs(d, n) PROVE IInv'
  <2>1. n \in Nocs
    BY AvailableAssumption DEF available_nocs, Indices
  <2>2. TypeOK' /\ ActiveNocAvailable'
    BY <1>2, <2>1 DEF IInv, TypeOK, ActiveNocAvailable, NocHangs, context, locals
  <2>3. ASSUME NEW s \in Threads PROVE ThreadOK(s)'
    <3>1. /\ UNCHANGED <<pc, op, dev, selected, start_index, offset, target, switching,
                         result, tried>>
          /\ healthy'[s] \subseteq healthy[s]
          /\ dev[s] = d => n \notin healthy'[s]
          /\ hung' = hung \cup {<<d, n>>}
      BY <1>2 DEF NocHangs, locals
    <3>2. ThreadOK(s)
      BY DEF IInv
    <3>3. HealthyOK(s)'
      BY <3>1, <3>2 DEF ThreadOK, HealthyOK
    <3>4. LoopOK(s)' /\ PublishOK(s)' /\ GaveUpOK(s)' /\ OperationOK(s)'
      BY <3>1, <3>2 DEF ThreadOK, LoopOK, PublishOK, GaveUpOK, OperationOK, current_noc
    <3>. QED  BY <3>3, <3>4 DEF ThreadOK
  <2>. QED  BY <2>2, <2>3 DEF IInv
<1>3. ASSUME NEW d \in Devices, NEW n \in available_nocs(d), NocRecovers(d, n) PROVE IInv'
  <2>1. TypeOK' /\ ActiveNocAvailable'
    BY <1>3 DEF IInv, TypeOK, ActiveNocAvailable, NocRecovers, context, locals, history
  <2>2. ASSUME NEW s \in Threads PROVE ThreadOK(s)'
    BY <1>3 DEF IInv, NocRecovers, locals, history, ThreadOK, LoopOK, PublishOK, GaveUpOK,
                HealthyOK, OperationOK, current_noc
  <2>. QED  BY <2>1, <2>2 DEF IInv
<1>4. CASE UNCHANGED vars
  <2>1. ASSUME NEW s \in Threads PROVE ThreadOK(s)'
    BY <1>4, KeptThreadOK DEF IInv, vars, locals, history, LocalsKept
  <2>. QED  BY <1>4, <2>1 DEF IInv, TypeOK, ActiveNocAvailable, vars, context, locals, history
<1>. QED  BY <1>1, <1>2, <1>3, <1>4 DEF Next

\* Type correctness, with the bounds that keep the rotation inside the list.
THEOREM TypeCorrect == Spec => []TypeOK
<1>1. IInv => TypeOK
  BY DEF IInv
<1>. QED  BY IInvInit, IInvNext, <1>1, PTL DEF Spec

\* No failover and no go command, however they interleave and fail halfway,
\* leaves a device on a NOC that it does not have.
THEOREM ActiveNocIsAvailable == Spec => []ActiveNocAvailable
<1>1. IInv => ActiveNocAvailable
  BY DEF IInv
<1>. QED  BY IInvInit, IInvNext, <1>1, PTL DEF Spec

\* The failover loop repeats the operation on no NOC.
THEOREM NocsTriedAtMostOnce == Spec => []TriedAtMostOnce
<1>1. IInv => TriedAtMostOnce
  <2>. SUFFICES ASSUME IInv, NEW t \in Threads, pc[t] = "try"
                PROVE  current_noc(t) \notin tried[t]
    BY DEF TriedAtMostOnce
  <2>. DEFINE d == dev[t]
              s == start_index[t]
              o == offset[t]
  <2>1. /\ d \in Devices /\ NumNocs[d] \in Nat \ {0}
        /\ s \in Indices(d) /\ o \in Indices(d)
    BY AvailableAssumption DEF IInv, TypeOK, Indices
  <2>2. ThreadOK(t)
    BY DEF IInv
  <2>3. CASE selected[t] # NoNoc
    BY <2>2, <2>3 DEF ThreadOK, LoopOK
  <2>4. CASE selected[t] = NoNoc
    <3>1. tried[t] = Turn(d, s, o) /\ current_noc(t) = NocAt(d, s + o)
      BY <2>2, <2>4 DEF ThreadOK, LoopOK, current_noc
    <3>2. ASSUME NEW k \in 0..(o - 1) PROVE NocAt(d, s + k) # NocAt(d, s + o)
      <4>1. k \in Indices(d) /\ k # o
        BY <2>1 DEF Indices
      <4>. QED  BY <2>1, <4>1, NocAtDistinct
    <3>. QED  BY <3>1, <3>2 DEF Turn
  <2>. QED  BY <2>3, <2>4
<1>. QED  BY IInvInit, IInvNext, <1>1, PTL DEF Spec

\* A failover gives up only when every NOC of the device has been tried and
\* every one of them has hung at some time during the access.
THEOREM FailoverFindsHealthyNoc == Spec => []HealthyNocFound
<1>1. IInv => HealthyNocFound
  BY DEF IInv, HealthyNocFound, ThreadOK, GaveUpOK, HealthyOK
<1>. QED  BY IInvInit, IInvNext, <1>1, PTL DEF Spec

\* The active NOC moves only to a NOC that was asked for or has answered.
THEOREM ActiveNocMovesToAnswer == Spec => ActiveNocAnswered
<1>. DEFINE A == \A d \in Devices :
                   active_noc'[d] # active_noc[d] =>
                     \E t \in Threads :
                       \/ op[t] = "go" /\ selected[t] = active_noc'[d]
                       \/ /\ op[t] = "access" /\ dev[t] = d /\ selected[t] = NoNoc
                          /\ target[t] = "answers" /\ active_noc'[d] \in tried[t]
<1>1. IInv /\ [Next]_vars => [A]_vars
  <2>. SUFFICES ASSUME IInv, Next PROVE A
    OBVIOUS
  <2>1. ASSUME NEW t \in Threads, PublishActiveNoc(t) PROVE A
    <3>1. active_noc' = [active_noc EXCEPT ![dev[t]] = current_noc(t)]
      BY <2>1 DEF PublishActiveNoc
    <3>2. /\ op[t] = "access" /\ selected[t] = NoNoc /\ target[t] = "answers"
          /\ current_noc(t) \in tried[t]
      BY <2>1 DEF PublishActiveNoc, IInv, ThreadOK, PublishOK, OperationOK
    <3>. QED  BY <3>1, <3>2 DEF IInv, TypeOK
  <2>2. ASSUME NEW t \in Threads, SwitchNoc(t) PROVE A
    <3>1. \/ active_noc' = active_noc
          \/ active_noc' = [active_noc EXCEPT ![DeviceAt[switching[t]]] = selected[t]]
      BY <2>2 DEF SwitchNoc
    <3>2. op[t] = "go"
      BY <2>2 DEF SwitchNoc, IInv, ThreadOK, OperationOK
    <3>. QED  BY <3>1, <3>2 DEF IInv, TypeOK
  <2>3. ASSUME NEW t \in Threads, Start(t) PROVE active_noc' = active_noc
    BY <2>3 DEF Start, DefaultAccess, LibraryAccess, ExplicitAccess, TelemetryAccess, Access, Go
  <2>4. ASSUME NEW t \in Threads, Continue(t), ~PublishActiveNoc(t), ~SwitchNoc(t)
        PROVE  active_noc' = active_noc
    BY <2>4 DEF Continue, AttemptSucceeds, AttemptTimesOut, AttemptFails, NotifyFailover,
                NotifySwitch, Return
  <2>5. ASSUME NEW d \in Devices, NEW n \in available_nocs(d),
               NocHangs(d, n) \/ NocRecovers(d, n)
        PROVE  active_noc' = active_noc
    BY <2>5 DEF NocHangs, NocRecovers
  <2>. QED  BY <2>1, <2>2, <2>3, <2>4, <2>5 DEF Next
<1>. QED  BY IInvInit, IInvNext, <1>1, PTL DEF Spec, ActiveNocAnswered

---------------------------------------------------------------------------
(* The prompt.                                                             *)

\* Thread t has moved the active NOC of device d and owes the callback for it.
OwesCallback(t, d) ==
  \/ pc[t] = "notify" /\ dev[t] = d
  \/ pc[t] = "switched" /\ DeviceAt[switching[t]] = d

PromptInv == \A d \in Devices : shown[d] = active_noc[d] \/ \E t \in Threads : OwesCallback(t, d)

\* A step of one thread leaves the debts of the others alone.
LEMMA OthersOwe ==
  ASSUME TypeOK, NEW t \in Threads, Start(t) \/ Continue(t), NEW s \in Threads, s # t,
         NEW d \in Devices
  PROVE  OwesCallback(s, d)' <=> OwesCallback(s, d)
<1>1. pc'[s] = pc[s] /\ dev'[s] = dev[s] /\ switching'[s] = switching[s]
  <2>1. CASE Start(t)
    BY <2>1 DEF TypeOK, Start, DefaultAccess, LibraryAccess, ExplicitAccess, TelemetryAccess, Access,
                Go, Goto, Finish
  <2>2. CASE Continue(t)
    BY <2>2 DEF TypeOK, Continue, AttemptSucceeds, AttemptTimesOut, AttemptFails, PublishActiveNoc,
                NotifyFailover, SwitchNoc, NotifySwitch, Return, Goto, Finish, locals
  <2>. QED  BY <2>1, <2>2
<1>. QED  BY <1>1 DEF OwesCallback

\* The callback is called by the thread that moved the NOC, and shows the NOC
\* that is active by then.
LEMMA PromptStep == IInv /\ PromptInv /\ [Next]_vars => PromptInv'
<1>. SUFFICES ASSUME IInv, PromptInv, [Next]_vars, NEW d \in Devices
              PROVE  shown'[d] = active_noc'[d] \/ \E t \in Threads : OwesCallback(t, d)'
  BY DEF PromptInv
<1>. USE DEF IInv
<1>1. shown[d] = active_noc[d] \/ \E t \in Threads : OwesCallback(t, d)
  BY DEF PromptInv
<1>2. ASSUME NEW t \in Threads, Start(t) \/ Continue(t),
             UNCHANGED <<active_noc, shown>>, ~OwesCallback(t, d)
      PROVE  shown'[d] = active_noc'[d] \/ \E s \in Threads : OwesCallback(s, d)'
  BY <1>1, <1>2, OthersOwe
<1>3. ASSUME NEW t \in Threads, PublishActiveNoc(t)
      PROVE  shown'[d] = active_noc'[d] \/ \E s \in Threads : OwesCallback(s, d)'
  <2>1. CASE d = dev[t]
    BY <1>3, <2>1 DEF PublishActiveNoc, Goto, OwesCallback, TypeOK, locals
  <2>2. CASE d # dev[t]
    <3>1. active_noc'[d] = active_noc[d] /\ shown'[d] = shown[d]
      BY <1>3, <2>2 DEF PublishActiveNoc, TypeOK
    <3>2. ~OwesCallback(t, d)
      BY <1>3 DEF PublishActiveNoc, OwesCallback
    <3>. QED  BY <1>1, <1>3, <3>1, <3>2, OthersOwe DEF Continue
  <2>. QED  BY <2>1, <2>2
<1>4. ASSUME NEW t \in Threads, NotifyFailover(t)
      PROVE  shown'[d] = active_noc'[d] \/ \E s \in Threads : OwesCallback(s, d)'
  <2>1. CASE d = dev[t]
    BY <1>4, <2>1 DEF NotifyFailover, TypeOK
  <2>2. CASE d # dev[t]
    <3>1. active_noc'[d] = active_noc[d] /\ shown'[d] = shown[d]
      BY <1>4, <2>2 DEF NotifyFailover, TypeOK
    <3>2. ~OwesCallback(t, d)
      BY <1>4, <2>2 DEF NotifyFailover, OwesCallback
    <3>. QED  BY <1>1, <1>4, <3>1, <3>2, OthersOwe DEF Continue
  <2>. QED  BY <2>1, <2>2
<1>5. ASSUME NEW t \in Threads, SwitchNoc(t)
      PROVE  shown'[d] = active_noc'[d] \/ \E s \in Threads : OwesCallback(s, d)'
  <2>1. CASE pc'[t] = "switched" /\ d = DeviceAt[switching[t]]
    BY <1>5, <2>1 DEF SwitchNoc, OwesCallback, locals
  <2>2. CASE ~(pc'[t] = "switched" /\ d = DeviceAt[switching[t]])
    <3>1. active_noc'[d] = active_noc[d] /\ shown'[d] = shown[d]
      BY <1>5, <2>2 DEF SwitchNoc, Goto, TypeOK
    <3>2. ~OwesCallback(t, d)
      BY <1>5 DEF SwitchNoc, OwesCallback
    <3>. QED  BY <1>1, <1>5, <3>1, <3>2, OthersOwe DEF Continue
  <2>. QED  BY <2>1, <2>2
<1>6. ASSUME NEW t \in Threads, NotifySwitch(t)
      PROVE  shown'[d] = active_noc'[d] \/ \E s \in Threads : OwesCallback(s, d)'
  <2>1. CASE d = DeviceAt[switching[t]]
    BY <1>6, <2>1 DEF NotifySwitch, TypeOK
  <2>2. CASE d # DeviceAt[switching[t]]
    <3>1. active_noc'[d] = active_noc[d] /\ shown'[d] = shown[d]
      BY <1>6, <2>2 DEF NotifySwitch, TypeOK
    <3>2. ~OwesCallback(t, d)
      BY <1>6, <2>2 DEF NotifySwitch, OwesCallback
    <3>. QED  BY <1>1, <1>6, <3>1, <3>2, OthersOwe DEF Continue
  <2>. QED  BY <2>1, <2>2
<1>7. ASSUME NEW t \in Threads, Start(t)
      PROVE  shown'[d] = active_noc'[d] \/ \E s \in Threads : OwesCallback(s, d)'
  <2>1. UNCHANGED <<active_noc, shown>> /\ pc[t] = "idle"
    BY <1>7 DEF Start, DefaultAccess, LibraryAccess, ExplicitAccess, TelemetryAccess, Access, Go
  <2>. QED  BY <1>2, <1>7, <2>1 DEF OwesCallback
<1>8. ASSUME NEW t \in Threads,
             AttemptSucceeds(t) \/ AttemptTimesOut(t) \/ AttemptFails(t) \/ Return(t)
      PROVE  shown'[d] = active_noc'[d] \/ \E s \in Threads : OwesCallback(s, d)'
  <2>1. UNCHANGED <<active_noc, shown>> /\ pc[t] \in {"try", "done"}
    BY <1>8 DEF AttemptSucceeds, AttemptTimesOut, AttemptFails, Return
  <2>. QED  BY <1>2, <1>8, <2>1 DEF Continue, OwesCallback
<1>9. ASSUME NEW e \in Devices, NEW n \in available_nocs(e), NocHangs(e, n) \/ NocRecovers(e, n)
      PROVE  shown'[d] = active_noc'[d] \/ \E s \in Threads : OwesCallback(s, d)'
  BY <1>1, <1>9 DEF NocHangs, NocRecovers, OwesCallback, locals
<1>10. CASE UNCHANGED vars
  BY <1>1, <1>10 DEF vars, OwesCallback, locals
<1>. QED  BY <1>3, <1>4, <1>5, <1>6, <1>7, <1>8, <1>9, <1>10 DEF Next, Continue

\* When no callback is owed the prompt shows the NOC that the device uses,
\* however failovers and go commands of several threads have crossed.
THEOREM PromptIsCurrent == Spec => []PromptShowsActiveNoc
<1>1. Init => PromptInv
  BY DEF Init, PromptInv
<1>2. PromptInv => PromptShowsActiveNoc
  BY DEF PromptInv, OwesCallback, PromptShowsActiveNoc
<1>. QED  BY IInvInit, IInvNext, PromptStep, <1>1, <1>2, PTL DEF Spec

---------------------------------------------------------------------------
(* Induction.                                                              *)

\* Otherwise n \notin S, and x + 1 is an injection of the elements of S up to
\* n, which are finitely many, into those of them that are not 0.
LEMMA Induction ==
  ASSUME NEW S \in SUBSET Nat, 0 \in S, \A n \in S : n + 1 \in S
  PROVE  S = Nat
<1>1. SUFFICES ASSUME NEW n \in Nat, n \notin S PROVE FALSE
  OBVIOUS
<1>. DEFINE X == {x \in S : x <= n}
            next == [x \in X |-> x + 1]
<1>2. \A x \in X : x + 1 \in X \ {0}
  BY <1>1
<1>3. IsFiniteSet(X) /\ 0 \in X
  <2>1. X \in SUBSET Nat /\ \A x \in X : x <= n
    OBVIOUS
  <2>2. IsFiniteSet(X)
    BY <1>1, <2>1, FS_BoundedSetOfNaturals
  <2>. QED  BY <2>2, <1>1
<1>4. IsFiniteSet(X \ {0}) /\ Cardinality(X \ {0}) < Cardinality(X)
  <2>1. Cardinality(X) \in Nat
    BY <1>3, FS_CardinalityType
  <2>2. IsFiniteSet(X \ {0}) /\ Cardinality(X \ {0}) = Cardinality(X) - 1
    BY <1>3, FS_RemoveElement
  <2>. QED  BY <2>1, <2>2
<1>5. next \in [X -> X \ {0}]
  BY <1>2
<1>6. \E x, y \in X : x # y /\ next[x] = next[y]
  <2>. HIDE DEF X, next
  <2>. QED  BY <1>3, <1>4, <1>5, FS_PigeonHole
<1>. QED  BY <1>6

\* Up to a bound.
LEMMA BoundedInduction ==
  ASSUME NEW n \in Nat, NEW S, 0 \in S, \A m \in 0..(n - 1) : m \in S => m + 1 \in S
  PROVE  0..n \subseteq S
<1>. DEFINE X == {m \in Nat : m <= n => m \in S}
<1>1. X \in SUBSET Nat /\ 0 \in X
  OBVIOUS
<1>2. ASSUME NEW m \in X  PROVE m + 1 \in X
  OBVIOUS
<1>3. X = Nat
  <2>. HIDE DEF X
  <2>. QED  BY <1>1, <1>2, Induction
<1>. QED  BY <1>3

\* A set of naturals that is not empty has a least element.
LEMMA LeastNatural ==
  ASSUME NEW T, T \subseteq Nat, T # {}
  PROVE  \E m \in T : \A k \in T : m <= k
<1>. SUFFICES ASSUME \A m \in T : \E k \in T : ~(m <= k) PROVE FALSE
  OBVIOUS
<1>. DEFINE S == {n \in Nat : \A m \in 0..n : m \notin T}
<1>1. 0 \in S
  BY SMT
<1>2. ASSUME NEW n \in S PROVE n + 1 \in S
  <2>1. n \in Nat /\ \A k \in T : k > n
    BY <1>2
  <2>2. n + 1 \notin T
    <3>. SUFFICES ASSUME n + 1 \in T PROVE FALSE
      OBVIOUS
    <3>1. PICK k \in T : ~(n + 1 <= k)
      OBVIOUS
    <3>. QED  BY <2>1, <3>1
  <2>. QED  BY <2>1, <2>2
<1>3. S = Nat
  <2>. HIDE DEF S
  <2>. QED  BY <1>1, <1>2, Induction DEF S
<1>4. PICK m \in T : TRUE
  OBVIOUS
<1>. QED  BY <1>3, <1>4

---------------------------------------------------------------------------
(* A job and its answer.                                                   *)

JobOf(kind) == job.kind = kind /\ job.call \in JobsOf(kind)
JobInv == \E kind \in Kinds : JobOf(kind)

LEMMA JobInit == HostInit => JobInv /\ ~answer.done
<1>. SUFFICES ASSUME HostInit PROVE JobInv /\ ~answer.done
  OBVIOUS
<1>1. PICK kind \in Kinds : \E call \in JobsOf(kind) : job = [kind |-> kind, call |-> call]
  BY DEF HostInit
<1>2. JobOf(kind)
  BY <1>1 DEF JobOf
<1>. QED  BY <1>2 DEF HostInit, JobInv

\* The job stays what it is, and is answered once, by the action of its kind.
LEMMA JobStep ==
  ASSUME JobInv, [HostNext]_hostVars
  PROVE  /\ JobInv' /\ job' = job
         /\ \/ answer' = answer
            \/ /\ answer'.done
               /\ \/ AccessBytes /\ JobOf("access")
                  \/ Check /\ JobOf("check")
                  \/ SearchMemory /\ JobOf("search")
                  \/ Encode /\ JobOf("code")
                  \/ Register /\ JobOf("register")
                  \/ Load /\ JobOf("load")
                  \/ Signal /\ JobOf("signal")
<1>1. PICK kind \in Kinds : JobOf(kind)
  BY DEF JobInv
<1>2. ASSUME NEW k, Is(k) PROVE JobOf(k)
  BY <1>1, <1>2 DEF Is, JobOf
<1>3. ASSUME NEW value, Answer(value) PROVE answer'.done /\ job' = job
  BY <1>3 DEF Answer
<1>4. JobInv' <=> \E k \in Kinds : JobOf(k)'
  BY DEF JobInv
<1>5. ASSUME job' = job PROVE JobInv'
  BY <1>1, <1>4, <1>5 DEF JobOf
<1>6. CASE AccessBytes
  <2>. DEFINE changes == IF c.umd THEN UmdChanges(c.address, c.data)
                                  ELSE RiscChanges(c.address, c.data)
  <2>1. Is("access") /\ \E value : Answer(value)
    BY <1>6 DEF AccessBytes
  <2>. QED  BY <1>2, <1>3, <1>5, <1>6, <2>1
<1>7. CASE Check
  <2>1. Is("check") /\ \E value : Answer(value)
    BY <1>7 DEF Check
  <2>. QED  BY <1>2, <1>3, <1>5, <1>7, <2>1
<1>8. CASE SearchMemory
  <2>1. Is("search") /\ \E value : Answer(value)
    BY <1>8 DEF SearchMemory
  <2>. QED  BY <1>2, <1>3, <1>5, <1>8, <2>1
<1>9. CASE Encode
  <2>1. Is("code") /\ \E value : Answer(value)
    BY <1>9 DEF Encode
  <2>. QED  BY <1>2, <1>3, <1>5, <1>9, <2>1
<1>10. CASE Register
  <2>1. Is("register") /\ \E value : Answer(value)
    BY <1>10 DEF Register
  <2>. QED  BY <1>2, <1>3, <1>5, <1>10, <2>1
<1>11. CASE Load
  <2>1. Is("load") /\ \E value : Answer(value)
    BY <1>11 DEF Load
  <2>. QED  BY <1>2, <1>3, <1>5, <1>11, <2>1
<1>12. CASE Signal
  <2>1. Is("signal") /\ \E value : Answer(value)
    BY <1>12 DEF Signal
  <2>. QED  BY <1>2, <1>3, <1>5, <1>12, <2>1
<1>13. CASE UNCHANGED hostVars
  BY <1>5, <1>13 DEF hostVars
<1>. QED  BY <1>6, <1>7, <1>8, <1>9, <1>10, <1>11, <1>12, <1>13 DEF HostNext

---------------------------------------------------------------------------
(* Registers.                                                              *)

\* What is moved up is there when it is moved down.
LEMMA DownUp ==
  ASSUME NEW bits, bits \subseteq Nat, NEW shift \in Nat
  PROVE  Down(Up(bits, shift), shift) = bits
<1>1. \A b \in bits : b \in Down(Up(bits, shift), shift)
  <2>. SUFFICES ASSUME NEW b \in bits PROVE b \in Down(Up(bits, shift), shift)
    OBVIOUS
  <2>1. b + shift \in Up(bits, shift) /\ b + shift >= shift /\ (b + shift) - shift = b
    BY DEF Up
  <2>. QED  BY <2>1 DEF Down
<1>2. \A b \in Down(Up(bits, shift), shift) : b \in bits
  BY DEF Down, Up
<1>. QED  BY <1>1, <1>2

\* The answer of a register job: the register reads back, and no other bit of
\* its word and no other word has changed.
LEMMA RegisterAnswer ==
  ASSUME NEW x \in RegisterJobs, ~Refused(x.register, x.value)
  PROVE  LET written == WriteRegister(x.hardware, x.register, x.value, x.whole)
             read    == ReadRegister(written, x.register)
         IN /\ read.value = x.value
            /\ written.words[x.register.index] \ x.register.mask
                 = x.hardware.words[x.register.index] \ x.register.mask
            /\ \A i \in DOMAIN x.hardware.words \ {x.register.index} :
                 read.hardware.words[i] = x.hardware.words[i]
<1>. DEFINE r == x.register
            h == x.hardware
            new == IF r.mask = x.whole THEN x.value ELSE Merge(h.words[r.index], r, x.value)
            written == WriteRegister(h, r, x.value, x.whole)
            read == ReadRegister(written, r)
<1>1. /\ h \in [words : [DOMAIN h.words -> SUBSET Nat], selected : Nat]
      /\ r.index \in DOMAIN h.words /\ r.mask \subseteq Nat /\ r.shift \in Nat
      /\ x.value \subseteq Nat /\ (r.mask = x.whole => r.shift = 0)
  BY RegisterJobsAssumption
<1>2. Up(x.value, r.shift) \subseteq r.mask
  BY DEF Refused
<1>3. new \cap r.mask = Up(x.value, r.shift) /\ new \ r.mask = h.words[r.index] \ r.mask
  <2>1. CASE r.mask = x.whole
    <3>1. Up(x.value, r.shift) = x.value
      BY <1>1, <2>1 DEF Up
    <3>2. h.words[r.index] \subseteq r.mask
      BY <2>1, RegisterJobsAssumption
    <3>. QED  BY <1>2, <2>1, <3>1, <3>2
  <2>2. CASE r.mask # x.whole
    BY <1>2, <2>2 DEF Merge
  <2>. QED  BY <2>1, <2>2
<1>4. /\ written.words = [h.words EXCEPT ![r.index] = new]
      /\ written = [words |-> written.words, selected |-> h.selected]
  BY <1>1 DEF WriteRegister
<1>5. read.value = Down(new \cap r.mask, r.shift) /\ read.hardware.words = written.words
  BY <1>1, <1>4 DEF ReadRegister, ReadPath, Select, Word_
<1>6. read.value = x.value
  BY <1>1, <1>3, <1>5, DownUp
<1>. QED  BY <1>1, <1>3, <1>4, <1>5, <1>6

\* A register that accepts a value reads it back and disturbs no other bit.
THEOREM RegistersReadBack == HostSpec => []RegisterWritten
<1>1. HostInit => RegisterWritten
  BY DEF HostInit, RegisterWritten, Answered
<1>2. JobInv /\ RegisterWritten /\ [HostNext]_hostVars => RegisterWritten'
  <2>. SUFFICES ASSUME JobInv, RegisterWritten, [HostNext]_hostVars PROVE RegisterWritten'
    OBVIOUS
  <2>1. CASE answer' = answer
    BY <2>1, JobStep DEF RegisterWritten, Answered, a, c
  <2>2. CASE Register /\ JobOf("register")
    <3>. DEFINE x == job.call
                written == WriteRegister(x.hardware, x.register, x.value, x.whole)
                read == ReadRegister(written, x.register)
    <3>1. x \in RegisterJobs /\ job' = job
      BY <2>2, JobStep DEF JobOf, JobsOf
    <3>2. CASE Refused(x.register, x.value)
      <4>1. answer'.value.refused
        BY <2>2, <3>2 DEF Register, Answer, c
      <4>. QED  BY <4>1 DEF RegisterWritten, a
    <3>3. CASE ~Refused(x.register, x.value)
      <4>1. answer'.value = [refused |-> FALSE, written |-> written, read |-> read]
        BY <2>2, <3>3 DEF Register, Answer, c
      <4>2. /\ read.value = x.value
            /\ written.words[x.register.index] \ x.register.mask
                 = x.hardware.words[x.register.index] \ x.register.mask
            /\ \A i \in DOMAIN x.hardware.words \ {x.register.index} :
                 read.hardware.words[i] = x.hardware.words[i]
        BY <3>1, <3>3, RegisterAnswer
      <4>3. \A mask \in x.others : mask \cap x.register.mask = {}
        BY <3>1, RegisterJobsAssumption
      <4>4. \A mask \in x.others : written.words[x.register.index] \cap mask
                                     = x.hardware.words[x.register.index] \cap mask
        BY <4>2, <4>3
      <4>. HIDE DEF written, read
      <4>. QED  BY <3>1, <4>1, <4>2, <4>4 DEF RegisterWritten, a, c
    <3>. QED  BY <3>2, <3>3
  <2>3. ASSUME job.kind # "register" PROVE RegisterWritten'
    BY <2>3, JobStep DEF RegisterWritten, Answered
  <2>. QED  BY <2>1, <2>2, <2>3, JobStep DEF JobOf
<1>. QED  BY JobInit, JobStep, <1>1, <1>2, PTL DEF HostSpec

---------------------------------------------------------------------------
(* Signals of the debug bus.                                               *)

LEMMA LowestOf ==
  ASSUME NEW mask, mask \subseteq Nat, mask # {}
  PROVE  Lowest(mask) \in mask /\ \A b \in mask : Lowest(mask) <= b
BY LeastNatural DEF Lowest

LEMMA LowestIs ==
  ASSUME NEW mask, mask \subseteq Nat, NEW b \in mask, \A y \in mask : b <= y
  PROVE  Lowest(mask) = b
<1>1. Lowest(mask) \in mask /\ \A y \in mask : Lowest(mask) <= y
  BY DEF Lowest
<1>2. Lowest(mask) <= b /\ b <= Lowest(mask) /\ Lowest(mask) \in Nat /\ b \in Nat
  BY <1>1
<1>. QED  BY ONLY <1>2

PartsOf(x, d) == {e \in x.signals : e.group = d.group /\ e.name = d.name}
BitsOf(parts) == UNION {OnBus(e.word, e.mask) : e \in parts}

\* What the assumption says of a part and of two parts of a signal.
LEMMA PartsFit ==
  ASSUME NEW x \in SignalJobs, NEW d \in x.signals
  PROVE  /\ d.part \in Nat /\ d.word \in Nat /\ d.mask \subseteq 0..31 /\ d.mask # {}
         /\ \A k \in 0..(d.part - 1) : \E e \in PartsOf(x, d) : e.part = k
         /\ \A e \in PartsOf(x, d) :
              /\ e \in x.signals /\ PartsOf(x, e) = PartsOf(x, d)
              /\ e.across_groups = d.across_groups
              /\ e.word - d.word = e.part - d.part
              /\ e.part = d.part => e = d
              /\ e.part < d.part => 0 \in d.mask /\ \A b \in e.mask : b..31 \subseteq e.mask
BY SignalJobsAssumption DEF PartsOf

\* The bits of a part, from the lowest one.
LEMMA OnBusBits ==
  ASSUME NEW word \in Nat, NEW mask, mask \subseteq 0..31, mask # {}
  PROVE  /\ OnBus(word, mask) \subseteq (32 * word)..(32 * word + 31)
         /\ OnBus(word, mask) \subseteq Nat
         /\ Lowest(mask) \in mask
         /\ Lowest(OnBus(word, mask)) = 32 * word + Lowest(mask)
         /\ \A b \in OnBus(word, mask) : 32 * word + Lowest(mask) <= b
<1>1. Lowest(mask) \in mask /\ \A b \in mask : Lowest(mask) <= b
  <2>1. mask \subseteq Nat
    OBVIOUS
  <2>. QED  BY <2>1, LowestOf
<1>. DEFINE low == Lowest(mask)
<1>. HIDE DEF low
<1>2. low \in mask /\ \A b \in mask : low <= b
  BY <1>1 DEF low
<1>3. /\ OnBus(word, mask) \subseteq (32 * word)..(32 * word + 31)
      /\ OnBus(word, mask) \subseteq Nat
      /\ 32 * word + low \in OnBus(word, mask)
      /\ \A b \in OnBus(word, mask) : 32 * word + low <= b
  BY <1>2 DEF OnBus
<1>4. Lowest(OnBus(word, mask)) = 32 * word + low
  BY <1>3, LowestIs
<1>. QED  BY <1>2, <1>3, <1>4 DEF low

\* The parts that come before a part fill the bus from the first bit of the
\* signal to the first bit of the part.
LEMMA BitsBelow ==
  ASSUME NEW x \in SignalJobs, NEW d \in x.signals
  PROVE  LET parts == PartsOf(x, d)
             below == BitsOf({y \in parts : y.part < d.part})
         IN /\ BitsOf(parts) \subseteq Nat
            /\ Lowest(BitsOf(parts)) \in Nat
            /\ Cardinality(below) = Lowest(OnBus(d.word, d.mask)) - Lowest(BitsOf(parts))
<1>. DEFINE parts == PartsOf(x, d)
            below == BitsOf({y \in parts : y.part < d.part})
<1>1. d \in parts
  BY DEF PartsOf
<1>2. PICK f \in parts : f.part = 0
  <2>1. CASE d.part = 0
    BY <1>1, <2>1
  <2>2. CASE d.part # 0
    BY <2>2, PartsFit
  <2>. QED  BY <2>1, <2>2
<1>3. f \in x.signals /\ PartsOf(x, f) = parts
  BY PartsFit
<1>. DEFINE low == Lowest(f.mask)
            first == 32 * f.word + low
<1>4. f.word \in Nat /\ f.mask \subseteq 0..31 /\ f.mask # {}
  BY <1>3, PartsFit
<1>5. low \in f.mask /\ low \in 0..31 /\ \A b \in OnBus(f.word, f.mask) : first <= b
  BY <1>4, OnBusBits
<1>. HIDE DEF low, parts
<1>6. ASSUME NEW e \in parts
      PROVE  /\ e.part \in Nat /\ e.word = f.word + e.part /\ e.word \in Nat
             /\ e.mask \subseteq 0..31 /\ e.mask # {}
             /\ e.part = 0 => e = f
             /\ e.part # 0 => 0 \in e.mask
             /\ OnBus(e.word, e.mask) \subseteq Nat
             /\ \A b \in OnBus(e.word, e.mask) : first <= b
  <2>1. /\ e \in PartsOf(x, f) /\ e \in x.signals /\ PartsOf(x, e) = parts
    BY <1>3, PartsFit DEF parts
  <2>2. e.part \in Nat /\ e.word \in Nat /\ e.mask \subseteq 0..31 /\ e.mask # {}
    BY <2>1, PartsFit
  <2>3. e.word - f.word = e.part /\ (e.part = 0 => e = f)
    <3>1. e.word - f.word = e.part - f.part /\ (e.part = f.part => e = f)
      BY <1>3, <2>1, PartsFit
    <3>. QED  BY <1>2, <2>2, <3>1
  <2>4. f.part < e.part => 0 \in e.mask
    BY <1>2, <2>1, PartsFit
  <2>5. e.word = f.word + e.part
    BY <1>4, <2>2, <2>3
  <2>6. /\ OnBus(e.word, e.mask) \subseteq (32 * e.word)..(32 * e.word + 31)
        /\ OnBus(e.word, e.mask) \subseteq Nat
    BY <2>2, OnBusBits
  <2>7. \A b \in OnBus(e.word, e.mask) : first <= b
    <3>1. CASE e.part = 0
      BY <1>5, <2>3, <3>1
    <3>2. CASE e.part # 0
      <4>. SUFFICES ASSUME NEW b \in OnBus(e.word, e.mask) PROVE first <= b
        OBVIOUS
      <4>1. b >= 32 * e.word /\ b \in Nat
        BY <2>6
      <4>. QED  BY <1>4, <1>5, <2>2, <2>5, <3>2, <4>1
    <3>. QED  BY <3>1, <3>2
  <2>. QED  BY <1>2, <2>2, <2>3, <2>4, <2>5, <2>6, <2>7
<1>7. BitsOf(parts) \subseteq Nat /\ first \in BitsOf(parts) /\ \A b \in BitsOf(parts) : first <= b
  <2>1. first \in OnBus(f.word, f.mask)
    BY <1>5 DEF OnBus
  <2>. QED  BY <1>2, <1>6, <2>1 DEF BitsOf
<1>8. Lowest(BitsOf(parts)) = first /\ first \in Nat
  BY <1>7, LowestIs
<1>9. Cardinality(below) = Lowest(OnBus(d.word, d.mask)) - first
  <2>1. CASE d.part = 0
    <3>1. d = f
      BY <1>1, <1>6, <2>1 DEF parts
    <3>2. below = {}
      BY <1>6, <2>1 DEF BitsOf
    <3>3. Lowest(OnBus(f.word, f.mask)) = first
      <4>1. Lowest(OnBus(f.word, f.mask)) = 32 * f.word + Lowest(f.mask)
        BY <1>4, OnBusBits
      <4>. QED  BY <4>1 DEF low
    <3>4. Cardinality(below) = 0
      BY <3>2, FS_EmptySet
    <3>. HIDE DEF below, first
    <3>. QED  BY <1>8, <3>1, <3>3, <3>4
  <2>2. CASE d.part # 0
    <3>1. /\ d.part \in Nat /\ d.word = f.word + d.part /\ d.word \in Nat
          /\ d.mask \subseteq 0..31 /\ d.mask # {} /\ 0 \in d.mask
      BY <1>1, <1>6, <2>2
    <3>2. Lowest(d.mask) = 0
      BY <3>1, LowestIs
    <3>3. Lowest(OnBus(d.word, d.mask)) = 32 * d.word
      BY <3>1, <3>2, OnBusBits
    <3>. DEFINE end == 32 * d.word - 1
    <3>4. ASSUME NEW b \in below PROVE b \in first..end
      <4>1. PICK e \in parts : e.part < d.part /\ b \in OnBus(e.word, e.mask)
        BY <3>4 DEF BitsOf
      <4>2. /\ e.part \in Nat /\ e.word = f.word + e.part /\ e.word \in Nat /\ b \in Nat
            /\ first <= b /\ e.mask \subseteq 0..31 /\ e.mask # {}
        BY <1>6, <4>1
      <4>3. b <= 32 * e.word + 31
        BY <4>1, <4>2, OnBusBits
      <4>. QED  BY <1>4, <1>8, <3>1, <4>1, <4>2, <4>3
    <3>5. ASSUME NEW b \in first..end PROVE b \in below
      <4>. DEFINE q == b \div 32
                  r == b % 32
                  k == q - f.word
      <4>1. b \in Nat /\ first <= b /\ b <= 32 * d.word - 1
        BY <1>8, <3>1, <3>5
      <4>2. q \in Nat /\ r \in 0..31 /\ b = 32 * q + r
        BY <4>1
      <4>. HIDE DEF q, r
      <4>3. k \in 0..(d.part - 1)
        BY <1>4, <1>5, <3>1, <4>1, <4>2
      <4>4. PICK e \in parts : e.part = k
        BY SMTT(30), <4>3, PartsFit DEF parts
      <4>5. /\ e.word = f.word + k /\ e.mask \subseteq 0..31 /\ e.mask # {}
            /\ (k = 0 => e = f) /\ (k # 0 => 0 \in e.mask)
        BY <1>6, <4>4
      <4>6. \A y \in e.mask : y..31 \subseteq e.mask
        <5>1. e.part < d.part
          BY <3>1, <4>3, <4>4
        <5>2. e \in PartsOf(x, d)
          BY DEF parts
        <5>. QED  BY <5>1, <5>2, PartsFit
      <4>7. r \in e.mask
        <5>1. CASE k = 0
          <6>1. low \in e.mask /\ e.word = f.word
            BY <1>4, <1>5, <4>5, <5>1
          <6>2. low <= r
            BY <1>4, <1>5, <4>1, <4>2, <5>1
          <6>. QED  BY <1>5, <4>2, <4>6, <6>1, <6>2
        <5>2. CASE k # 0
          BY <4>2, <4>5, <4>6, <5>2
        <5>. QED  BY <5>1, <5>2
      <4>8. b = 32 * e.word + r
        BY <1>4, <4>2, <4>5
      <4>9. b \in OnBus(e.word, e.mask)
        BY <4>7, <4>8 DEF OnBus
      <4>10. e.part < d.part
        BY <3>1, <4>3, <4>4
      <4>. QED  BY <4>9, <4>10 DEF BitsOf
    <3>6. below = first..end
      BY <3>4, <3>5
    <3>7. first <= end + 1 /\ end \in Int
      BY <1>4, <1>5, <3>1, <2>2
    <3>8. Cardinality(below) = IF first > end THEN 0 ELSE end - first + 1
      <4>1. first \in Int
        BY <1>8
      <4>. HIDE DEF first, end, below
      <4>. QED  BY <3>6, <3>7, <4>1, FS_Interval
    <3>. QED  BY <1>8, <3>1, <3>3, <3>7, <3>8
  <2>. QED  BY <2>1, <2>2
<1>. QED  BY <1>7, <1>8, <1>9 DEF parts

\* The parts of a signal, read one after another, make up what a sample gives.
LEMMA JoinedIsMasked ==
  ASSUME NEW x \in SignalJobs, NEW d \in x.signals
  PROVE  Joined(PartsOf(x, d)) = Masked(BitsOf(PartsOf(x, d)))
<1>. DEFINE parts == PartsOf(x, d)
            low == Lowest(BitsOf(parts))
            Below(e) == BitsOf({y \in parts : y.part < e.part})
            Here(e) == {<<v[1] + Cardinality(Below(e)), v[2]>> : v \in ReadSignal(e)}
<1>1. Joined(parts) = UNION {Here(e) : e \in parts}
  BY Zenon DEF Joined, BitsOf
<1>2. d \in parts
  BY DEF PartsOf
<1>3. low \in Nat
  BY BitsBelow
<1>4. ASSUME NEW e \in parts PROVE Here(e) = {<<b - low, b>> : b \in OnBus(e.word, e.mask)}
  <2>1. e \in x.signals /\ PartsOf(x, e) = parts
    BY PartsFit
  <2>2. e.word \in Nat /\ e.mask \subseteq 0..31 /\ e.mask # {}
    BY <2>1, PartsFit
  <2>. DEFINE from == Lowest(OnBus(e.word, e.mask))
              n == Cardinality(Below(e))
  <2>3. n = from - low
    BY <2>1, BitsBelow
  <2>4. from \in Nat /\ OnBus(e.word, e.mask) \subseteq Nat
    <3>1. from = 32 * e.word + Lowest(e.mask) /\ Lowest(e.mask) \in e.mask
      BY <2>2, OnBusBits
    <3>2. 32 * e.word + Lowest(e.mask) \in Nat
      BY <2>2, <3>1
    <3>. QED  BY <2>2, <3>1, <3>2, OnBusBits
  <2>5. ReadSignal(e) = {<<b - from, b>> : b \in OnBus(e.word, e.mask)}
    BY DEF ReadSignal, Masked
  <2>6. ASSUME NEW b \in OnBus(e.word, e.mask) PROVE (b - from) + n = b - low
    <3>. HIDE DEF from, n, low
    <3>. QED  BY <1>3, <2>3, <2>4
  <2>. HIDE DEF from, n, low
  <2>7. Here(e) = {<<v[1] + n, v[2]>> : v \in {<<b - from, b>> : b \in OnBus(e.word, e.mask)}}
    BY <2>5 DEF n
  <2>8. ASSUME NEW w PROVE w \in Here(e) <=> \E b \in OnBus(e.word, e.mask) : w = <<b - low, b>>
    <3>. DEFINE R == {<<b - from, b>> : b \in OnBus(e.word, e.mask)}
    <3>1. w \in Here(e) <=> \E b \in OnBus(e.word, e.mask) : w = <<(b - from) + n, b>>
      <4>. HIDE DEF Here
      <4>1. w \in Here(e) <=> \E v \in R : w = <<v[1] + n, v[2]>>
        BY <2>7
      <4>2. \A v : v \in R <=> \E b \in OnBus(e.word, e.mask) : v = <<b - from, b>>
        OBVIOUS
      <4>. HIDE DEF R
      <4>3. ASSUME NEW v \in R, w = <<v[1] + n, v[2]>>
            PROVE  \E b \in OnBus(e.word, e.mask) : w = <<(b - from) + n, b>>
        BY <4>2, <4>3
      <4>4. ASSUME NEW b \in OnBus(e.word, e.mask), w = <<(b - from) + n, b>>
            PROVE  \E v \in R : w = <<v[1] + n, v[2]>>
        <5>1. <<b - from, b>> \in R
          BY <4>2
        <5>2. w = << <<b - from, b>>[1] + n, <<b - from, b>>[2] >>
          BY <4>4
        <5>. QED  BY <5>1, <5>2
      <4>. QED  BY <4>1, <4>3, <4>4
    <3>. QED  BY <2>6, <3>1
  <2>. QED  BY <2>8
<1>5. Masked(BitsOf(parts)) = UNION {{<<b - low, b>> : b \in OnBus(e.word, e.mask)} : e \in parts}
  <2>1. ASSUME NEW w
        PROVE  w \in Masked(BitsOf(parts))
                 <=> \E e \in parts : w \in {<<b - low, b>> : b \in OnBus(e.word, e.mask)}
    <3>1. w \in Masked(BitsOf(parts)) <=> \E b \in BitsOf(parts) : w = <<b - low, b>>
      BY DEF Masked
    <3>. HIDE DEF low, parts
    <3>. QED  BY <3>1 DEF BitsOf
  <2>. HIDE DEF low, parts
  <2>. QED  BY <2>1
<1>. HIDE DEF parts, low, Here
<1>6. Joined(parts) = Masked(BitsOf(parts))
  BY <1>1, <1>4, <1>5
<1>. QED  BY <1>6 DEF parts

\* The groups of a sample have the signals that are not across groups, with
\* the bits of all their parts.
LEMMA GroupsOfSample ==
  ASSUME NEW x \in SignalJobs, NEW d \in x.signals, d.group \in x.group_map
  PROVE  LET groups == CreateInitialization(x.group_map, x.signals) IN
         IF d.across_groups THEN d.name \notin DOMAIN groups[d.group]
         ELSE /\ d.name \in DOMAIN groups[d.group]
              /\ groups[d.group][d.name] = BitsOf(PartsOf(x, d))
<1>. DEFINE g == d.group
            members == InGroup(x.signals, g)
            names == {e.name : e \in members}
            groups == CreateInitialization(x.group_map, x.signals)
<1>1. groups[g] = [name \in names |-> BitsOf({e \in members : e.name = name})]
  BY Zenon DEF CreateInitialization, BitsOf
<1>2. \A e \in PartsOf(x, d) : e.across_groups = d.across_groups
  BY PartsFit
<1>3. \A e \in members : e.name = d.name => e \in PartsOf(x, d) /\ ~e.across_groups
  BY DEF InGroup, PartsOf
<1>4. CASE d.across_groups
  <2>1. d.name \notin names
    BY <1>2, <1>3, <1>4
  <2>. QED  BY <1>1, <1>4, <2>1
<1>5. CASE ~d.across_groups
  <2>1. d \in members
    BY <1>5 DEF InGroup
  <2>2. {e \in members : e.name = d.name} = PartsOf(x, d)
    BY <1>2, <1>5 DEF InGroup, PartsOf
  <2>3. d.name \in names
    BY <2>1
  <2>. HIDE DEF names, members, groups
  <2>4. groups[g][d.name] = BitsOf(PartsOf(x, d)) /\ d.name \in DOMAIN groups[g]
    BY <1>1, <2>2, <2>3
  <2>. QED  BY <1>5, <2>4 DEF groups
<1>. QED  BY <1>4, <1>5

\* A sample of a group has its signals, and agrees with direct reads.
THEOREM SamplesAgreeWithReads == HostSpec => []SignalsAgree
<1>1. HostInit => SignalsAgree
  BY DEF HostInit, SignalsAgree, Answered
<1>2. JobInv /\ SignalsAgree /\ [HostNext]_hostVars => SignalsAgree'
  <2>. SUFFICES ASSUME JobInv, SignalsAgree, [HostNext]_hostVars PROVE SignalsAgree'
    OBVIOUS
  <2>1. CASE answer' = answer
    BY <2>1, JobStep DEF SignalsAgree, Answered, a, c
  <2>2. CASE Signal /\ JobOf("signal")
    <3>. DEFINE x == job.call
                groups == CreateInitialization(x.group_map, x.signals)
    <3>1. x \in SignalJobs /\ job' = job
      BY <2>2, JobStep DEF JobOf, JobsOf
    <3>2. answer'.value = groups
      BY <2>2 DEF Signal, Answer, c
    <3>. HIDE DEF groups
    <3>3. ASSUME NEW g \in x.group_map, NEW d \in x.signals, d.group = g
          PROVE  IF d.across_groups THEN d.name \notin DOMAIN groups[g]
                 ELSE /\ d.name \in DOMAIN groups[g]
                      /\ Sampled(groups, g, d.name)
                           = Joined({e \in {y \in x.signals : y.group = g} : e.name = d.name})
      <4>1. IF d.across_groups THEN d.name \notin DOMAIN groups[g]
            ELSE /\ d.name \in DOMAIN groups[g]
                 /\ groups[g][d.name] = BitsOf(PartsOf(x, d))
        BY <3>1, <3>3, GroupsOfSample DEF groups
      <4>2. {e \in {y \in x.signals : y.group = g} : e.name = d.name} = PartsOf(x, d)
        BY <3>3 DEF PartsOf
      <4>3. Joined(PartsOf(x, d)) = Masked(BitsOf(PartsOf(x, d)))
        BY <3>1, JoinedIsMasked
      <4>. QED  BY <4>1, <4>2, <4>3 DEF Sampled
    <3>. QED  BY <3>1, <3>2, <3>3 DEF SignalsAgree, a, c
  <2>3. ASSUME job.kind # "signal" PROVE SignalsAgree'
    BY <2>3, JobStep DEF SignalsAgree, Answered
  <2>. QED  BY <2>1, <2>2, <2>3, JobStep DEF JobOf
<1>. QED  BY JobInit, JobStep, <1>1, <1>2, PTL DEF HostSpec

---------------------------------------------------------------------------
(* The map of an access: sorting, and finding a block.                     *)

LEMMA LenOf ==
  ASSUME NEW T, NEW s \in Seq(T)
  PROVE  Len(s) \in Nat /\ DOMAIN s = 1..Len(s) /\ \A k \in 1..Len(s) : s[k] \in T
BY LenProperties, ElementOfSeq

\* A set of positive numbers without gaps from 1 on.
LEMMA InitialSegment ==
  ASSUME NEW n \in Nat, NEW S, S \subseteq 1..n,
         \A k \in S : \A j \in 1..k : j \in S
  PROVE  Cardinality(S) \in 0..n /\ S = 1..Cardinality(S)
<1>. DEFINE T == {k \in Nat : k + 1 \notin S}
<1>1. n \in T
  OBVIOUS
<1>2. PICK m \in T : \A k \in T : m <= k
  BY <1>1, LeastNatural
<1>3. \A k \in 1..m : k \in S
  <2>. SUFFICES ASSUME NEW k \in 1..m PROVE k \in S
    OBVIOUS
  <2>1. k - 1 \in Nat /\ ~(m <= k - 1) /\ (k - 1) + 1 = k
    OBVIOUS
  <2>2. k - 1 \notin T
    BY <1>2, <2>1
  <2>. QED  BY <2>1, <2>2
<1>4. \A k \in S : k \in 1..m
  <2>. SUFFICES ASSUME NEW k \in S, k > m PROVE FALSE
    OBVIOUS
  <2>1. m + 1 \in 1..k
    OBVIOUS
  <2>. QED  BY <2>1
<1>5. S = 1..m /\ m \in Nat
  BY <1>3, <1>4
<1>6. Cardinality(1..m) = m
  <2>1. Cardinality(1..m) = IF 1 > m THEN 0 ELSE m - 1 + 1
    BY <1>5, FS_Interval
  <2>. QED  BY <1>5, <2>1
<1>. QED  BY <1>1, <1>2, <1>5, <1>6

Before(blocks, i, j) ==
  \/ blocks[i].start < blocks[j].start
  \/ blocks[i].start = blocks[j].start /\ i < j
RankIn(blocks) ==
  [i \in DOMAIN blocks |-> 1 + Cardinality({j \in DOMAIN blocks : Before(blocks, j, i)})]

\* The rank of a block is its place, and every place has its block.
LEMMA RankIsPlace ==
  ASSUME NEW blocks \in Seq(MapBlock)
  PROVE  LET n == Len(blocks)
             rank == RankIn(blocks)
         IN /\ rank \in [1..n -> 1..n]
            /\ \A k \in 1..n : \E i \in 1..n : rank[i] = k
            /\ \A i, j \in 1..n : rank[i] < rank[j] => blocks[i].start <= blocks[j].start
            /\ \A i, j \in 1..n : rank[i] = rank[j] => i = j
<1>. DEFINE n == Len(blocks)
            D == 1..n
            rank == RankIn(blocks)
            P(i) == {j \in D : Before(blocks, j, i)}
<1>1. /\ n \in Nat /\ DOMAIN blocks = D
      /\ \A k \in D : blocks[k].start \in Int
  <2>1. n \in Nat /\ DOMAIN blocks = D /\ \A k \in D : blocks[k] \in MapBlock
    BY LenOf
  <2>. QED  BY <2>1 DEF MapBlock
<1>2. IsFiniteSet(D) /\ Cardinality(D) = n
  <2>1. IsFiniteSet(D) /\ Cardinality(D) = IF 1 > n THEN 0 ELSE n - 1 + 1
    BY <1>1, FS_Interval
  <2>. QED  BY <1>1, <2>1
<1>3. ASSUME NEW i \in D
      PROVE  /\ rank[i] = 1 + Cardinality(P(i)) /\ IsFiniteSet(P(i)) /\ Cardinality(P(i)) \in Nat
             /\ Cardinality(P(i)) + 1 <= n /\ i \notin P(i)
  <2>1. P(i) \in SUBSET D /\ i \notin P(i) /\ P(i) \cup {i} \in SUBSET D
    BY <1>1 DEF Before
  <2>2. IsFiniteSet(P(i)) /\ Cardinality(P(i)) \in Nat
    BY <1>2, <2>1, FS_Subset, FS_CardinalityType
  <2>3. Cardinality(P(i) \cup {i}) = Cardinality(P(i)) + 1
    BY <2>1, <2>2, FS_AddElement
  <2>4. Cardinality(P(i) \cup {i}) <= n
    BY <1>2, <2>1, FS_Subset
  <2>. HIDE DEF P
  <2>5. Cardinality(P(i)) + 1 <= n
    BY <2>3, <2>4
  <2>6. rank[i] = 1 + Cardinality(P(i))
    BY <1>1 DEF P, RankIn
  <2>. QED  BY <2>1, <2>2, <2>5, <2>6
<1>4. ASSUME NEW i \in D, NEW j \in D, Before(blocks, i, j) PROVE rank[i] < rank[j]
  <2>1. P(i) \cup {i} \in SUBSET P(j)
    BY <1>1, <1>4 DEF Before
  <2>. HIDE DEF P
  <2>2. Cardinality(P(i) \cup {i}) = Cardinality(P(i)) + 1
    BY <1>3, FS_AddElement
  <2>3. Cardinality(P(i) \cup {i}) <= Cardinality(P(j))
    BY <1>3, <2>1, FS_Subset
  <2>. QED  BY <1>3, <2>2, <2>3
<1>5. \A i, j \in D : i # j => Before(blocks, i, j) \/ Before(blocks, j, i)
  BY <1>1 DEF Before
<1>. HIDE DEF P
<1>6. rank \in [D -> 1..n]
  <2>1. \A i \in D : rank[i] \in 1..n
    BY <1>1, <1>3
  <2>2. rank = [i \in D |-> rank[i]]
    BY <1>1 DEF RankIn
  <2>. HIDE DEF rank
  <2>. QED  BY <2>1, <2>2
<1>. HIDE DEF rank
<1>7. ASSUME NEW i \in D, NEW j \in D, rank[i] = rank[j] PROVE i = j
  <2>1. rank[i] \in Nat /\ rank[j] \in Nat
    BY <1>6
  <2>. QED  BY <1>4, <1>5, <1>7, <2>1
<1>8. ASSUME NEW i \in D, NEW j \in D, rank[i] < rank[j]
      PROVE  blocks[i].start <= blocks[j].start
  <2>1. rank[i] \in Nat /\ rank[j] \in Nat
    BY <1>6
  <2>2. i # j /\ ~Before(blocks, j, i)
    BY <1>4, <1>8, <2>1
  <2>3. Before(blocks, i, j)
    BY <1>5, <2>2
  <2>. QED  BY <1>1, <2>3 DEF Before
<1>9. \A k \in D : \E i \in D : rank[i] = k
  <2>1. rank \in Injection(D, D)
    BY <1>6, <1>7 DEF Injection, IsInjective
  <2>2. rank \in Surjection(D, D)
    BY <1>2, <2>1, FS_Injection
  <2>. QED  BY <2>2 DEF Surjection
<1>. QED  BY <1>6, <1>7, <1>8, <1>9 DEF rank

\* The blocks in the order of their addresses, each at one place.
Sorts(map, blocks, p) ==
  /\ map \in Seq(MapBlock) /\ Len(map) = Len(blocks) /\ DOMAIN map = 1..Len(map)
  /\ p \in [1..Len(map) -> 1..Len(map)]
  /\ \A k \in 1..Len(map) : map[k] = blocks[p[k]]
  /\ \A i \in 1..Len(map) : \E k \in 1..Len(map) : p[k] = i
  /\ \A j, k \in 1..Len(map) : p[j] = p[k] => j = k
  /\ \A j, k \in 1..Len(map) : j < k => map[j].start <= map[k].start

LEMMA SortSorts ==
  ASSUME NEW blocks \in Seq(MapBlock)
  PROVE  \E p : Sorts(SortByStart(blocks), blocks, p)
<1>. DEFINE n == Len(blocks)
            rank == RankIn(blocks)
            map == SortByStart(blocks)
            p == [k \in 1..n |-> CHOOSE i \in 1..n : rank[i] = k]
<1>1. n \in Nat /\ DOMAIN blocks = 1..n /\ \A k \in 1..n : blocks[k] \in MapBlock
  BY LenOf
<1>2. map = [k \in 1..n |-> blocks[CHOOSE i \in 1..n : rank[i] = k]]
  <2>1. map = [k \in DOMAIN blocks |-> blocks[CHOOSE i \in DOMAIN blocks : rank[i] = k]]
    BY DEF SortByStart, RankIn, Before
  <2>. HIDE DEF rank, map
  <2>. QED  BY <1>1, <2>1
<1>3. /\ rank \in [1..n -> 1..n]
      /\ \A k \in 1..n : \E i \in 1..n : rank[i] = k
      /\ \A i, j \in 1..n : rank[i] < rank[j] => blocks[i].start <= blocks[j].start
      /\ \A i, j \in 1..n : rank[i] = rank[j] => i = j
  BY RankIsPlace
<1>. HIDE DEF rank, map
<1>4. \A k \in 1..n : p[k] \in 1..n /\ rank[p[k]] = k
  BY <1>3
<1>5. p \in [1..n -> 1..n]
  BY <1>4
<1>6. \A k \in 1..n : map[k] = blocks[p[k]]
  BY <1>2
<1>. HIDE DEF p
<1>7. map \in Seq(MapBlock) /\ Len(map) = n /\ DOMAIN map = 1..n
  <2>1. \A k \in 1..n : map[k] \in MapBlock
    BY <1>1, <1>4, <1>6
  <2>2. map = [k \in 1..n |-> map[k]]
    BY <1>2
  <2>3. map \in [1..n -> MapBlock]
    BY <2>1, <2>2
  <2>. QED  BY <1>1, <2>2, <2>3, SeqDef, LenProperties
<1>8. ASSUME NEW i \in 1..n PROVE \E k \in 1..n : p[k] = i
  <2>1. rank[i] \in 1..n
    BY <1>3
  <2>. QED  BY <1>3, <1>4, <2>1
<1>9. \A j, k \in 1..n : p[j] = p[k] => j = k
  BY <1>4
<1>10. ASSUME NEW j \in 1..n, NEW k \in 1..n, j < k PROVE map[j].start <= map[k].start
  <2>1. rank[p[j]] < rank[p[k]] /\ p[j] \in 1..n /\ p[k] \in 1..n
    BY <1>4, <1>10
  <2>2. blocks[p[j]].start <= blocks[p[k]].start
    BY <1>3, <2>1
  <2>3. map[j] = blocks[p[j]] /\ map[k] = blocks[p[k]]
    BY <1>6
  <2>. QED  BY <2>2, <2>3
<1>11. Sorts(map, blocks, p)
  BY <1>5, <1>6, <1>7, <1>8, <1>9, <1>10 DEF Sorts
<1>. QED  BY <1>11 DEF map

\* The blocks of a map that is not refused, in the order of their addresses.
Ordered(map) ==
  /\ map \in Seq(MapBlock)
  /\ \A j, k \in 1..Len(map) : j < k => map[j].start <= map[k].start
  /\ ~Overlapping(map)

LEMMA BlockAt ==
  ASSUME NEW map \in Seq(MapBlock)
  PROVE  /\ Len(map) \in Nat /\ DOMAIN map = 1..Len(map)
         /\ \A k \in 1..Len(map) : /\ map[k].start \in Int /\ map[k].size \in Nat \ {0}
                                   /\ End(map[k]) = map[k].start + map[k].size
                                   /\ map[k].open \in BOOLEAN
<1>1. Len(map) \in Nat /\ DOMAIN map = 1..Len(map) /\ \A k \in 1..Len(map) : map[k] \in MapBlock
  BY LenOf
<1>. QED  BY <1>1 DEF MapBlock, End

\* A block ends before every later one starts.
LEMMA OrderedApart ==
  ASSUME NEW map, Ordered(map), NEW j \in 1..Len(map), NEW k \in 1..Len(map), j < k
  PROVE  End(map[j]) <= map[k].start
<1>1. map \in Seq(MapBlock) /\ ~Overlapping(map)
      /\ \A i, l \in 1..Len(map) : i < l => map[i].start <= map[l].start
  BY DEF Ordered
<1>2. /\ Len(map) \in Nat
      /\ \A i \in 1..Len(map) : map[i].start \in Int /\ End(map[i]) \in Int
  BY <1>1, BlockAt
<1>3. j \in 1..(Len(map) - 1) /\ j + 1 \in 1..Len(map)
  BY <1>2
<1>4. ~(End(map[j]) > map[j + 1].start)
  BY <1>1, <1>3 DEF Overlapping
<1>5. map[j + 1].start <= map[k].start
  <2>1. CASE j + 1 = k
    BY <2>1, <1>2
  <2>2. CASE j + 1 < k
    BY <2>2, <1>1, <1>3
  <2>. QED  BY <2>1, <2>2, <1>2
<1>. QED  BY SMTT(30), <1>2, <1>3, <1>4, <1>5

\* The assertion of the map refuses it if and only if two blocks share an address.
LEMMA OverlapIsShared ==
  ASSUME NEW blocks \in Seq(MapBlock), NEW map, NEW p, Sorts(map, blocks, p)
  PROVE  Overlapping(map) <=> MapRefused(blocks)
<1>. DEFINE n == Len(map)
<1>1. /\ map \in Seq(MapBlock) /\ Len(blocks) = n
      /\ p \in [1..n -> 1..n]
      /\ \A k \in 1..n : map[k] = blocks[p[k]]
      /\ \A i \in 1..n : \E k \in 1..n : p[k] = i
      /\ \A j, k \in 1..n : p[j] = p[k] => j = k
      /\ \A j, k \in 1..n : j < k => map[j].start <= map[k].start
  BY DEF Sorts
<1>2. /\ n \in Nat /\ DOMAIN blocks = 1..n
      /\ \A k \in 1..n : /\ map[k].start \in Int /\ map[k].size \in Nat \ {0}
                         /\ End(map[k]) = map[k].start + map[k].size
  BY <1>1, BlockAt
<1>. HIDE DEF n
<1>3. ASSUME Overlapping(map) PROVE MapRefused(blocks)
  <2>1. PICK i \in 1..(n - 1) : End(map[i]) > map[i + 1].start
    BY <1>3 DEF Overlapping, n
  <2>2. i \in 1..n /\ i + 1 \in 1..n /\ i < i + 1
    BY <1>2
  <2>3. map[i].start <= map[i + 1].start
    BY <1>1, <2>2
  <2>4. p[i] \in 1..n /\ p[i + 1] \in 1..n /\ p[i] # p[i + 1]
    <3>1. i # i + 1
      BY <2>2
    <3>2. p[i] # p[i + 1]
      BY <1>1, <2>2, <3>1
    <3>3. p[i] \in 1..n /\ p[i + 1] \in 1..n
      BY <1>1, <2>2
    <3>. QED  BY <3>2, <3>3
  <2>5. map[i].start < End(map[i + 1])
    <3>. DEFINE from == map[i].start
                next == map[i + 1].start
                size == map[i + 1].size
    <3>1. from \in Int /\ next \in Int /\ size \in Nat \ {0}
      BY <1>2, <2>2
    <3>2. End(map[i + 1]) = next + size
      BY <1>2, <2>2
    <3>3. from <= next
      BY <2>3
    <3>. HIDE DEF from, next, size
    <3>4. from < next + size
      BY <3>1, <3>3
    <3>. QED  BY <3>2, <3>4 DEF from
  <2>6. map[i] = blocks[p[i]] /\ map[i + 1] = blocks[p[i + 1]]
    BY <1>1, <2>2
  <2>7. map[i + 1].start < End(map[i])
    BY <1>2, <2>1, <2>2
  <2>8. blocks[p[i]].start < End(blocks[p[i + 1]]) /\ blocks[p[i + 1]].start < End(blocks[p[i]])
    BY <2>5, <2>6, <2>7
  <2>. QED  BY <1>2, <2>4, <2>8 DEF MapRefused
<1>4. ASSUME MapRefused(blocks), ~Overlapping(map) PROVE FALSE
  <2>1. PICK i \in 1..n, j \in 1..n :
          i # j /\ blocks[i].start < End(blocks[j]) /\ blocks[j].start < End(blocks[i])
    BY <1>2, <1>4 DEF MapRefused
  <2>2. PICK k \in 1..n : p[k] = i
    BY <1>1
  <2>3. PICK l \in 1..n : p[l] = j
    BY <1>1
  <2>4. k # l /\ map[k] = blocks[i] /\ map[l] = blocks[j]
    BY <1>1, <2>1, <2>2, <2>3
  <2>5. map[k].start < End(map[l]) /\ map[l].start < End(map[k])
    BY <2>1, <2>4
  <2>6. Ordered(map)
    BY <1>1, <1>4 DEF Ordered, n
  <2>7. ASSUME NEW x \in 1..n, NEW y \in 1..n, x < y PROVE End(map[x]) <= map[y].start
    BY <2>6, <2>7, OrderedApart DEF n
  <2>8. k \in Nat /\ l \in Nat
    OBVIOUS
  <2>9. CASE k < l
    <3>. DEFINE ends == End(map[k])
                starts == map[l].start
    <3>1. ends <= starts
      BY <2>7, <2>9
    <3>2. starts < ends
      BY <2>5
    <3>3. ends \in Int /\ starts \in Int
      BY <1>2
    <3>. HIDE DEF ends, starts
    <3>. QED  BY <3>1, <3>2, <3>3
  <2>10. CASE l < k
    <3>. DEFINE ends == End(map[l])
                starts == map[k].start
    <3>1. ends <= starts
      BY <2>7, <2>10
    <3>2. starts < ends
      BY <2>5
    <3>3. ends \in Int /\ starts \in Int
      BY <1>2
    <3>. HIDE DEF ends, starts
    <3>. QED  BY <3>1, <3>2, <3>3
  <2>. QED  BY <2>4, <2>8, <2>9, <2>10
<1>. QED  BY <1>3, <1>4

\* find returns the one block that the address lies in, whatever is cached.
LEMMA FindFinds ==
  ASSUME NEW map, Ordered(map), NEW last \in 0..Len(map), NEW address \in Int
  PROVE  LET i == Find(map, last, address)
         IN /\ i \in 0..Len(map)
            /\ i # 0 => Within(address, map[i])
            /\ \A k \in 1..Len(map) : Within(address, map[k]) => k = i
<1>. DEFINE n == Len(map)
            S == {k \in 1..n : map[k].start <= address}
            m == FindIndex(map, address)
<1>1. map \in Seq(MapBlock) /\ \A j, k \in 1..n : j < k => map[j].start <= map[k].start
  BY DEF Ordered
<1>2. /\ n \in Nat /\ DOMAIN map = 1..n
      /\ \A k \in 1..n : map[k].start \in Int /\ End(map[k]) \in Int
  BY <1>1, BlockAt
<1>3. \A j, k \in 1..n : j < k => End(map[j]) <= map[k].start
  BY OrderedApart
<1>4. m \in 0..n /\ S = 1..m
  <2>1. \A k \in S : \A j \in 1..k : j \in S
    <3>1. ASSUME NEW k \in S, NEW j \in 1..k PROVE map[j].start <= address /\ j \in 1..n
      <4>1. CASE j = k
        BY <4>1
      <4>2. CASE j < k
        <5>1. j \in 1..n /\ k \in 1..n /\ map[k].start <= address
          BY <1>2
        <5>2. map[j].start <= map[k].start
          BY <5>1, <4>2, <1>1
        <5>. QED  BY <5>1, <5>2, <1>2
      <4>. QED  BY <4>1, <4>2
    <3>. QED  BY <3>1
  <2>2. S \subseteq 1..n
    OBVIOUS
  <2>3. m = Cardinality(S)
    BY <1>2 DEF FindIndex
  <2>. HIDE DEF S, m
  <2>. QED  BY <1>2, <2>1, <2>2, <2>3, InitialSegment
<1>5. Find(map, last, address) =
        IF last \in 1..n /\ Within(address, map[last]) THEN last
        ELSE IF m # 0 /\ address < End(map[m]) THEN m ELSE 0
  BY <1>2 DEF Find
<1>6. ASSUME NEW k \in 1..n, NEW l \in 1..n, Within(address, map[k]), Within(address, map[l])
      PROVE  k = l
  <2>1. /\ map[k].start <= address /\ address < End(map[k])
        /\ map[l].start <= address /\ address < End(map[l])
    BY <1>6 DEF Within
  <2>2. CASE k < l
    BY <2>1, <2>2, <1>2, <1>3
  <2>3. CASE l < k
    BY <2>1, <2>3, <1>2, <1>3
  <2>. QED  BY <2>2, <2>3
<1>7. ASSUME NEW k \in 1..n, Within(address, map[k]) PROVE k = m
  <2>1. k \in S /\ map[k].start <= address /\ address < End(map[k])
    BY <1>7 DEF Within
  <2>2. k \in 1..m
    BY <1>4, <2>1
  <2>3. m \in 1..n /\ map[m].start <= address
    BY <1>2, <1>4, <2>2
  <2>4. CASE k < m
    BY <2>1, <2>3, <2>4, <1>2, <1>3
  <2>. QED  BY <1>4, <2>2, <2>4
<1>8. m # 0 /\ address < End(map[m]) => Within(address, map[m]) /\ m \in 1..n
  BY <1>2, <1>4 DEF Within
<1>. HIDE DEF m, S
<1>9. last \in 1..n /\ Within(address, map[last]) => Find(map, last, address) = last
  BY <1>5
<1>10. ~(last \in 1..n /\ Within(address, map[last])) =>
         Find(map, last, address) = IF m # 0 /\ address < End(map[m]) THEN m ELSE 0
  BY <1>5
<1>11. CASE last \in 1..n /\ Within(address, map[last])
  BY <1>6, <1>9, <1>11
<1>12. CASE ~(last \in 1..n /\ Within(address, map[last]))
  <2>1. CASE m # 0 /\ address < End(map[m])
    BY <1>2, <1>7, <1>8, <1>10, <1>12, <2>1
  <2>2. CASE ~(m # 0 /\ address < End(map[m]))
    <3>1. Find(map, last, address) = 0
      BY <1>10, <1>12, <2>2
    <3>2. ASSUME NEW k \in 1..n, Within(address, map[k]) PROVE FALSE
      BY <1>7, <3>2, <2>2 DEF Within
    <3>. QED  BY <3>1, <3>2, <1>2
  <2>. QED  BY <2>1, <2>2
<1>. QED  BY <1>11, <1>12

\* The byte lies in a block of the map that is accessible and safe.
SafeByte(map, byte, is_write) ==
  \E k \in 1..Len(map) : Within(byte, map[k]) /\ map[k].open /\ IsSafe(map[k], is_write)

\* The bytes that the walk has yet to check.
RestSafe(map, addr, num_bytes, is_write, checked) ==
  \A byte \in Int : addr + checked <= byte /\ byte < addr + num_bytes => SafeByte(map, byte, is_write)

\* The end of the part that the block covers.
CheckedTo(map, addr, num_bytes, checked, i) ==
  LET rest == num_bytes - checked
      here == End(map[i]) - (addr + checked)
  IN checked + (IF rest < here THEN rest ELSE here)

\* A step of the walk goes forward, and the rest is safe if and only if the
\* part that the block covers is, and what follows it.
LEMMA WalkStep ==
  ASSUME NEW map, Ordered(map), NEW addr \in Int, NEW num_bytes \in Nat,
         NEW is_write, NEW checked \in 0..(num_bytes - 1), NEW last \in 0..Len(map)
  PROVE  LET i == Find(map, last, addr + checked)
             next == CheckedTo(map, addr, num_bytes, checked, i)
         IN /\ i \in 0..Len(map)
            /\ i # 0 => next \in (checked + 1)..num_bytes
            /\ RestSafe(map, addr, num_bytes, is_write, checked)
                 <=> /\ i # 0 /\ map[i].open /\ IsSafe(map[i], is_write)
                     /\ End(map[i]) > addr + checked
                     /\ RestSafe(map, addr, num_bytes, is_write, next)
<1>. DEFINE n == Len(map)
            i == Find(map, last, addr + checked)
            next == CheckedTo(map, addr, num_bytes, checked, i)
            safe == map[i].open /\ IsSafe(map[i], is_write)
<1>1. map \in Seq(MapBlock) /\ addr + checked \in Int
  BY DEF Ordered
<1>2. /\ n \in Nat
      /\ \A k \in 1..n : map[k].start \in Int /\ End(map[k]) \in Int
  BY <1>1, BlockAt
<1>3. /\ i \in 0..n
      /\ i # 0 => Within(addr + checked, map[i])
      /\ \A k \in 1..n : Within(addr + checked, map[k]) => k = i
  BY <1>1, FindFinds
<1>4. ASSUME NEW byte \in Int, NEW last2 \in 0..n
      PROVE  \A k, l \in 1..n : Within(byte, map[k]) /\ Within(byte, map[l]) => k = l
  <2>1. \A k \in 1..n : Within(byte, map[k]) => k = Find(map, last2, byte)
    BY FindFinds
  <2>. QED  BY <2>1
<1>5. \A byte \in Int : \A k, l \in 1..n : Within(byte, map[k]) /\ Within(byte, map[l]) => k = l
  BY <1>4
<1>. HIDE DEF i
<1>6. CASE i = 0
  <2>1. ~SafeByte(map, addr + checked, is_write)
    BY <1>3, <1>6 DEF SafeByte
  <2>2. ~RestSafe(map, addr, num_bytes, is_write, checked)
    BY <1>1, <2>1 DEF RestSafe
  <2>. QED  BY <1>3, <1>6, <2>2 DEF i
<1>7. CASE i # 0
  <2>. DEFINE e == End(map[i])
  <2>1. i \in 1..n /\ e \in Int /\ map[i].start \in Int
    BY <1>2, <1>3, <1>7
  <2>2. map[i].start <= addr + checked /\ addr + checked < e
    BY <1>3, <1>7 DEF Within
  <2>3. next = checked + (IF num_bytes - checked < e - (addr + checked)
                          THEN num_bytes - checked ELSE e - (addr + checked))
    BY DEF CheckedTo
  <2>. HIDE DEF e, next
  <2>4. /\ next \in (checked + 1)..num_bytes
        /\ \A byte \in Int : addr + checked <= byte /\ byte < addr + next => byte < e
        /\ next < num_bytes => addr + next = e
    BY <2>1, <2>2, <2>3
  <2>5. ASSUME NEW byte \in Int, addr + checked <= byte, byte < addr + next
        PROVE  SafeByte(map, byte, is_write) <=> safe
    <3>1. Within(byte, map[i])
      BY <2>1, <2>2, <2>4, <2>5 DEF Within, e
    <3>2. \A k \in 1..n : Within(byte, map[k]) => k = i
      BY <1>5, <2>1, <3>1
    <3>. QED  BY <2>1, <3>1, <3>2 DEF SafeByte
  <2>6. ASSUME RestSafe(map, addr, num_bytes, is_write, checked)
        PROVE  safe /\ RestSafe(map, addr, num_bytes, is_write, next)
    <3>1. SafeByte(map, addr + checked, is_write)
      BY <2>6, <1>1 DEF RestSafe
    <3>2. safe
      BY <1>1, <2>4, <2>5, <3>1
    <3>3. \A byte \in Int : addr + next <= byte => addr + checked <= byte
      BY <2>4
    <3>4. RestSafe(map, addr, num_bytes, is_write, next)
      BY <2>6, <3>3 DEF RestSafe
    <3>. QED  BY <3>2, <3>4
  <2>7. ASSUME safe, RestSafe(map, addr, num_bytes, is_write, next)
        PROVE  RestSafe(map, addr, num_bytes, is_write, checked)
    <3>1. ASSUME NEW byte \in Int, addr + checked <= byte, byte < addr + num_bytes
          PROVE  SafeByte(map, byte, is_write)
      <4>1. CASE byte < addr + next
        BY <2>5, <2>7, <3>1, <4>1
      <4>2. CASE addr + next <= byte
        BY <2>7, <3>1, <4>2 DEF RestSafe
      <4>. QED  BY <4>1, <4>2, <2>4
    <3>. QED  BY <3>1 DEF RestSafe
  <2>8. e > addr + checked
    BY <2>1, <2>2
  <2>. HIDE DEF safe
  <2>9. RestSafe(map, addr, num_bytes, is_write, checked)
          <=> i # 0 /\ safe /\ e > addr + checked /\ RestSafe(map, addr, num_bytes, is_write, next)
    BY <2>6, <2>7, <2>8, <1>7
  <2>. QED  BY <1>3, <2>4, <2>9 DEF i, safe, e, next
<1>. QED  BY <1>6, <1>7

\* A solution of the equation of the walk.
IsWalk(map, addr, num_bytes, is_write, f) ==
  f = [at \in (0..num_bytes) \X (0..Len(map)) |->
         LET checked == at[1]
             i == Find(map, at[2], addr + checked)
         IN \/ checked = num_bytes
            \/ /\ i # 0 /\ map[i].open /\ IsSafe(map[i], is_write)
               /\ End(map[i]) > addr + checked
               /\ LET rest == num_bytes - checked
                      here == End(map[i]) - (addr + checked)
                  IN f[<<checked + (IF rest < here THEN rest ELSE here), i>>]]

LEMMA ValidatedIsWalk ==
  ASSUME NEW map, NEW last0, NEW addr, NEW num_bytes, NEW is_write
  PROVE  LET f == CHOOSE f : IsWalk(map, addr, num_bytes, is_write, f)
         IN Validated(map, last0, addr, num_bytes, is_write) = f[<<0, last0>>]
BY Zenon DEF Validated, IsWalk

\* The equation of the walk at one place.
WalkAt(map, addr, num_bytes, is_write, f, checked, last) ==
  LET i == Find(map, last, addr + checked) IN
  \/ checked = num_bytes
  \/ /\ i # 0 /\ map[i].open /\ IsSafe(map[i], is_write)
     /\ End(map[i]) > addr + checked
     /\ f[<<CheckedTo(map, addr, num_bytes, checked, i), i>>]

LEMMA WalkByPlace ==
  ASSUME NEW map, NEW addr, NEW num_bytes, NEW is_write, NEW f
  PROVE  IsWalk(map, addr, num_bytes, is_write, f)
           <=> f = [at \in (0..num_bytes) \X (0..Len(map)) |->
                     WalkAt(map, addr, num_bytes, is_write, f, at[1], at[2])]
BY DEF IsWalk, WalkAt, CheckedTo

\* Whoever solves the equation says whether the rest is safe; and there is
\* somebody who does.
LEMMA WalkIsRestSafe ==
  ASSUME NEW map, Ordered(map), NEW addr \in Int, NEW num_bytes \in Nat, NEW is_write,
         NEW last0 \in 0..Len(map)
  PROVE  Validated(map, last0, addr, num_bytes, is_write)
           <=> RestSafe(map, addr, num_bytes, is_write, 0)
<1>. DEFINE n == Len(map)
            D == (0..num_bytes) \X (0..n)
            R(checked) == RestSafe(map, addr, num_bytes, is_write, checked)
            W(f, checked, last) == WalkAt(map, addr, num_bytes, is_write, f, checked, last)
            g == [at \in D |-> R(at[1])]
            f == CHOOSE x : IsWalk(map, addr, num_bytes, is_write, x)
<1>1. R(num_bytes)
  BY DEF RestSafe
<1>2. ASSUME NEW h, NEW checked \in 0..num_bytes, NEW last \in 0..n,
             \A next \in (checked + 1)..num_bytes : \A i \in 0..n : h[<<next, i>>] <=> R(next)
      PROVE  W(h, checked, last) <=> R(checked)
  <2>1. CASE checked = num_bytes
    BY <1>1, <2>1 DEF WalkAt
  <2>2. CASE checked # num_bytes
    <3>. DEFINE i == Find(map, last, addr + checked)
                next == CheckedTo(map, addr, num_bytes, checked, i)
    <3>1. checked \in 0..(num_bytes - 1)
      BY <2>2
    <3>2. /\ i \in 0..n
          /\ i # 0 => next \in (checked + 1)..num_bytes
          /\ R(checked) <=> /\ i # 0 /\ map[i].open /\ IsSafe(map[i], is_write)
                            /\ End(map[i]) > addr + checked
                            /\ R(next)
      BY <3>1, WalkStep
    <3>3. W(h, checked, last) <=> /\ i # 0 /\ map[i].open /\ IsSafe(map[i], is_write)
                                  /\ End(map[i]) > addr + checked
                                  /\ h[<<next, i>>]
      BY <2>2 DEF WalkAt
    <3>. HIDE DEF i, next, W, R
    <3>4. i # 0 => (h[<<next, i>>] <=> R(next))
      BY <1>2, <3>2
    <3>. QED  BY <3>2, <3>3, <3>4
  <2>. QED  BY <2>1, <2>2
<1>. HIDE DEF R, W
<1>3. IsWalk(map, addr, num_bytes, is_write, g)
  <2>1. ASSUME NEW at \in D PROVE W(g, at[1], at[2]) <=> R(at[1])
    <3>1. at[1] \in 0..num_bytes /\ at[2] \in 0..n
      OBVIOUS
    <3>2. ASSUME NEW next \in (at[1] + 1)..num_bytes, NEW i \in 0..n
          PROVE  g[<<next, i>>] <=> R(next)
      <4>1. next \in 0..num_bytes
        BY <3>1
      <4>2. <<next, i>> \in D /\ <<next, i>>[1] = next
        BY <4>1
      <4>. QED  BY <4>2
    <3>. HIDE DEF g, D
    <3>. QED  BY <1>2, <3>1, <3>2
  <2>2. \A at \in D : R(at[1]) \in BOOLEAN /\ W(g, at[1], at[2]) \in BOOLEAN
    BY DEF R, W, RestSafe, WalkAt
  <2>3. g = [at \in D |-> W(g, at[1], at[2])]
    <3>1. \A at \in D : R(at[1]) = W(g, at[1], at[2])
      BY <2>1, <2>2
    <3>. DEFINE h == [at \in D |-> W(g, at[1], at[2])]
    <3>2. \A at \in D : g[at] = R(at[1]) /\ h[at] = W(g, at[1], at[2])
      OBVIOUS
    <3>. HIDE DEF D
    <3>. QED  BY <3>1
  <2>. HIDE DEF g
  <2>. QED  BY <2>3, WalkByPlace DEF W
<1>4. IsWalk(map, addr, num_bytes, is_write, f)
  <2>. HIDE DEF g
  <2>. QED  BY <1>3, Zenon
<1>. HIDE DEF f
<1>5. ASSUME NEW checked \in 0..num_bytes, NEW last \in 0..n
      PROVE  f[<<checked, last>>] <=> W(f, checked, last)
  <2>1. f = [at \in D |-> W(f, at[1], at[2])]
    BY <1>4, WalkByPlace DEF W
  <2>2. <<checked, last>> \in D
    OBVIOUS
  <2>. DEFINE V(at) == W(f, at[1], at[2])
  <2>3. V(<<checked, last>>) = W(f, checked, last)
    OBVIOUS
  <2>4. f = [at \in D |-> V(at)]
    BY <2>1
  <2>. HIDE DEF D, V
  <2>5. f[<<checked, last>>] = V(<<checked, last>>)
    BY <2>2, <2>4
  <2>. QED  BY <2>3, <2>5
<1>. DEFINE S == {d \in 0..num_bytes : \A checked \in 0..num_bytes : \A last \in 0..n :
                    num_bytes - checked <= d => (f[<<checked, last>>] <=> R(checked))}
<1>6. 0 \in S
  <2>1. ASSUME NEW checked \in 0..num_bytes, NEW last \in 0..n, num_bytes - checked <= 0
        PROVE  f[<<checked, last>>] <=> R(checked)
    <3>1. \A next \in (checked + 1)..num_bytes : FALSE
      BY <2>1
    <3>. QED  BY <1>2, <1>5, <3>1
  <2>. QED  BY <2>1
<1>7. ASSUME NEW d \in 0..(num_bytes - 1), d \in S PROVE d + 1 \in S
  <2>1. ASSUME NEW checked \in 0..num_bytes, NEW last \in 0..n, num_bytes - checked <= d + 1
        PROVE  f[<<checked, last>>] <=> R(checked)
    <3>1. ASSUME NEW next \in (checked + 1)..num_bytes, NEW i \in 0..n
          PROVE  f[<<next, i>>] <=> R(next)
      <4>1. next \in 0..num_bytes /\ num_bytes - next <= d
        BY <2>1
      <4>. QED  BY <1>7, <4>1
    <3>. QED  BY <1>2, <1>5, <3>1
  <2>2. d + 1 \in 0..num_bytes
    OBVIOUS
  <2>. QED  BY <2>1, <2>2
<1>8. num_bytes \in S
  <2>. HIDE DEF S
  <2>1. 0..num_bytes \subseteq S
    BY <1>6, <1>7, BoundedInduction
  <2>. QED  BY <2>1
<1>9. f[<<0, last0>>] <=> R(0)
  BY <1>8
<1>10. Validated(map, last0, addr, num_bytes, is_write) = f[<<0, last0>>]
  BY ValidatedIsWalk DEF f
<1>. QED  BY <1>9, <1>10 DEF R

\* The answer of a check job.
LEMMA CheckAnswer ==
  ASSUME NEW x \in CheckJobs
  PROVE  LET map     == SortByStart(x.blocks)
             refused == Overlapping(map)
             valid   == Validated(map, x.last, x.address, x.size, x.is_write)
         IN /\ refused <=> MapRefused(x.blocks)
            /\ ~refused => (valid <=> AllSafe(x.blocks, x.address, x.size, x.is_write))
            /\ x.declared # "no" => ~refused
            /\ x.declared = "register" => valid
<1>. DEFINE blocks == x.blocks
            map == SortByStart(blocks)
            n == Len(map)
            refused == Overlapping(map)
            valid == Validated(map, x.last, x.address, x.size, x.is_write)
            safe == AllSafe(blocks, x.address, x.size, x.is_write)
<1>1. /\ blocks \in Seq(MapBlock) /\ x.last \in 0..Len(blocks)
      /\ x.address \in Int /\ x.size \in Nat
      /\ x.declared # "no" => ~MapRefused(blocks)
      /\ x.declared = "register" => safe
  BY CheckJobsAssumption
<1>2. PICK p : Sorts(map, blocks, p)
  BY <1>1, SortSorts
<1>. HIDE DEF map, blocks
<1>3. refused <=> MapRefused(blocks)
  BY <1>1, <1>2, OverlapIsShared
<1>4. ASSUME ~refused PROVE valid <=> safe
  <2>1. /\ map \in Seq(MapBlock) /\ Len(blocks) = n
        /\ p \in [1..n -> 1..n]
        /\ \A k \in 1..n : map[k] = blocks[p[k]]
        /\ \A i \in 1..n : \E k \in 1..n : p[k] = i
        /\ \A j, k \in 1..n : j < k => map[j].start <= map[k].start
    BY <1>2 DEF Sorts
  <2>2. Ordered(map)
    BY <1>4, <2>1 DEF Ordered
  <2>3. valid <=> RestSafe(map, x.address, x.size, x.is_write, 0)
    BY <1>1, <2>1, <2>2, WalkIsRestSafe
  <2>4. DOMAIN blocks = 1..n
    BY <1>1, <2>1, BlockAt
  <2>5. ASSUME NEW byte
        PROVE  SafeByte(map, byte, x.is_write)
                 <=> \E b \in ToSet(blocks) : Within(byte, b) /\ b.open /\ IsSafe(b, x.is_write)
    <3>. DEFINE G(b) == Within(byte, b) /\ b.open /\ IsSafe(b, x.is_write)
    <3>1. SafeByte(map, byte, x.is_write) <=> \E k \in 1..n : G(map[k])
      BY DEF SafeByte
    <3>2. ToSet(blocks) = {blocks[i] : i \in 1..n}
      BY <2>4 DEF ToSet
    <3>. HIDE DEF G, n
    <3>3. (\E k \in 1..n : G(map[k])) <=> \E i \in 1..n : G(blocks[i])
      <4>1. ASSUME NEW k \in 1..n, G(map[k]) PROVE \E i \in 1..n : G(blocks[i])
        <5>1. p[k] \in 1..n /\ map[k] = blocks[p[k]]
          BY <2>1
        <5>2. G(blocks[p[k]])
          BY <4>1, <5>1
        <5>. QED  BY <5>1, <5>2
      <4>2. ASSUME NEW i \in 1..n, G(blocks[i]) PROVE \E k \in 1..n : G(map[k])
        <5>1. PICK k \in 1..n : p[k] = i
          BY <2>1
        <5>2. map[k] = blocks[i]
          BY <2>1, <5>1
        <5>3. G(map[k])
          BY <4>2, <5>2
        <5>. QED  BY <5>3
      <4>. QED  BY <4>1, <4>2
    <3>4. (\E b \in ToSet(blocks) : G(b)) <=> \E i \in 1..n : G(blocks[i])
      BY <3>2
    <3>. QED  BY <3>1, <3>3, <3>4 DEF G
  <2>6. \A byte : byte \in x.address..(x.address + x.size - 1)
                    <=> byte \in Int /\ x.address + 0 <= byte /\ byte < x.address + x.size
    BY <1>1
  <2>. QED  BY <2>3, <2>5, <2>6 DEF RestSafe, AllSafe
<1>. HIDE DEF refused, valid, safe
<1>5. /\ refused <=> MapRefused(x.blocks)
      /\ ~refused => (valid <=> safe)
      /\ x.declared # "no" => ~refused
      /\ x.declared = "register" => valid
  BY <1>1, <1>3, <1>4 DEF blocks
<1>. QED  BY <1>5 DEF refused, valid, safe, map, blocks

\* A map is refused if and only if two of its blocks share an address, and the
\* walk over the blocks lets an access through if and only if each of its bytes
\* is in a block that is accessible and safe, whatever is cached
\* (memory_map.py, Device._validate_noc_access_is_safe).
THEOREM AccessesValidated == HostSpec => []ValidatedExactly
<1>1. HostInit => ValidatedExactly
  BY DEF HostInit, ValidatedExactly, Answered
<1>2. JobInv /\ ValidatedExactly /\ [HostNext]_hostVars => ValidatedExactly'
  <2>. SUFFICES ASSUME JobInv, ValidatedExactly, [HostNext]_hostVars PROVE ValidatedExactly'
    OBVIOUS
  <2>1. CASE answer' = answer
    BY <2>1, JobStep DEF ValidatedExactly, Answered, a, c
  <2>2. CASE Check /\ JobOf("check")
    <3>. DEFINE x == job.call
                refused == Overlapping(SortByStart(x.blocks))
                valid == Validated(SortByStart(x.blocks), x.last, x.address, x.size, x.is_write)
    <3>1. x \in CheckJobs /\ job' = job
      BY <2>2, JobStep DEF JobOf, JobsOf
    <3>2. answer'.value = [refused |-> refused, valid |-> valid]
      BY <2>2 DEF Check, Answer, c
    <3>3. /\ refused <=> MapRefused(x.blocks)
          /\ ~refused => (valid <=> AllSafe(x.blocks, x.address, x.size, x.is_write))
          /\ x.declared # "no" => ~refused
          /\ x.declared = "register" => valid
      BY <3>1, CheckAnswer
    <3>. HIDE DEF refused, valid
    <3>. QED  BY <3>1, <3>2, <3>3 DEF ValidatedExactly, a, c
  <2>3. ASSUME job.kind # "check" PROVE ValidatedExactly'
    BY <2>3, JobStep DEF ValidatedExactly, Answered
  <2>. QED  BY <2>1, <2>2, <2>3, JobStep DEF JobOf
<1>. QED  BY JobInit, JobStep, <1>1, <1>2, PTL DEF HostSpec

---------------------------------------------------------------------------
(* Bytes over words.                                                       *)

\* The bytes from an address on.
Segment(memory, at, size) == [i \in 1..size |-> memory[at + i - 1]]

LEMMA SegmentsJoin ==
  ASSUME NEW memory, NEW at \in Int, NEW n \in Nat, NEW m \in Nat
  PROVE  Segment(memory, at, n) \o Segment(memory, at + n, m) = Segment(memory, at, n + m)
<1>. DEFINE S == {memory[x] : x \in Int}
            s == Segment(memory, at, n)
            t == Segment(memory, at + n, m)
            u == Segment(memory, at, n + m)
<1>1. s \in Seq(S) /\ Len(s) = n /\ \A i \in 1..n : s[i] = memory[at + i - 1]
  <2>1. s \in [1..n -> S]
    BY DEF Segment
  <2>2. \A i \in 1..n : s[i] = memory[at + i - 1]
    BY DEF Segment
  <2>. HIDE DEF s, S
  <2>. QED  BY <2>1, <2>2, SeqDef, LenProperties
<1>2. t \in Seq(S) /\ Len(t) = m /\ \A i \in 1..m : t[i] = memory[(at + n) + i - 1]
  <2>1. t \in [1..m -> S]
    BY DEF Segment
  <2>2. \A i \in 1..m : t[i] = memory[(at + n) + i - 1]
    BY DEF Segment
  <2>. HIDE DEF t, S
  <2>. QED  BY <2>1, <2>2, SeqDef, LenProperties
<1>3. DOMAIN u = 1..(n + m) /\ \A i \in 1..(n + m) : u[i] = memory[at + i - 1]
  BY DEF Segment
<1>. HIDE DEF S, s, t
<1>4. /\ s \o t \in Seq(S) /\ Len(s \o t) = n + m
      /\ \A i \in 1..(n + m) : (s \o t)[i] = IF i <= n THEN s[i] ELSE t[i - n]
  BY ZenonT(60), <1>1, <1>2, ConcatProperties
<1>5. s \o t \in [1..(n + m) -> S]
  BY <1>4, LenProperties
<1>6. ASSUME NEW i \in 1..(n + m) PROVE (s \o t)[i] = u[i]
  <2>1. CASE i <= n
    <3>1. i \in 1..n
      BY <2>1
    <3>. QED  BY <1>1, <1>3, <1>4, <2>1, <3>1
  <2>2. CASE ~(i <= n)
    <3>1. i - n \in 1..m /\ (at + n) + (i - n) - 1 = at + i - 1
      BY <2>2
    <3>2. t[i - n] = memory[at + i - 1]
      BY <1>2, <3>1
    <3>. QED  BY <1>3, <1>4, <2>2, <3>2
  <2>. QED  BY <2>1, <2>2
<1>7. u = [i \in 1..(n + m) |-> u[i]]
  BY DEF Segment
<1>. HIDE DEF u
<1>8. s \o t = [i \in 1..(n + m) |-> (s \o t)[i]]
  BY <1>5
<1>9. s \o t = u
  BY <1>6, <1>7, <1>8
<1>. QED  BY <1>9 DEF s, t, u

\* The bytes that one step of a read takes.
StepOf(address, size, pos) == AtMost(Word - ((address + pos) % Word), size - pos)

ReadStep(memory, address, size, f, pos) ==
  LET addr == address + pos
      word == [i \in 0..(Word - 1) |-> memory[Aligned(addr) + i]]
      n    == AtMost(Word - (addr % Word), size - pos)
  IN IF pos = size THEN <<>>
     ELSE [i \in 1..n |-> word[(addr % Word) + i - 1]] \o f[pos + n]

IsRead(memory, address, size, f) ==
  f = [pos \in 0..size |-> ReadStep(memory, address, size, f, pos)]

LEMMA ReadBytesIsRead ==
  ASSUME NEW memory, NEW address, NEW size
  PROVE  LET f == CHOOSE f : IsRead(memory, address, size, f)
         IN ReadBytes(memory, address, size) = f[0]
BY Zenon DEF ReadBytes, IsRead, ReadStep

NextBytes(memory, address, size, f, pos) ==
  IF pos = size THEN <<>>
  ELSE Segment(memory, address + pos, StepOf(address, size, pos))
         \o f[pos + StepOf(address, size, pos)]

\* A step takes the next bytes of the range.
LEMMA ReadStepIs ==
  ASSUME NEW memory, NEW address \in Nat, NEW size \in Nat, NEW f, NEW pos \in 0..size
  PROVE  ReadStep(memory, address, size, f, pos) = NextBytes(memory, address, size, f, pos)
<1>. DEFINE addr == address + pos
            n == StepOf(address, size, pos)
            word == [i \in 0..(Word - 1) |-> memory[Aligned(addr) + i]]
            w == [i \in 1..n |-> word[(addr % Word) + i - 1]]
<1>1. CASE pos = size
  <2>. HIDE DEF word, w
  <2>. QED  BY <1>1 DEF ReadStep, NextBytes
<1>2. CASE pos # size
  <2>1. ASSUME NEW i \in 1..n PROVE w[i] = memory[addr + i - 1]
    <3>1. /\ addr \in Nat /\ n <= Word - (addr % Word)
          /\ (addr % Word) + i - 1 \in 0..(Word - 1)
          /\ Aligned(addr) + ((addr % Word) + i - 1) = addr + i - 1
      BY <1>2 DEF StepOf, AtMost, Word, Aligned
    <3>2. w[i] = word[(addr % Word) + i - 1]
      OBVIOUS
    <3>3. word[(addr % Word) + i - 1] = memory[Aligned(addr) + ((addr % Word) + i - 1)]
      <4>. DEFINE k == (addr % Word) + i - 1
      <4>1. k \in 0..(Word - 1)
        BY <3>1
      <4>. HIDE DEF k
      <4>2. word[k] = memory[Aligned(addr) + k]
        BY <4>1
      <4>. QED  BY <4>2 DEF k
    <3>. QED  BY <3>1, <3>2, <3>3
  <2>2. w = Segment(memory, addr, n)
    BY <2>1 DEF Segment
  <2>3. ReadStep(memory, address, size, f, pos) = w \o f[pos + n]
    BY <1>2 DEF ReadStep, StepOf
  <2>. HIDE DEF w
  <2>. QED  BY <1>2, <2>2, <2>3 DEF NextBytes
<1>. QED  BY <1>1, <1>2

LEMMA StepFits ==
  ASSUME NEW address \in Nat, NEW size \in Nat, NEW pos \in 0..size, pos # size
  PROVE  StepOf(address, size, pos) \in 1..(size - pos)
BY DEF StepOf, AtMost, Word

\* The bytes of the range, whatever its alignment.
LEMMA ReadsTheRange ==
  ASSUME NEW memory, NEW address \in Nat, NEW size \in Nat
  PROVE  ReadBytes(memory, address, size) = Segment(memory, address, size)
<1>. DEFINE R(pos) == Segment(memory, address + pos, size - pos)
            V(f, pos) == ReadStep(memory, address, size, f, pos)
            g == [pos \in 0..size |-> R(pos)]
            f == CHOOSE x : IsRead(memory, address, size, x)
<1>0. ASSUME NEW h, NEW pos \in 0..size
      PROVE  V(h, pos) = IF pos = size THEN <<>>
                         ELSE Segment(memory, address + pos, StepOf(address, size, pos))
                                \o h[pos + StepOf(address, size, pos)]
  <2>1. V(h, pos) = NextBytes(memory, address, size, h, pos)
    BY ReadStepIs
  <2>. HIDE DEF V
  <2>. QED  BY <2>1 DEF NextBytes
<1>. HIDE DEF V
<1>1. ASSUME NEW h, NEW pos \in 0..size, \A k \in (pos + 1)..size : h[k] = R(k)
      PROVE  V(h, pos) = R(pos)
  <2>. DEFINE n == StepOf(address, size, pos)
  <2>1. CASE pos = size
    <3>1. R(pos) = <<>>
      BY <2>1 DEF Segment
    <3>2. V(h, pos) = <<>>
      BY <1>0, <2>1
    <3>. QED  BY <3>1, <3>2
  <2>2. CASE pos # size
    <3>1. n \in 1..(size - pos)
      BY <2>2, StepFits
    <3>2. V(h, pos) = Segment(memory, address + pos, n) \o h[pos + n]
      BY <1>0, <2>2
    <3>. HIDE DEF n, V
    <3>3. pos + n \in (pos + 1)..size /\ size - (pos + n) \in Nat /\ n \in Nat
          /\ address + (pos + n) = (address + pos) + n /\ n + (size - (pos + n)) = size - pos
      BY <3>1
    <3>4. h[pos + n] = Segment(memory, (address + pos) + n, size - (pos + n))
      BY <1>1, <3>3
    <3>5. Segment(memory, address + pos, n) \o Segment(memory, (address + pos) + n, size - (pos + n))
            = Segment(memory, address + pos, n + (size - (pos + n)))
      <4>. DEFINE at == address + pos
                  m == size - (pos + n)
      <4>1. at \in Int /\ m \in Nat /\ n \in Nat
        BY <3>3
      <4>. HIDE DEF at, m
      <4>2. Segment(memory, at, n) \o Segment(memory, at + n, m) = Segment(memory, at, n + m)
        BY <4>1, SegmentsJoin
      <4>. QED  BY <4>2 DEF at, m
    <3>. QED  BY <3>2, <3>3, <3>4, <3>5
  <2>. QED  BY <2>1, <2>2
<1>. HIDE DEF R
<1>2. IsRead(memory, address, size, g)
  <2>1. ASSUME NEW pos \in 0..size PROVE V(g, pos) = R(pos)
    <3>1. \A k \in (pos + 1)..size : g[k] = R(k)
      OBVIOUS
    <3>. HIDE DEF g
    <3>. QED  BY <1>1, <3>1
  <2>2. g = [pos \in 0..size |-> V(g, pos)]
    BY <2>1
  <2>. HIDE DEF g
  <2>. QED  BY <2>2 DEF IsRead, V
<1>3. IsRead(memory, address, size, f)
  <2>. HIDE DEF g
  <2>. QED  BY <1>2, Zenon
<1>. HIDE DEF f
<1>4. \A pos \in 0..size : f[pos] = V(f, pos)
  <2>1. f = [pos \in 0..size |-> V(f, pos)]
    BY <1>3 DEF IsRead, V
  <2>. QED  BY <2>1
<1>. DEFINE S == {d \in 0..size : \A pos \in 0..size : size - pos <= d => f[pos] = R(pos)}
<1>5. 0 \in S
  <2>1. ASSUME NEW pos \in 0..size, size - pos <= 0 PROVE f[pos] = R(pos)
    <3>1. \A k \in (pos + 1)..size : FALSE
      BY <2>1
    <3>. QED  BY <1>1, <1>4, <3>1
  <2>. QED  BY <2>1
<1>6. ASSUME NEW d \in 0..(size - 1), d \in S PROVE d + 1 \in S
  <2>1. ASSUME NEW pos \in 0..size, size - pos <= d + 1 PROVE f[pos] = R(pos)
    <3>1. ASSUME NEW k \in (pos + 1)..size PROVE f[k] = R(k)
      <4>1. k \in 0..size /\ size - k <= d
        BY <2>1
      <4>. QED  BY <1>6, <4>1
    <3>. QED  BY <1>1, <1>4, <3>1
  <2>2. d + 1 \in 0..size
    OBVIOUS
  <2>. QED  BY <2>1, <2>2
<1>7. size \in S
  <2>. HIDE DEF S
  <2>1. 0..size \subseteq S
    BY <1>5, <1>6, BoundedInduction
  <2>. QED  BY <2>1
<1>8. f[0] = R(0)
  BY <1>7
<1>9. ReadBytes(memory, address, size) = f[0]
  BY ReadBytesIsRead DEF f
<1>10. R(0) = Segment(memory, address, size)
  BY DEF R
<1>. QED  BY <1>8, <1>9, <1>10

\* A change of some bytes of the range, in words that bytes of the range share.
BytesOf(change) ==
  (change.at + change.offset)..(change.at + change.offset + Len(change.bytes) - 1)
Fits(address, data, change) ==
  /\ change.at \in Nat /\ change.at % Word = 0 /\ change.offset \in 0..(Word - 1)
  /\ change.bytes \in Seq(Int) /\ Len(change.bytes) > 0
  /\ \A k \in 1..Len(change.bytes) :
       LET i == change.at + change.offset + k - address
       IN i \in 1..Len(data) /\ change.bytes[k] = data[i]

\* The memory with the bytes of the range at some addresses.
Patched(memory, address, data, at) ==
  [x \in DOMAIN memory |-> IF x \in at THEN data[x - address + 1] ELSE memory[x]]

LEMMA PutPatches ==
  ASSUME NEW memory, DOMAIN memory \subseteq Nat, NEW address \in Nat, NEW data \in Seq(Int),
         NEW change, Fits(address, data, change), NEW at
  PROVE  Put(Patched(memory, address, data, at), change)
           = Patched(memory, address, data, at \cup BytesOf(change))
<1>. DEFINE p == Patched(memory, address, data, at)
            q == Patched(memory, address, data, at \cup BytesOf(change))
            n == Len(change.bytes)
<1>1. /\ change.at \in Nat /\ change.at % Word = 0 /\ change.offset \in 0..(Word - 1)
      /\ n \in Nat
      /\ \A k \in 1..n : LET i == change.at + change.offset + k - address
                         IN i \in 1..Len(data) /\ change.bytes[k] = data[i]
  BY LenProperties DEF Fits
<1>2. DOMAIN p = DOMAIN memory /\ DOMAIN q = DOMAIN memory
  BY DEF Patched
<1>3. ASSUME NEW x \in DOMAIN memory
      PROVE  (IF x \in Covered(change) /\ x - change.at - change.offset \in 0..(n - 1)
              THEN change.bytes[x - change.at - change.offset + 1] ELSE p[x]) = q[x]
  <2>1. x \in Nat
    OBVIOUS
  <2>2. CASE x \in BytesOf(change)
    <3>. DEFINE b == change.at
                o == change.offset
                m == Len(change.bytes)
                k == x - b - o + 1
    <3>0. b \in Nat /\ b % 4 = 0 /\ o \in 0..3 /\ m \in Nat /\ x \in Nat
      BY <1>1, <2>1 DEF Word
    <3>1. x \in (b + o)..((b + o) + m - 1)
      BY <2>2 DEF BytesOf
    <3>2. x \in Covered(change)
      <4>1. Covered(change) = b..(Aligned(((b + o) + m) + 4 - 1) - 1)
        BY DEF Covered, Word
      <4>. HIDE DEF b, o, m
      <4>. DEFINE y == ((b + o) + m) + 4 - 1
      <4>2. y \in Nat /\ y % 4 \in 0..3 /\ x <= y - 4 /\ b <= x
        BY <3>0, <3>1
      <4>. HIDE DEF y
      <4>3. Aligned(y) = y - (y % 4)
        BY DEF Aligned, Word
      <4>. QED  BY <3>0, <4>1, <4>2, <4>3 DEF y
    <3>3. x - change.at - change.offset \in 0..(n - 1)
      <4>1. x - b - o \in 0..(m - 1)
        <5>. HIDE DEF b, o, m
        <5>1. b + o <= x /\ x <= (b + o) + m - 1 /\ o \in Nat
          BY <3>0, <3>1
        <5>2. 0 <= x - b - o /\ x - b - o <= m - 1 /\ x - b - o \in Int
          BY <3>0, <5>1
        <5>. QED  BY <3>0, <5>2
      <4>. QED  BY <4>1
    <3>4. k \in 1..n /\ change.at + change.offset + k - address = x - address + 1
      <4>1. k \in 1..m
        <5>. HIDE DEF b, o, m
        <5>. QED  BY <3>0, <3>1
      <4>2. b + o + k - address = x - address + 1
        <5>. HIDE DEF b, o, m
        <5>1. b \in Int /\ o \in Int /\ address \in Int /\ x \in Int
          BY <3>0
        <5>. QED  BY <5>1
      <4>. QED  BY <4>1, <4>2
    <3>. HIDE DEF k
    <3>5. change.bytes[k] = data[x - address + 1]
      BY <1>1, <3>4
    <3>6. q[x] = data[x - address + 1]
      BY <2>2 DEF Patched
    <3>. QED  BY <3>2, <3>3, <3>5, <3>6 DEF k
  <2>3. CASE x \notin BytesOf(change)
    <3>1. ~(x - change.at - change.offset \in 0..(n - 1))
      BY <1>1, <2>1, <2>3 DEF BytesOf
    <3>2. q[x] = p[x]
      BY <2>3 DEF Patched
    <3>. QED  BY <3>1, <3>2
  <2>. QED  BY <2>2, <2>3
<1>4. Put(p, change) =
        [x \in DOMAIN memory |->
           IF x \in Covered(change) /\ x - change.at - change.offset \in 0..(n - 1)
           THEN change.bytes[x - change.at - change.offset + 1] ELSE p[x]]
  BY <1>2 DEF Put
<1>5. q = [x \in DOMAIN memory |-> q[x]]
  BY DEF Patched
<1>. HIDE DEF p, q, n
<1>6. Put(p, change) = q
  BY <1>3, <1>4, <1>5
<1>. QED  BY <1>6 DEF p, q

IsAfter(memory, changes, f) ==
  f = [n \in 0..Len(changes) |-> IF n = 0 THEN memory ELSE Put(f[n - 1], changes[n])]

LEMMA WriteMemoryIsAfter ==
  ASSUME NEW memory, NEW changes
  PROVE  LET f == CHOOSE f : IsAfter(memory, changes, f)
         IN WriteMemory(memory, changes) = f[Len(changes)]
BY Zenon DEF WriteMemory, IsAfter

\* What a sequence of changes of the range leaves.
Patchable(memory, address, data, changes, N) ==
  /\ DOMAIN memory \subseteq Nat /\ memory \in [DOMAIN memory -> Int]
  /\ address \in Nat /\ data \in Seq(Int)
  /\ N \in Nat /\ Len(changes) = N
  /\ \A j \in 1..N : Fits(address, data, changes[j])

LEMMA WritesPatch ==
  ASSUME NEW memory, NEW address, NEW data, NEW changes, NEW N,
         Patchable(memory, address, data, changes, N)
  PROVE  WriteMemory(memory, changes)
           = Patched(memory, address, data, UNION {BytesOf(changes[j]) : j \in 1..N})
<1>0. /\ DOMAIN memory \subseteq Nat /\ memory \in [DOMAIN memory -> Int]
      /\ address \in Nat /\ data \in Seq(Int)
      /\ N \in Nat /\ Len(changes) = N
      /\ \A j \in 1..N : Fits(address, data, changes[j])
  BY DEF Patchable
<1>. USE <1>0
<1>. DEFINE Upto(n) == UNION {BytesOf(changes[j]) : j \in 1..n}
            G(n) == Patched(memory, address, data, Upto(n))
            g == [n \in 0..N |-> G(n)]
            f == CHOOSE x : IsAfter(memory, changes, x)
<1>1. G(0) = memory
  <2>1. Upto(0) = {}
    OBVIOUS
  <2>2. memory = [x \in DOMAIN memory |-> memory[x]]
    OBVIOUS
  <2>. HIDE DEF Upto
  <2>. QED  BY <2>1, <2>2 DEF Patched
<1>2. ASSUME NEW n \in 1..N PROVE Put(G(n - 1), changes[n]) = G(n)
  <2>1. Upto(n) = Upto(n - 1) \cup BytesOf(changes[n])
    <3>1. 1..n = 1..(n - 1) \cup {n}
      OBVIOUS
    <3>. QED  BY <3>1
  <2>2. Fits(address, data, changes[n])
    OBVIOUS
  <2>. HIDE DEF Upto
  <2>3. Put(Patched(memory, address, data, Upto(n - 1)), changes[n])
          = Patched(memory, address, data, Upto(n - 1) \cup BytesOf(changes[n]))
    BY <2>2, PutPatches
  <2>. QED  BY <2>1, <2>3
<1>. HIDE DEF G, Upto
<1>3. IsAfter(memory, changes, g)
  <2>1. ASSUME NEW n \in 0..N
        PROVE  G(n) = IF n = 0 THEN memory ELSE Put(g[n - 1], changes[n])
    <3>1. CASE n = 0
      BY <1>1, <3>1
    <3>2. CASE n # 0
      <4>1. n - 1 \in 0..N /\ n \in 1..N
        BY <3>2
      <4>2. g[n - 1] = G(n - 1)
        BY <4>1
      <4>. HIDE DEF g
      <4>. QED  BY <1>2, <3>2, <4>1, <4>2
    <3>. QED  BY <3>1, <3>2
  <2>2. g = [n \in 0..N |-> IF n = 0 THEN memory ELSE Put(g[n - 1], changes[n])]
    BY <2>1
  <2>. HIDE DEF g
  <2>. QED  BY <2>2 DEF IsAfter
<1>4. IsAfter(memory, changes, f)
  <2>. HIDE DEF g
  <2>. QED  BY <1>3, Zenon
<1>. HIDE DEF f
<1>5. \A n \in 0..N : f[n] = IF n = 0 THEN memory ELSE Put(f[n - 1], changes[n])
  <2>1. f = [n \in 0..N |-> IF n = 0 THEN memory ELSE Put(f[n - 1], changes[n])]
    BY <1>4 DEF IsAfter
  <2>. QED  BY <2>1
<1>. DEFINE S == {n \in 0..N : f[n] = G(n)}
<1>6. 0 \in S
  BY <1>1, <1>5
<1>7. ASSUME NEW n \in 0..(N - 1), n \in S PROVE n + 1 \in S
  <2>1. n + 1 \in 1..N /\ n + 1 \in 0..N /\ (n + 1) - 1 = n /\ n + 1 # 0
    OBVIOUS
  <2>2. f[n + 1] = Put(f[n], changes[n + 1])
    BY <1>5, <2>1
  <2>3. Put(G(n), changes[n + 1]) = G(n + 1)
    BY <1>2, <2>1
  <2>. QED  BY <1>7, <2>1, <2>2, <2>3
<1>8. f[N] = G(N)
  <2>. HIDE DEF S
  <2>1. 0..N \subseteq S
    BY <1>6, <1>7, BoundedInduction
  <2>. QED  BY <2>1 DEF S
<1>9. WriteMemory(memory, changes) = f[N]
  BY WriteMemoryIsAfter DEF f
<1>. QED  BY <1>8, <1>9 DEF G, Upto

\* Changes of the range that together are those of its bytes in from..(to - 1).
Changes == [at : Nat, offset : Nat, bytes : Seq(Int)]
Writes(address, data, changes, from, to) ==
  /\ changes \in Seq(Changes)
  /\ \A j \in 1..Len(changes) : Fits(address, data, changes[j])
  /\ \A x \in Int : (from <= x /\ x < to) <=> \E j \in 1..Len(changes) : x \in BytesOf(changes[j])

LEMMA WritesNone ==
  ASSUME NEW address, NEW data, NEW at \in Int
  PROVE  Writes(address, data, <<>>, at, at)
<1>1. <<>> \in Seq(Changes) /\ Len(<<>>) = 0
  OBVIOUS
<1>2. \A x \in Int : ~(at <= x /\ x < at)
  OBVIOUS
<1>. QED  BY <1>1, <1>2 DEF Writes

LEMMA WritesJoin ==
  ASSUME NEW address, NEW data, NEW s, NEW t,
         NEW from \in Int, NEW mid \in Int, NEW to \in Int, from <= mid, mid <= to,
         Writes(address, data, s, from, mid), Writes(address, data, t, mid, to)
  PROVE  Writes(address, data, s \o t, from, to)
<1>. DEFINE m == Len(s)
            n == Len(t)
            u == s \o t
<1>1. /\ s \in Seq(Changes) /\ t \in Seq(Changes)
      /\ \A j \in 1..m : Fits(address, data, s[j])
      /\ \A j \in 1..n : Fits(address, data, t[j])
  BY DEF Writes
<1>2. /\ \A x \in Int : (from <= x /\ x < mid) <=> \E j \in 1..m : x \in BytesOf(s[j])
      /\ \A x \in Int : (mid <= x /\ x < to) <=> \E j \in 1..n : x \in BytesOf(t[j])
  BY DEF Writes
<1>3. m \in Nat /\ n \in Nat
  BY <1>1, LenProperties
<1>4. /\ u \in Seq(Changes) /\ Len(u) = m + n
      /\ \A j \in 1..(m + n) : u[j] = IF j <= m THEN s[j] ELSE t[j - m]
  BY <1>1, ConcatProperties
<1>. HIDE DEF u, m, n
<1>5. \A j \in 1..m : j \in 1..(m + n) /\ u[j] = s[j]
  BY <1>3, <1>4
<1>6. ASSUME NEW j \in 1..n PROVE m + j \in 1..(m + n) /\ u[m + j] = t[j]
  <2>1. m + j \in 1..(m + n) /\ ~(m + j <= m) /\ (m + j) - m = j
    BY <1>3
  <2>. QED  BY <1>4, <2>1
<1>7. ASSUME NEW j \in 1..(m + n), ~(j \in 1..m)
      PROVE  \E k \in 1..n : u[j] = t[k]
  <2>1. j - m \in 1..n /\ ~(j <= m)
    BY <1>3, <1>7
  <2>. QED  BY <1>4, <2>1
<1>8. ASSUME NEW j \in 1..(m + n) PROVE Fits(address, data, u[j])
  <2>1. CASE j \in 1..m
    BY <1>1, <1>5, <2>1
  <2>2. CASE j \notin 1..m
    BY <1>1, <1>7, <2>2
  <2>. QED  BY <2>1, <2>2
<1>9. ASSUME NEW x \in Int
      PROVE  (from <= x /\ x < to) <=> \E j \in 1..(m + n) : x \in BytesOf(u[j])
  <2>1. ASSUME from <= x, x < to PROVE \E j \in 1..(m + n) : x \in BytesOf(u[j])
    <3>1. CASE x < mid
      <4>1. PICK j \in 1..m : x \in BytesOf(s[j])
        BY <1>2, <2>1, <3>1
      <4>. QED  BY <1>5, <4>1
    <3>2. CASE mid <= x
      <4>1. PICK j \in 1..n : x \in BytesOf(t[j])
        BY <1>2, <2>1, <3>2
      <4>. QED  BY <1>6, <4>1
    <3>. QED  BY <3>1, <3>2
  <2>2. ASSUME NEW j \in 1..(m + n), x \in BytesOf(u[j]) PROVE from <= x /\ x < to
    <3>1. CASE j \in 1..m
      <4>1. x \in BytesOf(s[j])
        BY <1>5, <2>2, <3>1
      <4>2. from <= x /\ x < mid
        BY <1>2, <3>1, <4>1
      <4>. QED  BY <4>2
    <3>2. CASE j \notin 1..m
      <4>1. PICK k \in 1..n : u[j] = t[k]
        BY <1>7, <3>2
      <4>2. mid <= x /\ x < to
        BY <1>2, <2>2, <4>1
      <4>. QED  BY <4>2
    <3>. QED  BY <3>1, <3>2
  <2>. QED  BY <2>1, <2>2
<1>10. Writes(address, data, u, from, to)
  BY <1>4, <1>8, <1>9 DEF Writes
<1>. QED  BY <1>10 DEF u

\* A part of the data, at its place.
Part(address, data, i, k, at, into) ==
  /\ address \in Nat /\ data \in Seq(Int) /\ i \in 1..Len(data) /\ k \in i..Len(data)
  /\ at \in Nat /\ at % Word = 0 /\ into \in 0..(Word - 1) /\ at + into = address + i - 1
FitsPart(address, data, i, k, change) ==
  /\ change \in Changes /\ Fits(address, data, change)
  /\ BytesOf(change) = (address + i - 1)..(address + k - 1)

LEMMA PartFits ==
  ASSUME NEW address, NEW data, NEW i, NEW k, NEW at, NEW into,
         Part(address, data, i, k, at, into)
  PROVE  FitsPart(address, data, i, k, Change(at, into, SubSeq(data, i, k)))
<1>0. /\ address \in Nat /\ data \in Seq(Int) /\ i \in 1..Len(data) /\ k \in i..Len(data)
      /\ at \in Nat /\ at % Word = 0 /\ into \in 0..(Word - 1) /\ at + into = address + i - 1
  BY DEF Part
<1>. DEFINE bytes == SubSeq(data, i, k)
            change == Change(at, into, bytes)
<1>1. Len(data) \in Nat /\ \A j \in 1..Len(data) : data[j] \in Int
  BY <1>0, LenOf
<1>2. /\ bytes \in Seq(Int) /\ Len(bytes) = k - i + 1
      /\ \A j \in 1..(k - i + 1) : bytes[j] = data[i + j - 1]
  <2>1. i \in Int /\ k \in Int /\ i <= k /\ \A j \in i..k : data[j] \in Int
    BY <1>0, <1>1
  <2>. QED  BY <2>1, SubSeqProperties
<1>3. into \in Nat
  BY <1>0 DEF Word
<1>4. change.at = at /\ change.offset = into /\ change.bytes = bytes /\ change \in Changes
  BY <1>0, <1>2, <1>3 DEF Change, Changes
<1>. HIDE DEF bytes, change
<1>5. ASSUME NEW j \in 1..(k - i + 1)
      PROVE  LET l == at + into + j - address IN l \in 1..Len(data) /\ bytes[j] = data[l]
  <2>1. at + into + j - address = i + j - 1 /\ i + j - 1 \in 1..Len(data)
    BY <1>0, <1>1, <1>3
  <2>. QED  BY <1>2, <2>1
<1>6. Fits(address, data, change)
  <2>1. Len(bytes) > 0
    BY <1>0, <1>2
  <2>2. \A j \in 1..Len(bytes) :
          LET l == at + into + j - address IN l \in 1..Len(data) /\ bytes[j] = data[l]
    BY <1>2, <1>5
  <2>. QED  BY <1>0, <1>2, <1>4, <2>1, <2>2 DEF Fits
<1>7. BytesOf(change) = (address + i - 1)..(address + k - 1)
  <2>1. BytesOf(change) = (at + into)..(at + into + (k - i + 1) - 1)
    BY <1>2, <1>4 DEF BytesOf
  <2>2. at + into + (k - i + 1) - 1 = address + k - 1
    <3>1. at \in Int /\ into \in Int /\ i \in Int /\ k \in Int /\ address \in Int
          /\ at + into = address + i - 1
      BY <1>0, <1>1, <1>3
    <3>. QED  BY ONLY <3>1
  <2>. QED  BY <1>0, <2>1, <2>2
<1>. QED  BY <1>4, <1>6, <1>7 DEF change, bytes, FitsPart

LEMMA WritesPart ==
  ASSUME NEW address, NEW data, NEW i, NEW k, NEW at, NEW into,
         Part(address, data, i, k, at, into)
  PROVE  Writes(address, data, <<Change(at, into, SubSeq(data, i, k))>>, address + i - 1, address + k)
<1>. DEFINE change == Change(at, into, SubSeq(data, i, k))
<1>1. /\ change \in Changes /\ Fits(address, data, change)
      /\ BytesOf(change) = (address + i - 1)..(address + k - 1)
  BY PartFits DEF FitsPart
<1>. HIDE DEF change
<1>2. <<change>> \in Seq(Changes) /\ Len(<<change>>) = 1 /\ <<change>>[1] = change
  BY <1>1
<1>3. \A x \in Int : x \in (address + i - 1)..(address + k - 1)
                       <=> address + i - 1 <= x /\ x < address + k
  <2>1. address \in Int /\ i \in Int /\ k \in Int
    <3>1. Len(data) \in Nat
      BY LenProperties DEF Part
    <3>. QED  BY <3>1 DEF Part
  <2>. QED  BY <2>1
<1>. DEFINE from == address + i - 1
            to == address + k
<1>4. Writes(address, data, <<change>>, from, to)
  <2>1. \A x \in Int : (from <= x /\ x < to) <=> x \in BytesOf(change)
    BY <1>1, <1>3
  <2>. HIDE DEF from, to
  <2>2. 1..1 = {1}
    OBVIOUS
  <2>3. \A x \in Int : (\E j \in 1..Len(<<change>>) : x \in BytesOf(<<change>>[j])) <=> x \in BytesOf(change)
    BY <1>2, <2>2
  <2>4. \A j \in 1..Len(<<change>>) : Fits(address, data, <<change>>[j])
    BY <1>1, <1>2, <2>2
  <2>. QED  BY <1>2, <2>1, <2>3, <2>4 DEF Writes
<1>. QED  BY <1>4 DEF change

\* The unaligned ends, around whatever writes the middle.
LEMMA EdgesWrite ==
  ASSUME NEW address \in Nat, NEW data \in Seq(Int), NEW middle,
         LET n == PrefixSize(address, Len(data))
             rest == (Len(data) - n) % Word
         IN Writes(address, data, middle, address + n, address + Len(data) - rest)
  PROVE  Writes(address, data, Edges(address, data, middle), address, address + Len(data))
<1>. DEFINE size == Len(data)
            n == PrefixSize(address, size)
            rest == (size - n) % Word
            prefix == IF n = 0 THEN <<>>
                      ELSE <<Change(Aligned(address), address % Word, SubSeq(data, 1, n))>>
            suffix == IF rest = 0 THEN <<>>
                      ELSE <<Change(address + size - rest, 0, SubSeq(data, size - rest + 1, size))>>
<1>1. /\ size \in Nat /\ n \in 0..size /\ rest \in 0..(size - n) /\ rest < Word
      /\ n < size => (address + n) % Word = 0
      /\ rest # 0 => (address + size - rest) % Word = 0
  <2>1. size \in Nat
    BY LenProperties
  <2>. HIDE DEF size
  <2>2. n \in 0..size /\ (n < size => (address + n) % 4 = 0)
    BY <2>1 DEF PrefixSize, AtMost, Word
  <2>. HIDE DEF n
  <2>3. rest \in 0..(size - n) /\ rest < 4
    BY <2>1, <2>2 DEF Word
  <2>4. ASSUME rest # 0 PROVE (address + size - rest) % 4 = 0
    <3>1. n < size /\ (address + n) % 4 = 0
      BY <2>1, <2>2, <2>3, <2>4
    <3>. DEFINE d == size - n
    <3>2. d \in Nat /\ size = n + d
      BY <2>1, <2>2
    <3>3. rest = d % 4
      BY DEF Word
    <3>. HIDE DEF d, rest
    <3>4. n \in Nat
      BY <2>1, <2>2
    <3>. QED  BY <3>1, <3>2, <3>3, <3>4
  <2>. QED  BY <2>1, <2>2, <2>3, <2>4 DEF Word
<1>2. Writes(address, data, middle, address + n, address + size - rest)
  OBVIOUS
<1>3. Edges(address, data, middle) = prefix \o middle \o suffix
  BY DEF Edges
<1>4. Writes(address, data, prefix, address, address + n)
  <2>1. CASE n = 0
    <3>1. address + n = address /\ address \in Int
      BY <2>1
    <3>2. prefix = <<>>
      BY <2>1
    <3>. HIDE DEF prefix, n
    <3>. QED  BY <3>1, <3>2, WritesNone
  <2>2. CASE n # 0
    <3>1. n \in 1..size /\ 1 \in 1..size /\ n \in 1..size
      BY <1>1, <2>2
    <3>2. /\ Aligned(address) \in Nat /\ Aligned(address) % Word = 0 /\ address % Word \in 0..(Word - 1)
          /\ Aligned(address) + (address % Word) = address + 1 - 1
      BY DEF Aligned, Word
    <3>3. Part(address, data, 1, n, Aligned(address), address % Word)
      <4>. HIDE DEF n
      <4>. QED  BY <3>1, <3>2 DEF Part
    <3>4. prefix = <<Change(Aligned(address), address % Word, SubSeq(data, 1, n))>>
      BY <2>2
    <3>5. address + 1 - 1 = address
      OBVIOUS
    <3>. HIDE DEF n, prefix
    <3>6. Writes(address, data, <<Change(Aligned(address), address % Word, SubSeq(data, 1, n))>>,
                 address + 1 - 1, address + n)
      BY <3>3, WritesPart
    <3>. QED  BY <3>4, <3>5, <3>6
  <2>. QED  BY <2>1, <2>2
<1>5. Writes(address, data, suffix, address + size - rest, address + size)
  <2>1. CASE rest = 0
    <3>1. address + size - rest = address + size /\ address + size \in Int
      BY <1>1, <2>1
    <3>2. suffix = <<>>
      BY <2>1
    <3>. HIDE DEF suffix, rest, size
    <3>. QED  BY <3>1, <3>2, WritesNone
  <2>2. CASE rest # 0
    <3>. DEFINE i == size - rest + 1
                at == address + size - rest
    <3>1. /\ i \in 1..size /\ size \in i..size /\ at \in Nat /\ at % Word = 0
          /\ 0 \in 0..(Word - 1) /\ at + 0 = address + i - 1 /\ address + i - 1 = at
      <4>. HIDE DEF rest, size, n
      <4>. QED  BY <1>1, <2>2 DEF Word
    <3>2. Part(address, data, i, size, at, 0)
      <4>. HIDE DEF i, at
      <4>. QED  BY <3>1 DEF Part
    <3>3. suffix = <<Change(at, 0, SubSeq(data, i, size))>>
      BY <2>2
    <3>. HIDE DEF i, at, suffix
    <3>4. Writes(address, data, <<Change(at, 0, SubSeq(data, i, size))>>, address + i - 1, address + size)
      BY <3>2, WritesPart
    <3>5. Writes(address, data, suffix, at, address + size)
      BY <3>1, <3>3, <3>4
    <3>. QED  BY <3>5 DEF at
  <2>. QED  BY <2>1, <2>2
<1>. HIDE DEF prefix, suffix, n, rest, size
<1>. DEFINE mid == address + n
            last == address + size - rest
            end == address + size
<1>6. /\ address \in Int /\ mid \in Int /\ last \in Int /\ end \in Int
      /\ address <= mid /\ mid <= last /\ last <= end /\ address <= last
  BY <1>1
<1>7. /\ Writes(address, data, prefix, address, mid) /\ Writes(address, data, middle, mid, last)
      /\ Writes(address, data, suffix, last, end)
  BY <1>2, <1>4, <1>5
<1>. HIDE DEF mid, last, end
<1>8. Writes(address, data, prefix \o middle, address, last)
  BY <1>6, <1>7, WritesJoin
<1>9. Writes(address, data, (prefix \o middle) \o suffix, address, end)
  BY <1>6, <1>7, <1>8, WritesJoin
<1>. QED  BY <1>3, <1>9 DEF end, size

\* The aligned middle, what comes before it and what follows it.
LEMMA MiddleOf ==
  ASSUME NEW address \in Nat, NEW data \in Seq(Int)
  PROVE  LET size  == Len(data)
             n     == PrefixSize(address, size)
             words == (size - n) \div Word
             rest  == (size - n) % Word
         IN /\ size \in Nat /\ n \in 0..size /\ words \in Nat /\ rest \in 0..(Word - 1)
            /\ size = n + 4 * words + rest
            /\ words # 0 => (address + n) % Word = 0
<1>. DEFINE size == Len(data)
            n == PrefixSize(address, size)
            words == (size - n) \div Word
            rest == (size - n) % Word
<1>1. size \in Nat
  BY LenProperties
<1>. HIDE DEF size
<1>2. n \in 0..size /\ (n < size => (address + n) % 4 = 0)
  BY <1>1 DEF PrefixSize, AtMost, Word
<1>. HIDE DEF n
<1>3. words \in Nat /\ rest \in 0..3 /\ size - n = 4 * words + rest
  <2>. DEFINE d == size - n
  <2>1. d \in Nat
    BY <1>1, <1>2
  <2>. HIDE DEF d
  <2>. DEFINE q == d \div 4
              r == d % 4
  <2>2. q \in Nat /\ r \in 0..3
    BY <2>1
  <2>3. d = 4 * q + r
    BY <2>1
  <2>4. words = q /\ rest = r
    BY DEF d, Word
  <2>. HIDE DEF q, r, words, rest
  <2>. QED  BY <2>2, <2>3, <2>4 DEF d
<1>. HIDE DEF words, rest
<1>4. size = n + 4 * words + rest
  BY <1>1, <1>2, <1>3
<1>5. words # 0 => (address + n) % Word = 0
  BY <1>1, <1>2, <1>3, <1>4 DEF Word
<1>6. rest \in 0..(Word - 1)
  BY <1>3 DEF Word
<1>7. /\ size \in Nat /\ n \in 0..size /\ words \in Nat /\ rest \in 0..(Word - 1)
      /\ size = n + 4 * words + rest
      /\ words # 0 => (address + n) % Word = 0
  BY <1>1, <1>2, <1>3, <1>4, <1>5, <1>6
<1>. QED  BY <1>7 DEF size, n, words, rest

LEMMA UmdWrites ==
  ASSUME NEW address \in Nat, NEW data \in Seq(Int)
  PROVE  Writes(address, data, UmdChanges(address, data), address, address + Len(data))
<1>. DEFINE size == Len(data)
            n == PrefixSize(address, size)
            words == (size - n) \div Word
            rest == (size - n) % Word
            middle == IF words = 0 THEN <<>>
                      ELSE <<Change(address + n, 0, SubSeq(data, n + 1, n + words * Word))>>
<1>1. /\ size \in Nat /\ n \in 0..size /\ words \in Nat /\ rest \in 0..(Word - 1)
      /\ size = n + 4 * words + rest
      /\ words # 0 => (address + n) % Word = 0
  BY MiddleOf
<1>2. UmdChanges(address, data) = Edges(address, data, middle)
  BY DEF UmdChanges
<1>. HIDE DEF n, words, rest, size
<1>3. address + n \in Int /\ address + size - rest = address + n + 4 * words
  BY <1>1 DEF Word
<1>4. Writes(address, data, middle, address + n, address + size - rest)
  <2>1. CASE words = 0
    <3>1. address + n = address + size - rest /\ middle = <<>>
      BY <1>1, <1>3, <2>1
    <3>. HIDE DEF middle
    <3>. QED  BY <1>3, <3>1, WritesNone
  <2>2. CASE words # 0
    <3>. DEFINE i == n + 1
                k == n + words * Word
                at == address + n
    <3>1. /\ i \in 1..size /\ k \in i..size /\ at \in Nat /\ at % Word = 0
          /\ 0 \in 0..(Word - 1) /\ at + 0 = address + i - 1
          /\ address + i - 1 = at /\ address + k = address + size - rest
      BY <1>1, <2>2 DEF Word
    <3>2. middle = <<Change(at, 0, SubSeq(data, i, k))>>
      BY <2>2
    <3>. HIDE DEF i, k, at, middle
    <3>3. Part(address, data, i, k, at, 0)
      BY <3>1 DEF Part, size
    <3>4. Writes(address, data, <<Change(at, 0, SubSeq(data, i, k))>>, address + i - 1, address + k)
      BY <3>3, WritesPart
    <3>5. Writes(address, data, middle, at, address + size - rest)
      BY <3>1, <3>2, <3>4
    <3>. QED  BY <3>5 DEF at
  <2>. QED  BY <2>1, <2>2
<1>. HIDE DEF middle
<1>5. Writes(address, data, Edges(address, data, middle), address, address + Len(data))
  BY <1>4, EdgesWrite DEF n, rest, size
<1>. QED  BY <1>2, <1>5

LEMMA RiscWrites ==
  ASSUME NEW address \in Nat, NEW data \in Seq(Int)
  PROVE  Writes(address, data, RiscChanges(address, data), address, address + Len(data))
<1>. DEFINE size == Len(data)
            n == PrefixSize(address, size)
            words == (size - n) \div Word
            rest == (size - n) % Word
            E(k) == Change(address + n + (k - 1) * Word, 0,
                           SubSeq(data, n + (k - 1) * Word + 1, n + k * Word))
            middle == [k \in 1..words |-> E(k)]
<1>1. /\ size \in Nat /\ n \in 0..size /\ words \in Nat /\ rest \in 0..(Word - 1)
      /\ size = n + 4 * words + rest
      /\ words # 0 => (address + n) % Word = 0
  BY MiddleOf
<1>2. RiscChanges(address, data) = Edges(address, data, middle)
  BY DEF RiscChanges
<1>. HIDE DEF n, words, rest, size
<1>3. ASSUME NEW k \in 1..words
      PROVE  /\ E(k) \in Changes /\ Fits(address, data, E(k))
             /\ BytesOf(E(k)) = (address + n + 4 * (k - 1))..(address + n + 4 * k - 1)
  <2>. DEFINE i == n + (k - 1) * Word + 1
              l == n + k * Word
              at == address + n + (k - 1) * Word
  <2>1. i \in 1..size /\ l \in i..size /\ at \in Nat /\ 0 \in 0..(Word - 1)
        /\ at + 0 = address + i - 1 /\ address + i - 1 = address + n + 4 * (k - 1)
        /\ address + l - 1 = address + n + 4 * k - 1
    BY <1>1 DEF Word
  <2>2. at % Word = 0
    <3>1. (address + n) % 4 = 0
      BY <1>1 DEF Word
    <3>. DEFINE b == address + n
    <3>2. b \in Nat /\ at = b + (k - 1) * 4 /\ k - 1 \in Nat
      BY <1>1 DEF Word
    <3>. HIDE DEF b, at
    <3>3. b % 4 = 0
      BY <3>1 DEF b
    <3>. QED  BY <3>2, <3>3 DEF Word
  <2>3. E(k) = Change(at, 0, SubSeq(data, i, l))
    OBVIOUS
  <2>. HIDE DEF i, l, at, E
  <2>4. Part(address, data, i, l, at, 0)
    BY <2>1, <2>2 DEF Part, size
  <2>5. FitsPart(address, data, i, l, E(k))
    BY <2>3, <2>4, PartFits
  <2>. QED  BY <2>1, <2>5 DEF FitsPart
<1>. HIDE DEF E
<1>4. middle \in Seq(Changes) /\ Len(middle) = words /\ \A k \in 1..words : middle[k] = E(k)
  <2>1. middle \in [1..words -> Changes]
    BY <1>3
  <2>2. \A k \in 1..words : middle[k] = E(k)
    OBVIOUS
  <2>. HIDE DEF middle
  <2>. QED  BY <1>1, <2>1, <2>2, SeqDef, LenProperties
<1>. HIDE DEF middle
<1>. DEFINE from == address + n
            to == address + size - rest
<1>5. from \in Int /\ to \in Int /\ to = from + 4 * words
  BY <1>1 DEF Word
<1>6. ASSUME NEW x \in Int
      PROVE  (from <= x /\ x < to) <=> \E k \in 1..words : x \in BytesOf(middle[k])
  <2>1. ASSUME from <= x, x < to PROVE \E k \in 1..words : x \in BytesOf(middle[k])
    <3>. DEFINE d == x - from
                k == (d \div 4) + 1
    <3>1. d \in Nat /\ d < 4 * words
      <4>. HIDE DEF from, to
      <4>. QED  BY <1>1, <1>5, <2>1
    <3>2. k \in 1..words /\ 4 * (k - 1) <= d /\ d <= 4 * k - 1
      <4>. HIDE DEF d
      <4>. QED  BY <1>1, <3>1
    <3>3. x = from + d
      <4>. HIDE DEF from
      <4>. QED  BY <1>5
    <3>. HIDE DEF d, k
    <3>4. x \in (address + n + 4 * (k - 1))..(address + n + 4 * k - 1)
      <4>1. address + n + 4 * (k - 1) = from + 4 * (k - 1)
            /\ address + n + 4 * k - 1 = from + (4 * k - 1)
        BY <1>1, <3>2
      <4>. HIDE DEF from
      <4>. QED  BY <1>5, <3>1, <3>2, <3>3, <4>1
    <3>. QED  BY <1>3, <1>4, <3>2, <3>4
  <2>2. ASSUME NEW k \in 1..words, x \in BytesOf(middle[k]) PROVE from <= x /\ x < to
    <3>1. x \in (address + n + 4 * (k - 1))..(address + n + 4 * k - 1)
      BY <1>3, <1>4, <2>2
    <3>2. address + n + 4 * (k - 1) = from + 4 * (k - 1)
          /\ address + n + 4 * k - 1 = from + (4 * k - 1)
      BY <1>1
    <3>. HIDE DEF from, to
    <3>. QED  BY <1>1, <1>5, <3>1, <3>2
  <2>. QED  BY <2>1, <2>2
<1>7. Writes(address, data, middle, from, to)
  <2>. HIDE DEF from, to
  <2>. QED  BY <1>3, <1>4, <1>6 DEF Writes
<1>8. Writes(address, data, Edges(address, data, middle), address, address + Len(data))
  BY <1>7, EdgesWrite DEF n, rest, size
<1>. QED  BY <1>2, <1>8

\* A write that starts over makes the same changes, some of them twice.
LEMMA RetriedWrites ==
  ASSUME NEW address \in Nat, NEW data \in Seq(Int), NEW changes,
         Writes(address, data, changes, address, address + Len(data)),
         NEW done \in 0..Len(changes)
  PROVE  Writes(address, data, Retried(changes, done), address, address + Len(data))
<1>. DEFINE m == Len(changes)
            s == SubSeq(changes, 1, done)
            u == s \o changes
<1>1. /\ changes \in Seq(Changes) /\ m \in Nat
      /\ \A j \in 1..m : Fits(address, data, changes[j])
      /\ \A x \in Int : (address <= x /\ x < address + Len(data))
                          <=> \E j \in 1..m : x \in BytesOf(changes[j])
  BY LenProperties DEF Writes
<1>2. s \in Seq(Changes) /\ Len(s) = done /\ \A j \in 1..done : s[j] = changes[j]
  <2>1. \A j \in 1..done : changes[j] \in Changes
    BY <1>1, LenOf
  <2>2. 1 \in Int /\ done \in Int /\ done - 1 + 1 = done /\ done \in Nat
    BY <1>1
  <2>3. s \in Seq(Changes) /\ Len(s) = (IF 1 <= done THEN done - 1 + 1 ELSE 0)
        /\ \A j \in 1..(done - 1 + 1) : s[j] = changes[1 + j - 1]
    BY <2>1, <2>2, SubSeqProperties
  <2>. HIDE DEF s
  <2>. QED  BY <2>2, <2>3
<1>. HIDE DEF s, m
<1>3. /\ u \in Seq(Changes) /\ Len(u) = done + m
      /\ \A j \in 1..(done + m) : u[j] = IF j <= done THEN s[j] ELSE changes[j - done]
  BY ZenonT(60), <1>1, <1>2, ConcatProperties DEF m
<1>. HIDE DEF u
<1>4. done \in 0..m
  BY DEF m
<1>5. ASSUME NEW j \in 1..(done + m) PROVE \E k \in 1..m : u[j] = changes[k]
  <2>1. CASE j <= done
    <3>1. j \in 1..done /\ j \in 1..m
      BY <1>1, <1>4, <2>1
    <3>. QED  BY <1>2, <1>3, <2>1, <3>1
  <2>2. CASE ~(j <= done)
    <3>1. j - done \in 1..m
      BY <1>1, <1>4, <2>2
    <3>. QED  BY <1>3, <2>2, <3>1
  <2>. QED  BY <2>1, <2>2
<1>6. ASSUME NEW k \in 1..m PROVE \E j \in 1..(done + m) : u[j] = changes[k]
  <2>1. done + k \in 1..(done + m) /\ ~(done + k <= done) /\ (done + k) - done = k
    BY <1>1, <1>4
  <2>. QED  BY <1>3, <2>1
<1>7. \A j \in 1..(done + m) : Fits(address, data, u[j])
  BY <1>1, <1>5
<1>8. ASSUME NEW x
      PROVE  (\E j \in 1..(done + m) : x \in BytesOf(u[j])) <=> \E k \in 1..m : x \in BytesOf(changes[k])
  BY <1>5, <1>6
<1>9. Writes(address, data, u, address, address + Len(data))
  BY <1>1, <1>3, <1>7, <1>8 DEF Writes
<1>. QED  BY <1>9 DEF Retried, u, s

\* The words of a change are words of the range.
LEMMA FitsCovers ==
  ASSUME NEW address \in Nat, NEW data \in Seq(Int), NEW change, Fits(address, data, change)
  PROVE  /\ change.at = Aligned(change.at)
         /\ {Aligned(x) : x \in Covered(change)}
              \subseteq {Aligned(address + i - 1) : i \in DOMAIN data}
<1>. DEFINE at == change.at
            o == change.offset
            n == Len(change.bytes)
<1>1. /\ at \in Nat /\ at % 4 = 0 /\ o \in 0..3 /\ n \in Nat /\ n > 0
      /\ \A k \in 1..n : at + o + k - address \in 1..Len(data)
  BY LenProperties DEF Fits, Word
<1>2. DOMAIN data = 1..Len(data) /\ Len(data) \in Nat
  BY LenOf
<1>3. at = Aligned(at)
  BY <1>1 DEF Aligned, Word
<1>4. Covered(change) = at..(Aligned(((at + o) + n) + 4 - 1) - 1)
  BY DEF Covered, Word
<1>. HIDE DEF at, o, n
<1>5. ASSUME NEW x \in Covered(change)
      PROVE  \E i \in DOMAIN data : Aligned(x) = Aligned(address + i - 1)
  <2>. DEFINE y == ((at + o) + n) + 4 - 1
              w == Aligned(x)
              z == Aligned(y)
  <2>1. y \in Nat
    BY <1>1
  <2>. HIDE DEF y
  <2>2. z \in Int /\ z % 4 = 0 /\ z <= y
    BY <2>1 DEF Aligned, Word
  <2>. HIDE DEF z
  <2>3. x \in at..(z - 1)
    BY <1>4 DEF z, y
  <2>4. x \in Nat /\ at <= x /\ x < z
    BY <1>1, <2>2, <2>3
  <2>5. w \in Nat /\ w % 4 = 0 /\ w <= x /\ at <= w
    BY <1>1, <2>4 DEF Aligned, Word
  <2>. HIDE DEF w
  <2>6. w + 4 <= z
    BY <2>2, <2>4, <2>5
  <2>7. w < (at + o) + n
    BY <1>1, <2>2, <2>5, <2>6 DEF y
  <2>8. CASE at + o <= w
    <3>. DEFINE k == w - (at + o) + 1
                i == at + o + k - address
    <3>1. k \in 1..n
      BY <1>1, <2>5, <2>7, <2>8
    <3>2. i \in 1..Len(data)
      <4>. HIDE DEF k
      <4>. QED  BY <1>1, <3>1
    <3>3. i = w + 1 - address
      BY <1>1, <2>5
    <3>. HIDE DEF i, k
    <3>4. address + i - 1 = w
      BY <2>5, <3>3
    <3>5. Aligned(w) = w
      BY <2>5 DEF Aligned, Word
    <3>. QED  BY <1>2, <3>2, <3>4, <3>5 DEF w
  <2>9. CASE w < at + o
    <3>. DEFINE i == at + o + 1 - address
    <3>1. i \in 1..Len(data)
      BY <1>1
    <3>2. w = at
      BY <1>1, <2>5, <2>9
    <3>3. address + i - 1 = at + o
      BY <1>1
    <3>4. Aligned(at + o) = at
      BY <1>1 DEF Aligned, Word
    <3>. HIDE DEF i
    <3>. QED  BY <1>2, <3>1, <3>2, <3>3, <3>4 DEF w
  <2>. QED  BY <1>1, <2>5, <2>8, <2>9
<1>. QED  BY <1>3, <1>5 DEF at

\* The answer of an access job.
AccessAnswered(x, value) ==
  /\ value.read = [i \in DOMAIN x.data |-> x.memory[x.address + i - 1]]
  /\ value.memory = [y \in DOMAIN x.memory |->
                       IF y - x.address \in 0..(Len(x.data) - 1)
                       THEN x.data[y - x.address + 1] ELSE x.memory[y]]
  /\ \A change \in ToSet(value.changes) :
       /\ change.at = Aligned(change.at)
       /\ {Aligned(y) : y \in Covered(change)}
            \subseteq {Aligned(x.address + i - 1) : i \in DOMAIN x.data}
AccessValue(x, done) ==
  LET changes == IF x.umd THEN UmdChanges(x.address, x.data) ELSE RiscChanges(x.address, x.data)
      all == Retried(changes, done)
  IN [read |-> ReadBytes(x.memory, x.address, Len(x.data)),
      changes |-> all, memory |-> WriteMemory(x.memory, all)]

LEMMA AccessAnswer ==
  ASSUME NEW x \in AccessJobs, NEW done,
         LET changes == IF x.umd THEN UmdChanges(x.address, x.data)
                                 ELSE RiscChanges(x.address, x.data)
         IN done \in 0..(IF x.umd THEN Len(changes) ELSE 0)
  PROVE  AccessAnswered(x, AccessValue(x, done))
<1>. DEFINE address == x.address
            data == x.data
            memory == x.memory
            changes == IF x.umd THEN UmdChanges(address, data) ELSE RiscChanges(address, data)
            all == Retried(changes, done)
            N == Len(all)
            at == UNION {BytesOf(all[j]) : j \in 1..N}
<1>1. /\ DOMAIN memory \subseteq Nat /\ memory \in [DOMAIN memory -> Int]
      /\ address \in Nat /\ data \in Seq(Int)
  BY AccessJobsAssumption
<1>2. Len(data) \in Nat /\ DOMAIN data = 1..Len(data)
  BY <1>1, LenOf
<1>3. done \in 0..(IF x.umd THEN Len(changes) ELSE 0)
  OBVIOUS
<1>. HIDE DEF address, data, memory
<1>4. Writes(address, data, changes, address, address + Len(data))
  BY <1>1, UmdWrites, RiscWrites
<1>. HIDE DEF changes
<1>5. done \in 0..Len(changes)
  <2>1. Len(changes) \in Nat
    BY <1>4, LenProperties DEF Writes
  <2>. QED  BY <1>3, <2>1
<1>6. Writes(address, data, all, address, address + Len(data))
  BY <1>1, <1>4, <1>5, RetriedWrites
<1>. HIDE DEF all
<1>7. /\ all \in Seq(Changes) /\ N \in Nat /\ DOMAIN all = 1..N
      /\ \A j \in 1..N : Fits(address, data, all[j])
      /\ \A y \in Int : (address <= y /\ y < address + Len(data))
                          <=> \E j \in 1..N : y \in BytesOf(all[j])
  <2>1. all \in Seq(Changes)
    BY <1>6 DEF Writes
  <2>. QED  BY <1>6, <2>1, LenOf DEF Writes
<1>8. WriteMemory(memory, all) = Patched(memory, address, data, at)
  <2>1. Patchable(memory, address, data, all, N)
    BY <1>1, <1>7 DEF Patchable
  <2>. HIDE DEF N
  <2>. QED  BY <2>1, WritesPatch
<1>9. Patched(memory, address, data, at) =
        [y \in DOMAIN memory |-> IF y - address \in 0..(Len(data) - 1)
                                 THEN data[y - address + 1] ELSE memory[y]]
  <2>1. ASSUME NEW y \in DOMAIN memory PROVE y \in at <=> y - address \in 0..(Len(data) - 1)
    <3>1. y \in Nat
      BY <1>1
    <3>2. y \in at <=> \E j \in 1..N : y \in BytesOf(all[j])
      OBVIOUS
    <3>3. y \in at <=> address <= y /\ y < address + Len(data)
      BY <1>7, <3>1, <3>2
    <3>. HIDE DEF at
    <3>. QED  BY <1>1, <1>2, <3>1, <3>3
  <2>. HIDE DEF at
  <2>. QED  BY <2>1 DEF Patched
<1>10. ReadBytes(memory, address, Len(data)) = [i \in DOMAIN data |-> memory[address + i - 1]]
  <2>1. ReadBytes(memory, address, Len(data)) = Segment(memory, address, Len(data))
    BY <1>1, <1>2, ReadsTheRange
  <2>. QED  BY <1>2, <2>1 DEF Segment
<1>11. ASSUME NEW change \in ToSet(all)
       PROVE  /\ change.at = Aligned(change.at)
              /\ {Aligned(y) : y \in Covered(change)}
                   \subseteq {Aligned(address + i - 1) : i \in DOMAIN data}
  <2>1. PICK j \in 1..N : change = all[j]
    BY <1>7 DEF ToSet
  <2>2. Fits(address, data, change)
    BY <1>7, <2>1
  <2>. QED  BY <1>1, <2>2, FitsCovers
<1>12. /\ ReadBytes(memory, address, Len(data)) = [i \in DOMAIN data |-> memory[address + i - 1]]
       /\ WriteMemory(memory, all) =
            [y \in DOMAIN memory |-> IF y - address \in 0..(Len(data) - 1)
                                     THEN data[y - address + 1] ELSE memory[y]]
       /\ \A change \in ToSet(all) :
            /\ change.at = Aligned(change.at)
            /\ {Aligned(y) : y \in Covered(change)}
                 \subseteq {Aligned(address + i - 1) : i \in DOMAIN data}
  <2>. HIDE DEF at, N
  <2>. QED  BY <1>8, <1>9, <1>10, <1>11
<1>13. AccessValue(x, done) = [read |-> ReadBytes(memory, address, Len(data)),
                               changes |-> all, memory |-> WriteMemory(memory, all)]
  BY DEF AccessValue, all, changes, address, data, memory
<1>14. AccessAnswered(x, [read |-> ReadBytes(memory, address, Len(data)),
                          changes |-> all, memory |-> WriteMemory(memory, all)])
  <2>. HIDE DEF N, at
  <2>. QED  BY <1>12 DEF AccessAnswered, address, data, memory
<1>. QED  BY <1>13, <1>14

\* A read returns the bytes of its range and a write changes these alone,
\* through word accesses that touch no other word, also when the write of UMD
\* starts over (risc_debug.py 184-255, umd_device.py 185-292).
THEOREM BytesReadAndWritten == HostSpec => []BytesExact
<1>0. /\ BytesExact <=> (Answered("access") => AccessAnswered(job.call, answer.value))
      /\ BytesExact' <=> (answer'.done /\ job'.kind = "access"
                           => AccessAnswered(job'.call, answer'.value))
  BY DEF BytesExact, AccessAnswered, Answered, a, c
<1>1. HostInit => BytesExact
  BY DEF HostInit, BytesExact, Answered
<1>2. JobInv /\ BytesExact /\ [HostNext]_hostVars => BytesExact'
  <2>. SUFFICES ASSUME JobInv, BytesExact, [HostNext]_hostVars PROVE BytesExact'
    OBVIOUS
  <2>1. CASE answer' = answer
    BY <1>0, <2>1, JobStep DEF Answered
  <2>2. CASE AccessBytes /\ JobOf("access")
    <3>. DEFINE x == job.call
                changes == IF x.umd THEN UmdChanges(x.address, x.data)
                                    ELSE RiscChanges(x.address, x.data)
    <3>1. x \in AccessJobs /\ job' = job
      BY <2>2, JobStep DEF JobOf, JobsOf
    <3>2. PICK done \in 0..(IF x.umd THEN Len(changes) ELSE 0) :
            answer'.value = AccessValue(x, done)
      BY <2>2 DEF AccessBytes, Answer, c, AccessValue
    <3>3. AccessAnswered(x, AccessValue(x, done))
      BY <3>1, AccessAnswer
    <3>. HIDE DEF changes
    <3>. QED  BY <1>0, <3>1, <3>2, <3>3
  <2>3. ASSUME job.kind # "access" PROVE BytesExact'
    BY <1>0, <2>3, JobStep
  <2>. QED  BY <2>1, <2>2, <2>3, JobStep DEF JobOf
<1>. QED  BY JobInit, JobStep, <1>1, <1>2, PTL DEF HostSpec

---------------------------------------------------------------------------
(* Recursive functions: a function exists whose value at each place is     *)
(* given by its values at places of a smaller measure.                     *)

\* The steps of an iteration.
IsIteration(S, base, next, n, h) ==
  h \in [0..n -> S] /\ h[0] = base /\ \A k \in 1..n : h[k] = next[h[k - 1]]

LEMMA IterationUpTo ==
  ASSUME NEW S, NEW base \in S, NEW next \in [S -> S], NEW n \in Nat
  PROVE  \E h : IsIteration(S, base, next, n, h)
<1>. DEFINE T == {k \in Nat : \E h : IsIteration(S, base, next, k, h)}
<1>1. 0 \in T
  <2>. DEFINE h == [k \in 0..0 |-> base]
  <2>1. h \in [0..0 -> S] /\ h[0] = base /\ \A k \in 1..0 : h[k] = next[h[k - 1]]
    OBVIOUS
  <2>2. IsIteration(S, base, next, 0, h)
    <3>. HIDE DEF h
    <3>. QED  BY <2>1 DEF IsIteration
  <2>. QED  BY <2>2
<1>2. ASSUME NEW k \in T PROVE k + 1 \in T
  <2>1. PICK h : IsIteration(S, base, next, k, h)
    OBVIOUS
  <2>2. h \in [0..k -> S] /\ h[0] = base /\ \A i \in 1..k : h[i] = next[h[i - 1]]
    BY <2>1 DEF IsIteration
  <2>. DEFINE e == [i \in 0..(k + 1) |-> IF i = k + 1 THEN next[h[k]] ELSE h[i]]
  <2>3. e \in [0..(k + 1) -> S]
    <3>1. ASSUME NEW i \in 0..(k + 1) PROVE (IF i = k + 1 THEN next[h[k]] ELSE h[i]) \in S
      <4>1. CASE i = k + 1
        BY <2>2, <4>1
      <4>2. CASE i # k + 1
        <5>1. i \in 0..k
          BY <4>2
        <5>. QED  BY <2>2, <4>2, <5>1
      <4>. QED  BY <4>1, <4>2
    <3>. QED  BY <3>1
  <2>4. e[0] = base
    BY <2>2
  <2>5. ASSUME NEW i \in 1..(k + 1) PROVE e[i] = next[e[i - 1]]
    <3>1. i - 1 \in 0..k /\ i - 1 \in 0..(k + 1) /\ i \in 0..(k + 1) /\ i - 1 # k + 1
      OBVIOUS
    <3>2. e[i - 1] = h[i - 1]
      BY <3>1
    <3>3. CASE i = k + 1
      <4>1. e[i] = next[h[k]] /\ i - 1 = k
        BY <3>3
      <4>. HIDE DEF e
      <4>. QED  BY <3>2, <4>1
    <3>4. CASE i # k + 1
      <4>1. i \in 1..k /\ i \in 0..k
        BY <3>4
      <4>2. e[i] = h[i]
        BY <3>1, <3>4
      <4>. HIDE DEF e
      <4>. QED  BY <2>2, <3>2, <4>1, <4>2
    <3>. QED  BY <3>3, <3>4
  <2>6. IsIteration(S, base, next, k + 1, e)
    <3>. HIDE DEF e
    <3>. QED  BY <2>3, <2>4, <2>5 DEF IsIteration
  <2>. QED  BY <2>6
<1>3. T = Nat
  <2>1. T \in SUBSET Nat
    OBVIOUS
  <2>. HIDE DEF T
  <2>. QED  BY <1>1, <1>2, <2>1, Induction
<1>. QED  BY <1>3

LEMMA IterationsAgree ==
  ASSUME NEW S, NEW base \in S, NEW next \in [S -> S], NEW m \in Nat, NEW n \in Nat, m <= n,
         NEW g, NEW h, IsIteration(S, base, next, m, g), IsIteration(S, base, next, n, h)
  PROVE  g[m] = h[m]
<1>1. g[0] = base /\ \A k \in 1..m : g[k] = next[g[k - 1]]
  BY DEF IsIteration
<1>2. h[0] = base /\ \A k \in 1..n : h[k] = next[h[k - 1]]
  BY DEF IsIteration
<1>. DEFINE T == {k \in 0..m : g[k] = h[k]}
<1>3. 0 \in T
  BY <1>1, <1>2
<1>4. ASSUME NEW k \in 0..(m - 1), k \in T PROVE k + 1 \in T
  <2>1. k + 1 \in 1..m /\ k + 1 \in 1..n /\ (k + 1) - 1 = k /\ k + 1 \in 0..m
    OBVIOUS
  <2>2. g[k + 1] = next[g[k]]
    BY <1>1, <2>1
  <2>3. h[k + 1] = next[h[k]]
    BY <1>2, <2>1
  <2>. QED  BY <1>4, <2>1, <2>2, <2>3
<1>5. 0..m \subseteq T
  <2>. HIDE DEF T
  <2>. QED  BY <1>3, <1>4, BoundedInduction
<1>. QED  BY <1>5

\* An iteration without end.
LEMMA Iteration ==
  ASSUME NEW S, NEW base \in S, NEW next \in [S -> S]
  PROVE  \E h \in [Nat -> S] : h[0] = base /\ \A n \in Nat : h[n + 1] = next[h[n]]
<1>. DEFINE UpTo(n) == CHOOSE g : IsIteration(S, base, next, n, g)
            h == [n \in Nat |-> UpTo(n)[n]]
<1>1. ASSUME NEW n \in Nat PROVE IsIteration(S, base, next, n, UpTo(n))
  <2>1. \E g : IsIteration(S, base, next, n, g)
    BY IterationUpTo
  <2>. QED  BY <2>1, Zenon
<1>. HIDE DEF Up
<1>2. ASSUME NEW n \in Nat
      PROVE  UpTo(n) \in [0..n -> S] /\ UpTo(n)[0] = base /\ \A k \in 1..n : UpTo(n)[k] = next[UpTo(n)[k - 1]]
  BY <1>1 DEF IsIteration
<1>3. h \in [Nat -> S]
  <2>1. ASSUME NEW n \in Nat PROVE UpTo(n)[n] \in S
    <3>1. n \in 0..n
      OBVIOUS
    <3>. QED  BY <1>2, <3>1
  <2>. QED  BY <2>1
<1>4. h[0] = base
  BY <1>2
<1>5. ASSUME NEW n \in Nat PROVE h[n + 1] = next[h[n]]
  <2>1. n + 1 \in Nat /\ n + 1 \in 1..(n + 1) /\ (n + 1) - 1 = n /\ n <= n + 1
    OBVIOUS
  <2>2. UpTo(n + 1)[n + 1] = next[UpTo(n + 1)[n]]
    BY <1>2, <2>1
  <2>3. IsIteration(S, base, next, n, UpTo(n)) /\ IsIteration(S, base, next, n + 1, UpTo(n + 1))
    BY <1>1, <2>1
  <2>4. UpTo(n)[n] = UpTo(n + 1)[n]
    BY <2>1, <2>3, IterationsAgree
  <2>5. h[n + 1] = UpTo(n + 1)[n + 1] /\ h[n] = UpTo(n)[n]
    BY <2>1
  <2>. QED  BY <2>2, <2>4, <2>5
<1>. HIDE DEF h
<1>. QED  BY <1>3, <1>4, <1>5

\* Induction on a measure.
LEMMA MeasureInduction ==
  ASSUME NEW D, NEW measure \in [D -> Nat], NEW T,
         \A x \in D : (\A y \in D : measure[y] < measure[x] => y \in T) => x \in T
  PROVE  D \subseteq T
<1>. DEFINE M == {measure[x] : x \in {y \in D : y \notin T}}
<1>1. SUFFICES ASSUME NEW z \in D, z \notin T PROVE FALSE
  OBVIOUS
<1>2. M \subseteq Nat /\ M # {}
  BY <1>1
<1>. HIDE DEF M
<1>3. PICK m \in M : \A k \in M : m <= k
  BY <1>2, LeastNatural
<1>4. PICK x \in D : x \notin T /\ measure[x] = m
  BY <1>3 DEF M
<1>5. ASSUME NEW y \in D, measure[y] < measure[x] PROVE y \in T
  <2>. SUFFICES ASSUME y \notin T PROVE FALSE
    OBVIOUS
  <2>1. measure[y] \in M
    BY DEF M
  <2>2. m <= measure[y] /\ measure[y] \in Nat /\ m \in Nat
    BY <1>2, <1>3, <2>1
  <2>. QED  BY <1>4, <1>5, <2>2
<1>. QED  BY <1>4, <1>5

\* step[x][f] is the value at x that the values of f give.
Determined(D, M, measure, step) ==
  /\ measure \in [D -> Nat] /\ step \in [D -> [[D -> M] -> M]] /\ M # {}
  /\ \A x \in D : \A f, g \in [D -> M] :
       (\A y \in D : measure[y] < measure[x] => f[y] = g[y]) => step[x][f] = step[x][g]

LEMMA RecursionDefines ==
  ASSUME NEW D, NEW M, NEW measure, NEW step, Determined(D, M, measure, step)
  PROVE  \E f \in [D -> M] : \A x \in D : f[x] = step[x][f]
<1>. DEFINE S == [D -> M]
            next == [f \in S |-> [x \in D |-> step[x][f]]]
<1>1. /\ measure \in [D -> Nat] /\ M # {}
      /\ \A x \in D : step[x] \in [S -> M]
  BY DEF Determined
<1>2. ASSUME NEW x \in D, NEW f \in S, NEW g \in S,
             \A y \in D : measure[y] < measure[x] => f[y] = g[y]
      PROVE  step[x][f] = step[x][g]
  BY <1>2 DEF Determined
<1>3. PICK any \in M : TRUE
  BY <1>1
<1>. DEFINE base == [x \in D |-> any]
<1>4. base \in S
  OBVIOUS
<1>5. next \in [S -> S]
  <2>1. ASSUME NEW f \in S PROVE [x \in D |-> step[x][f]] \in S
    <3>1. \A x \in D : step[x][f] \in M
      BY <1>1
    <3>. QED  BY <3>1
  <2>. QED  BY <2>1
<1>6. \A f \in S : \A x \in D : next[f][x] = step[x][f]
  OBVIOUS
<1>. HIDE DEF S, next, base
<1>7. PICK h \in [Nat -> S] : h[0] = base /\ \A n \in Nat : h[n + 1] = next[h[n]]
  BY <1>4, <1>5, Iteration
<1>. DEFINE T == {x \in D : \A n \in Nat : measure[x] < n => h[n][x] = h[measure[x] + 1][x]}
<1>8. ASSUME NEW n \in Nat, NEW x \in D PROVE h[n + 1][x] = step[x][h[n]] /\ h[n] \in S
  BY <1>6, <1>7
<1>9. D \subseteq T
  <2>1. ASSUME NEW x \in D, \A y \in D : measure[y] < measure[x] => y \in T PROVE x \in T
    <3>. SUFFICES ASSUME NEW n \in Nat, measure[x] < n PROVE h[n][x] = h[measure[x] + 1][x]
      OBVIOUS
    <3>. DEFINE m == measure[x]
    <3>1. m \in Nat /\ n - 1 \in Nat /\ (n - 1) + 1 = n /\ m <= n - 1
      BY <1>1
    <3>2. ASSUME NEW y \in D, measure[y] < m PROVE h[n - 1][y] = h[m][y]
      <4>1. measure[y] \in Nat /\ y \in T
        BY <1>1, <2>1, <3>2
      <4>2. measure[y] < n - 1
        BY <3>1, <3>2, <4>1
      <4>3. \A k \in Nat : measure[y] < k => h[k][y] = h[measure[y] + 1][y]
        BY <4>1
      <4>4. h[n - 1][y] = h[measure[y] + 1][y]
        BY <3>1, <4>2, <4>3
      <4>5. h[m][y] = h[measure[y] + 1][y]
        BY <3>1, <3>2, <4>3
      <4>. QED  BY <4>4, <4>5
    <3>3. h[n][x] = step[x][h[n - 1]] /\ h[n - 1] \in S
      BY <1>8, <3>1
    <3>4. h[m + 1][x] = step[x][h[m]] /\ h[m] \in S
      BY <1>8, <3>1
    <3>5. step[x][h[n - 1]] = step[x][h[m]]
      BY <1>2, <3>2, <3>3, <3>4
    <3>. QED  BY <3>3, <3>4, <3>5
  <2>. HIDE DEF T
  <2>. QED  BY <1>1, <2>1, MeasureInduction
<1>. DEFINE f == [x \in D |-> h[measure[x] + 1][x]]
<1>10. f \in S
  <2>1. ASSUME NEW x \in D PROVE h[measure[x] + 1][x] \in M
    <3>1. measure[x] + 1 \in Nat
      BY <1>1
    <3>2. h[measure[x] + 1] \in S
      BY <1>7, <3>1
    <3>. QED  BY <3>2 DEF S
  <2>. QED  BY <2>1 DEF S
<1>11. ASSUME NEW x \in D PROVE f[x] = step[x][f]
  <2>. DEFINE m == measure[x]
  <2>1. m \in Nat /\ h[m] \in S
    BY <1>1, <1>7
  <2>2. ASSUME NEW y \in D, measure[y] < m PROVE h[m][y] = f[y]
    <3>1. y \in T
      BY <1>9
    <3>2. h[m][y] = h[measure[y] + 1][y]
      BY <2>1, <2>2, <3>1
    <3>. QED  BY <3>2
  <2>3. f[x] = h[m + 1][x]
    OBVIOUS
  <2>4. h[m + 1][x] = step[x][h[m]]
    BY <1>8, <2>1
  <2>. HIDE DEF f, T
  <2>5. step[x][h[m]] = step[x][f]
    BY <1>2, <1>10, <2>1, <2>2
  <2>. QED  BY <2>3, <2>4, <2>5
<1>. HIDE DEF f
<1>. QED  BY <1>10, <1>11 DEF S

---------------------------------------------------------------------------
(* Hexadecimal numbers.                                                    *)

Digits == {HexDigit(d) : d \in 0..15}

LEMMA DigitFacts ==
  ASSUME NEW d \in 0..15
  PROVE  /\ HexDigit(d) \in 48..70 /\ IsHexDigit(HexDigit(d)) /\ HexValue(HexDigit(d)) = d
         /\ HexDigit(d) >= UpperA => /\ IsHexDigit(HexDigit(d) + 32)
                                    /\ HexValue(HexDigit(d) + 32) = d
BY DEF HexDigit, IsHexDigit, HexValue, Digit0, LowerA, UpperA

HexPlaces == Nat \X Int
HexStep(f, at) ==
  (IF at[1] >= 16 \/ at[2] > 1 THEN f[<<at[1] \div 16, at[2] - 1>>] ELSE <<>>)
    \o <<HexDigit(at[1] % 16)>>
IsHex(f) == f = [at \in HexPlaces |-> HexStep(f, at)]

LEMMA HexIs ==
  ASSUME NEW n, NEW m
  PROVE  Hex(n, m) = (CHOOSE f : IsHex(f))[<<n, m>>]
BY Zenon DEF Hex, IsHex, HexStep, HexPlaces

HexMeasure == [at \in HexPlaces |-> IF at[1] >= at[2] THEN at[1] ELSE at[2]]

LEMMA HexShrinks ==
  ASSUME NEW at \in HexPlaces
  PROVE  /\ HexMeasure \in [HexPlaces -> Nat] /\ at[1] % 16 \in 0..15
         /\ at[1] >= 16 \/ at[2] > 1 =>
              /\ <<at[1] \div 16, at[2] - 1>> \in HexPlaces
              /\ HexMeasure[<<at[1] \div 16, at[2] - 1>>] < HexMeasure[at]
<1>1. at[1] \in Nat /\ at[2] \in Int
  BY DEF HexPlaces
<1>2. HexMeasure \in [HexPlaces -> Nat]
  <2>1. ASSUME NEW x \in HexPlaces PROVE (IF x[1] >= x[2] THEN x[1] ELSE x[2]) \in Nat
    BY DEF HexPlaces
  <2>. QED  BY <2>1 DEF HexMeasure
<1>3. at[1] % 16 \in 0..15
  BY <1>1
<1>4. ASSUME at[1] >= 16 \/ at[2] > 1
      PROVE  /\ <<at[1] \div 16, at[2] - 1>> \in HexPlaces
             /\ HexMeasure[<<at[1] \div 16, at[2] - 1>>] < HexMeasure[at]
  <2>. DEFINE q == at[1] \div 16
              n == at[1]
              m == at[2]
  <2>1. q \in Nat /\ (n > 0 => q < n) /\ q <= n
    BY <1>1
  <2>. HIDE DEF q
  <2>2. <<q, m - 1>> \in HexPlaces
    BY <1>1, <2>1 DEF HexPlaces
  <2>3. HexMeasure[<<q, m - 1>>] = IF q >= m - 1 THEN q ELSE m - 1
    BY <2>2 DEF HexMeasure
  <2>4. HexMeasure[at] = IF n >= m THEN n ELSE m
    BY DEF HexMeasure
  <2>. QED  BY <1>1, <1>4, <2>1, <2>2, <2>3, <2>4 DEF q
<1>. QED  BY <1>2, <1>3, <1>4

LEMMA HexExists == \E f \in [HexPlaces -> Seq(Nat)] : IsHex(f)
<1>. DEFINE M == Seq(Nat)
            step == [at \in HexPlaces |-> [f \in [HexPlaces -> M] |-> HexStep(f, at)]]
<1>1. ASSUME NEW at \in HexPlaces, NEW f \in [HexPlaces -> M] PROVE HexStep(f, at) \in M
  <2>1. HexDigit(at[1] % 16) \in Nat
    <3>1. at[1] % 16 \in 0..15
      BY HexShrinks
    <3>2. ASSUME NEW d \in 0..15 PROVE HexDigit(d) \in Nat
      <4>1. HexDigit(d) \in 48..70
        BY DigitFacts
      <4>. HIDE DEF M, step
      <4>. QED  BY <4>1
    <3>. QED  BY <3>1, <3>2
  <2>2. <<HexDigit(at[1] % 16)>> \in M
    BY <2>1
  <2>3. (IF at[1] >= 16 \/ at[2] > 1 THEN f[<<at[1] \div 16, at[2] - 1>>] ELSE <<>>) \in M
    BY HexShrinks
  <2>. QED  BY <2>2, <2>3, ConcatProperties DEF HexStep
<1>. HIDE DEF M
<1>2. step \in [HexPlaces -> [[HexPlaces -> M] -> M]]
  BY <1>1
<1>3. \A at \in HexPlaces : \A f \in [HexPlaces -> M] : step[at][f] = HexStep(f, at)
  OBVIOUS
<1>4. ASSUME NEW at \in HexPlaces, NEW f \in [HexPlaces -> M], NEW g \in [HexPlaces -> M],
             \A y \in HexPlaces : HexMeasure[y] < HexMeasure[at] => f[y] = g[y]
      PROVE  step[at][f] = step[at][g]
  <2>1. HexStep(f, at) = HexStep(g, at)
    <3>1. at[1] >= 16 \/ at[2] > 1 =>
            f[<<at[1] \div 16, at[2] - 1>>] = g[<<at[1] \div 16, at[2] - 1>>]
      BY <1>4, HexShrinks
    <3>. QED  BY <3>1 DEF HexStep
  <2>. HIDE DEF step
  <2>. QED  BY <1>3, <2>1
<1>. HIDE DEF step
<1>5. Determined(HexPlaces, M, HexMeasure, step)
  <2>1. <<>> \in M
    BY DEF M
  <2>2. HexMeasure \in [HexPlaces -> Nat]
    <3>1. <<0, 0>> \in HexPlaces
      BY DEF HexPlaces
    <3>. QED  BY <3>1, HexShrinks
  <2>. QED  BY <1>2, <1>4, <2>1, <2>2 DEF Determined
<1>6. PICK f \in [HexPlaces -> M] : \A at \in HexPlaces : f[at] = step[at][f]
  BY <1>5, RecursionDefines
<1>7. IsHex(f)
  <2>1. \A at \in HexPlaces : f[at] = HexStep(f, at)
    BY <1>3, <1>6
  <2>2. f = [at \in HexPlaces |-> f[at]]
    OBVIOUS
  <2>. QED  BY <2>1, <2>2 DEF IsHex
<1>. QED  BY <1>7 DEF M

HexNext(n, m) ==
  (IF n >= 16 \/ m > 1 THEN Hex(n \div 16, m - 1) ELSE <<>>) \o <<HexDigit(n % 16)>>

\* The digits of a number: those of its sixteenth, and one more.
LEMMA HexUnfolds ==
  ASSUME NEW n \in Nat, NEW m \in Int
  PROVE  /\ Hex(n, m) = HexNext(n, m)
         /\ Hex(n, m) \in Seq(Digits) /\ Len(Hex(n, m)) > 0
<1>. DEFINE f == CHOOSE f : IsHex(f)
<1>1. IsHex(f)
  BY HexExists, Zenon
<1>2. \A i, j : Hex(i, j) = f[<<i, j>>]
  BY HexIs
<1>. HIDE DEF f
<1>3. \A at \in HexPlaces : f[at] = HexStep(f, at)
  <2>1. f = [at \in HexPlaces |-> HexStep(f, at)]
    BY <1>1 DEF IsHex
  <2>. QED  BY <2>1
<1>. DEFINE T == {at \in HexPlaces : f[at] \in Seq(Digits) /\ Len(f[at]) > 0}
<1>4. HexPlaces \subseteq T
  <2>1. ASSUME NEW at \in HexPlaces, \A y \in HexPlaces : HexMeasure[y] < HexMeasure[at] => y \in T
        PROVE  at \in T
    <3>. DEFINE s == IF at[1] >= 16 \/ at[2] > 1 THEN f[<<at[1] \div 16, at[2] - 1>>] ELSE <<>>
                t == <<HexDigit(at[1] % 16)>>
    <3>1. s \in Seq(Digits)
      <4>1. at[1] >= 16 \/ at[2] > 1 => <<at[1] \div 16, at[2] - 1>> \in T
        BY <2>1, HexShrinks
      <4>. QED  BY <4>1
    <3>2. t \in Seq(Digits) /\ Len(t) = 1
      <4>1. HexDigit(at[1] % 16) \in Digits
        BY HexShrinks DEF Digits
      <4>. QED  BY <4>1
    <3>3. f[at] = s \o t
      BY <1>3 DEF HexStep
    <3>. HIDE DEF s, t
    <3>4. f[at] \in Seq(Digits) /\ Len(f[at]) = Len(s) + 1 /\ Len(s) \in Nat
      <4>1. s \o t \in Seq(Digits) /\ Len(s \o t) = Len(s) + Len(t)
        BY <3>1, <3>2, ConcatProperties
      <4>2. Len(s) \in Nat
        BY <3>1, LenProperties
      <4>. QED  BY <3>2, <3>3, <4>1, <4>2
    <3>. QED  BY <3>4
  <2>2. HexMeasure \in [HexPlaces -> Nat]
    <3>1. <<0, 0>> \in HexPlaces
      BY DEF HexPlaces
    <3>. QED  BY <3>1, HexShrinks
  <2>. HIDE DEF T
  <2>. QED  BY <2>1, <2>2, MeasureInduction
<1>5. <<n, m>> \in HexPlaces /\ <<n, m>>[1] = n /\ <<n, m>>[2] = m
  BY DEF HexPlaces
<1>6. Hex(n, m) = HexStep(f, <<n, m>>)
  BY <1>2, <1>3, <1>5
<1>7. HexStep(f, <<n, m>>) = HexNext(n, m)
  BY <1>2 DEF HexStep, HexNext
<1>8. Hex(n, m) \in Seq(Digits) /\ Len(Hex(n, m)) > 0
  BY <1>2, <1>4, <1>5
<1>. QED  BY <1>6, <1>7, <1>8

LEMMA TwoOf ==
  ASSUME NEW x, NEW y
  PROVE  <<x>> \o <<y>> = <<x, y>>
<1>. DEFINE S == {x, y}
            s == <<x>> \o <<y>>
            t == <<x, y>>
<1>1. /\ <<x>> \in Seq(S) /\ <<y>> \in Seq(S) /\ Len(<<x>>) = 1 /\ Len(<<y>>) = 1
      /\ <<x>>[1] = x /\ <<y>>[1] = y
  OBVIOUS
<1>2. t \in Seq(S) /\ Len(t) = 2 /\ t[1] = x /\ t[2] = y
  OBVIOUS
<1>3. s \in Seq(S) /\ Len(s) = 2 /\ s[1] = x /\ s[2] = y
  <2>1. /\ s \in Seq(S) /\ Len(s) = Len(<<x>>) + Len(<<y>>)
        /\ \A i \in 1..(Len(<<x>>) + Len(<<y>>)) :
             s[i] = IF i <= Len(<<x>>) THEN <<x>>[i] ELSE <<y>>[i - Len(<<x>>)]
    BY <1>1, ConcatProperties
  <2>. HIDE DEF s
  <2>. QED  BY <1>1, <2>1
<1>. HIDE DEF s, t
<1>4. s \in [1..2 -> S] /\ t \in [1..2 -> S]
  BY <1>2, <1>3, LenProperties
<1>5. \A i \in 1..2 : s[i] = t[i]
  BY <1>2, <1>3
<1>6. s = t
  BY <1>4, <1>5
<1>. QED  BY <1>6 DEF s, t

LEMMA HexOfByte ==
  ASSUME NEW b \in 0..255
  PROVE  /\ Hex(b, 2) = <<HexDigit(b \div 16), HexDigit(b % 16)>>
         /\ b \div 16 \in 0..15 /\ b % 16 \in 0..15
         /\ (b \div 16) * 16 + (b % 16) = b
<1>. DEFINE q == b \div 16
            r == b % 16
<1>1. b \in Nat /\ q \in 0..15 /\ r \in 0..15 /\ q \in Nat /\ q * 16 + r = b
  OBVIOUS
<1>2. q % 16 = q
  <2>. HIDE DEF q
  <2>. QED  BY <1>1
<1>3. Hex(q, 1) = <<>> \o <<HexDigit(q)>>
  <2>. HIDE DEF q, r
  <2>1. Hex(q, 1) = (IF q >= 16 \/ 1 > 1 THEN Hex(q \div 16, 1 - 1) ELSE <<>>) \o <<HexDigit(q % 16)>>
    <3>1. q \in Nat /\ 1 \in Int
      BY <1>1
    <3>2. Hex(q, 1) = HexNext(q, 1)
      BY <3>1, HexUnfolds
    <3>. QED  BY <3>2 DEF HexNext
  <2>2. ~(q >= 16 \/ 1 > 1)
    BY <1>1
  <2>. QED  BY <1>2, <2>1, <2>2
<1>4. Hex(b, 2) = Hex(q, 1) \o <<HexDigit(r)>>
  <2>1. Hex(b, 2) = (IF b >= 16 \/ 2 > 1 THEN Hex(q, 2 - 1) ELSE <<>>) \o <<HexDigit(r)>>
    <3>0. b \in Nat /\ 2 \in Int
      OBVIOUS
    <3>1. Hex(b, 2) = HexNext(b, 2)
      <4>. HIDE DEF q, r
      <4>. QED  BY <3>0, HexUnfolds
    <3>. QED  BY <3>1 DEF HexNext
  <2>2. 2 > 1 /\ 2 - 1 = 1
    OBVIOUS
  <2>. HIDE DEF q, r
  <2>. QED  BY <2>1, <2>2
<1>. HIDE DEF q, r
<1>5. <<>> \o <<HexDigit(q)>> = <<HexDigit(q)>>
  OBVIOUS
<1>6. <<HexDigit(q)>> \o <<HexDigit(r)>> = <<HexDigit(q), HexDigit(r)>>
  BY TwoOf
<1>. QED  BY <1>1, <1>3, <1>4, <1>5, <1>6 DEF q, r

\* parse_hex, place by place.
ParseNext(data, at) ==
  <<at[1] + 1, (IF at[2] = NoNumber THEN 0 ELSE at[2] * 16) + HexValue(data[at[1]])>>
ParseMore(data, at) == At(data, at[1]) /\ IsHexDigit(data[at[1]])
ParseStep(data, f, at) ==
  IF ParseMore(data, at) THEN f[ParseNext(data, at)] ELSE Read(at[2], at[1])
IsParse(data, f) == f = [at \in HexPlaces |-> ParseStep(data, f, at)]
Parse(data) == CHOOSE f : IsParse(data, f)

LEMMA ParseIs ==
  ASSUME NEW data, NEW position
  PROVE  ParseHex(data, position) = Parse(data)[<<position, NoNumber>>]
BY Zenon DEF ParseHex, Parse, IsParse, ParseStep, ParseNext, ParseMore, HexPlaces

ParseMeasure(data) ==
  [at \in HexPlaces |-> IF at[1] <= Len(data) THEN Len(data) - at[1] + 1 ELSE 0]

LEMMA DigitValue ==
  ASSUME NEW x, IsHexDigit(x)
  PROVE  x \in Nat /\ HexValue(x) \in 0..15
BY DEF IsHexDigit, HexValue, Digit0, LowerA, UpperA

LEMMA ParseShrinks ==
  ASSUME NEW data \in Seq(Nat)
  PROVE  /\ ParseMeasure(data) \in [HexPlaces -> Nat]
         /\ \A at \in HexPlaces : ParseMore(data, at) =>
              /\ ParseNext(data, at) \in HexPlaces
              /\ ParseMeasure(data)[ParseNext(data, at)] < ParseMeasure(data)[at]
<1>1. Len(data) \in Nat
  BY LenProperties
<1>2. ParseMeasure(data) \in [HexPlaces -> Nat]
  <2>1. ASSUME NEW at \in HexPlaces
        PROVE  (IF at[1] <= Len(data) THEN Len(data) - at[1] + 1 ELSE 0) \in Nat
    BY <1>1 DEF HexPlaces
  <2>. QED  BY <2>1 DEF ParseMeasure
<1>3. ASSUME NEW at \in HexPlaces, ParseMore(data, at)
      PROVE  /\ ParseNext(data, at) \in HexPlaces
             /\ ParseMeasure(data)[ParseNext(data, at)] < ParseMeasure(data)[at]
  <2>1. at[1] \in Nat /\ at[2] \in Int /\ at[1] <= Len(data)
    BY <1>3 DEF HexPlaces, ParseMore, At
  <2>2. HexValue(data[at[1]]) \in Int
    <3>1. HexValue(data[at[1]]) \in 0..15
      BY <1>3, DigitValue DEF ParseMore
    <3>. QED  BY <3>1
  <2>3. ParseNext(data, at) \in HexPlaces
    BY <2>1, <2>2 DEF ParseNext, HexPlaces
  <2>4. ParseNext(data, at)[1] = at[1] + 1
    BY DEF ParseNext
  <2>5. ParseMeasure(data)[ParseNext(data, at)] =
          IF at[1] + 1 <= Len(data) THEN Len(data) - (at[1] + 1) + 1 ELSE 0
    BY <2>3, <2>4 DEF ParseMeasure
  <2>6. ParseMeasure(data)[at] = Len(data) - at[1] + 1
    BY <2>1 DEF ParseMeasure
  <2>. QED  BY <1>1, <2>1, <2>3, <2>5, <2>6
<1>. QED  BY <1>2, <1>3

LEMMA ParseExists ==
  ASSUME NEW data \in Seq(Nat)
  PROVE  \E f : IsParse(data, f)
<1>. DEFINE M == [value : Int, at : Nat]
            step == [at \in HexPlaces |-> [f \in [HexPlaces -> M] |-> ParseStep(data, f, at)]]
            measure == ParseMeasure(data)
<1>1. ASSUME NEW at \in HexPlaces, NEW f \in [HexPlaces -> M] PROVE ParseStep(data, f, at) \in M
  <2>1. Read(at[2], at[1]) \in M
    BY DEF Read, HexPlaces
  <2>2. ParseMore(data, at) => f[ParseNext(data, at)] \in M
    BY ParseShrinks
  <2>. QED  BY <2>1, <2>2 DEF ParseStep
<1>2. Read(0, 0) \in M
  BY DEF Read
<1>. HIDE DEF M
<1>3. step \in [HexPlaces -> [[HexPlaces -> M] -> M]]
  BY <1>1
<1>4. \A at \in HexPlaces : \A f \in [HexPlaces -> M] : step[at][f] = ParseStep(data, f, at)
  OBVIOUS
<1>5. ASSUME NEW at \in HexPlaces, NEW f \in [HexPlaces -> M], NEW g \in [HexPlaces -> M],
             \A y \in HexPlaces : measure[y] < measure[at] => f[y] = g[y]
      PROVE  step[at][f] = step[at][g]
  <2>1. ParseStep(data, f, at) = ParseStep(data, g, at)
    <3>1. ParseMore(data, at) => f[ParseNext(data, at)] = g[ParseNext(data, at)]
      BY <1>5, ParseShrinks
    <3>. QED  BY <3>1 DEF ParseStep
  <2>. HIDE DEF step
  <2>. QED  BY <1>4, <2>1
<1>. HIDE DEF step
<1>6. measure \in [HexPlaces -> Nat]
  BY ParseShrinks
<1>. HIDE DEF measure
<1>7. Determined(HexPlaces, M, measure, step)
  BY <1>2, <1>3, <1>5, <1>6 DEF Determined
<1>8. PICK f \in [HexPlaces -> M] : \A at \in HexPlaces : f[at] = step[at][f]
  BY <1>7, RecursionDefines
<1>9. IsParse(data, f)
  <2>1. \A at \in HexPlaces : f[at] = ParseStep(data, f, at)
    BY <1>4, <1>8
  <2>2. f = [at \in HexPlaces |-> f[at]]
    OBVIOUS
  <2>. QED  BY <2>1, <2>2 DEF IsParse
<1>. QED  BY <1>9

ParseOne(data, p, n) ==
  IF At(data, p) /\ IsHexDigit(data[p])
  THEN Parse(data)[<<p + 1, (IF n = NoNumber THEN 0 ELSE n * 16) + HexValue(data[p])>>]
  ELSE Read(n, p)

LEMMA ParseUnfolds ==
  ASSUME NEW data \in Seq(Nat), NEW p \in Nat, NEW n \in Int
  PROVE  Parse(data)[<<p, n>>] = ParseOne(data, p, n)
<1>1. IsParse(data, Parse(data))
  BY ParseExists, Zenon DEF Parse
<1>. DEFINE f == Parse(data)
<1>2. \A at \in HexPlaces : f[at] = ParseStep(data, f, at)
  <2>. HIDE DEF f
  <2>1. f = [at \in HexPlaces |-> ParseStep(data, f, at)]
    BY <1>1 DEF IsParse, f
  <2>. QED  BY <2>1
<1>. HIDE DEF f
<1>3. <<p, n>> \in HexPlaces /\ <<p, n>>[1] = p /\ <<p, n>>[2] = n
  BY DEF HexPlaces
<1>4. f[<<p, n>>] = ParseStep(data, f, <<p, n>>)
  BY <1>2, <1>3
<1>5. ParseStep(data, f, <<p, n>>) =
        IF At(data, p) /\ IsHexDigit(data[p])
        THEN f[<<p + 1, (IF n = NoNumber THEN 0 ELSE n * 16) + HexValue(data[p])>>] ELSE Read(n, p)
  BY DEF ParseStep, ParseMore, ParseNext
<1>. QED  BY <1>4, <1>5 DEF f, ParseOne

LEMMA SixteenOf ==
  ASSUME NEW k \in Nat
  PROVE  /\ k \div 16 \in Nat /\ k % 16 \in 0..15 /\ (k \div 16) * 16 + (k % 16) = k
         /\ k < 16 => k % 16 = k
OBVIOUS

\* The data has the digits of a text from p on, in whichever case.
Spells(data, p, text) ==
  /\ p + Len(text) - 1 <= Len(data)
  /\ \A i \in 1..Len(text) : /\ IsHexDigit(data[p + i - 1])
                             /\ HexValue(data[p + i - 1]) = HexValue(text[i])

\* From nothing read, the digits of a number read as the number.
LEMMA DigitsParse ==
  ASSUME NEW data \in Seq(Nat), NEW p \in Nat, NEW n \in Nat, NEW m \in Int,
         Spells(data, p, Hex(n, m))
  PROVE  Parse(data)[<<p, NoNumber>>] = Parse(data)[<<p + Len(Hex(n, m)), n>>]
<1>. DEFINE T == {at \in HexPlaces :
                    Spells(data, p, Hex(at[1], at[2])) =>
                      Parse(data)[<<p, NoNumber>>] = Parse(data)[<<p + Len(Hex(at[1], at[2])), at[1]>>]}
<1>1. ASSUME NEW at \in HexPlaces, \A y \in HexPlaces : HexMeasure[y] < HexMeasure[at] => y \in T
      PROVE  at \in T
  <2>. DEFINE k == at[1]
              j == at[2]
              more == k >= 16 \/ j > 1
              text == IF more THEN Hex(k \div 16, j - 1) ELSE <<>>
              d == HexDigit(k % 16)
              L == Len(text)
  <2>. SUFFICES ASSUME Spells(data, p, Hex(k, j))
                PROVE  Parse(data)[<<p, NoNumber>>] = Parse(data)[<<p + Len(Hex(k, j)), k>>]
    OBVIOUS
  <2>1. k \in Nat /\ j \in Int /\ k \div 16 \in Nat /\ k % 16 \in 0..15 /\ (k \div 16) * 16 + (k % 16) = k
    <3>1. k \in Nat /\ j \in Int
      BY DEF HexPlaces
    <3>. HIDE DEF k, j
    <3>. QED  BY <3>1, SixteenOf
  <2>2. Hex(k, j) = text \o <<d>>
    <3>1. Hex(k, j) = HexNext(k, j)
      BY <2>1, HexUnfolds
    <3>. QED  BY <3>1 DEF HexNext
  <2>3. text \in Seq(Digits) /\ L \in Nat /\ (more => L > 0)
    <3>1. more => Hex(k \div 16, j - 1) \in Seq(Digits) /\ Len(Hex(k \div 16, j - 1)) > 0
      <4>1. k \div 16 \in Nat /\ j - 1 \in Int
        BY <2>1
      <4>. HIDE DEF k, j
      <4>. QED  BY <4>1, HexUnfolds
    <3>2. text \in Seq(Digits) /\ (more => L > 0)
      BY <3>1
    <3>. HIDE DEF text
    <3>. QED  BY <3>2, LenProperties
  <2>4. d \in Digits /\ HexValue(d) = k % 16
    BY <2>1, DigitFacts DEF Digits
  <2>5. <<d>> \in Seq(Digits) /\ Len(<<d>>) = 1 /\ <<d>>[1] = d
    BY <2>4
  <2>. HIDE DEF text, d
  <2>6. /\ Len(Hex(k, j)) = L + 1
        /\ \A i \in 1..(L + 1) : Hex(k, j)[i] = IF i <= L THEN text[i] ELSE <<d>>[i - L]
    <3>1. /\ Len(text \o <<d>>) = L + Len(<<d>>)
          /\ \A i \in 1..(L + Len(<<d>>)) : (text \o <<d>>)[i] = IF i <= L THEN text[i] ELSE <<d>>[i - L]
      BY <2>3, <2>5, ConcatProperties
    <3>. QED  BY <2>2, <2>5, <3>1
  <2>7. \A i \in 1..L : Hex(k, j)[i] = text[i] /\ i \in 1..(L + 1)
    BY <2>3, <2>6
  <2>8. Hex(k, j)[L + 1] = d /\ L + 1 \in 1..(L + 1)
    BY <2>3, <2>5, <2>6
  <2>9. /\ p + (L + 1) - 1 <= Len(data)
        /\ \A i \in 1..(L + 1) : /\ IsHexDigit(data[p + i - 1])
                                 /\ HexValue(data[p + i - 1]) = HexValue(Hex(k, j)[i])
    BY <2>6 DEF Spells
  <2>10. Len(data) \in Nat /\ p + (L + 1) - 1 = p + L
    BY <2>3, LenProperties
  <2>11. At(data, p + L) /\ IsHexDigit(data[p + L]) /\ HexValue(data[p + L]) = k % 16 /\ p + L \in Nat
    BY <2>3, <2>4, <2>8, <2>9, <2>10 DEF At
  <2>12. CASE more
    <3>. DEFINE q == k \div 16
                r == k % 16
                y == <<q, j - 1>>
    <3>1. y \in T
      BY <1>1, <2>12, HexShrinks
    <3>2. text = Hex(q, j - 1)
      BY <2>12 DEF text
    <3>3. Spells(data, p, text)
      <4>1. p + L - 1 <= Len(data)
        BY <2>3, <2>9, <2>10
      <4>. QED  BY <2>7, <2>9, <4>1 DEF Spells
    <3>4. Parse(data)[<<p, NoNumber>>] = Parse(data)[<<p + L, q>>]
      <4>1. y[1] = q /\ y[2] = j - 1
        OBVIOUS
      <4>2. Spells(data, p, Hex(q, j - 1)) =>
              Parse(data)[<<p, NoNumber>>] = Parse(data)[<<p + Len(Hex(q, j - 1)), q>>]
        BY <3>1, <4>1
      <4>. HIDE DEF q, L
      <4>. QED  BY <3>2, <3>3, <4>2 DEF L
    <3>5. q \in Nat /\ q # NoNumber /\ q * 16 + r = k
      BY <2>1 DEF NoNumber
    <3>. HIDE DEF q, r, T
    <3>6. Parse(data)[<<p + L, q>>] = Parse(data)[<<(p + L) + 1, q * 16 + HexValue(data[p + L])>>]
      <4>1. p + L \in Nat /\ q \in Int
        BY <2>11, <3>5
      <4>2. Parse(data)[<<p + L, q>>] = ParseOne(data, p + L, q)
        BY <4>1, ParseUnfolds
      <4>. QED  BY <2>11, <3>5, <4>2 DEF ParseOne
    <3>7. HexValue(data[p + L]) = r
      BY <2>11 DEF r
    <3>8. (p + L) + 1 = p + (L + 1)
      BY <2>3
    <3>. QED  BY <2>6, <3>4, <3>5, <3>6, <3>7, <3>8
  <2>13. CASE ~more
    <3>1. L = 0
      BY <2>13 DEF text
    <3>2. k \in 0..15 /\ k % 16 = k
      <4>1. k \in Nat /\ k < 16
        BY <2>1, <2>13
      <4>. HIDE DEF k
      <4>. QED  BY <4>1, SixteenOf
    <3>3. NoNumber \in Int
      BY DEF NoNumber
    <3>4. Parse(data)[<<p + L, NoNumber>>] = Parse(data)[<<(p + L) + 1, 0 + HexValue(data[p + L])>>]
      <4>. HIDE DEF L, k
      <4>1. Parse(data)[<<p + L, NoNumber>>] = ParseOne(data, p + L, NoNumber)
        BY <2>11, <3>3, ParseUnfolds
      <4>. QED  BY <2>11, <4>1 DEF ParseOne
    <3>5. 0 + HexValue(data[p + L]) = k /\ p + L = p /\ (p + L) + 1 = p + (L + 1)
      <4>. DEFINE v == HexValue(data[p + L])
      <4>1. v = k % 16
        BY <2>11
      <4>2. k % 16 \in Nat /\ k % 16 = k
        BY SMTT(30), <3>2
      <4>. HIDE DEF k, L, v
      <4>3. 0 + v = k
        BY <3>2, <4>1, <4>2
      <4>4. p + L = p /\ (p + L) + 1 = p + (L + 1)
        BY <3>1
      <4>. QED  BY <4>3, <4>4 DEF v
    <3>. QED  BY <2>6, <3>4, <3>5
  <2>. QED  BY <2>12, <2>13
<1>2. HexMeasure \in [HexPlaces -> Nat]
  <2>1. <<0, 0>> \in HexPlaces
    BY DEF HexPlaces
  <2>. QED  BY <2>1, HexShrinks
<1>3. HexPlaces \subseteq T
  <2>. HIDE DEF T
  <2>. QED  BY <1>1, <1>2, MeasureInduction
<1>4. <<n, m>> \in HexPlaces /\ <<n, m>>[1] = n /\ <<n, m>>[2] = m
  BY DEF HexPlaces
<1>. QED  BY <1>3, <1>4

\* A number that is followed by something else, or by nothing.
LEMMA NumberParses ==
  ASSUME NEW data \in Seq(Nat), NEW p \in Nat, NEW n \in Nat, NEW m \in Int,
         Spells(data, p, Hex(n, m)),
         LET end == p + Len(Hex(n, m)) IN ~(At(data, end) /\ IsHexDigit(data[end]))
  PROVE  ParseHex(data, p) = Read(n, p + Len(Hex(n, m)))
<1>. DEFINE end == p + Len(Hex(n, m))
<1>1. end \in Nat
  <2>1. Hex(n, m) \in Seq(Digits)
    BY HexUnfolds
  <2>2. Len(Hex(n, m)) \in Nat
    BY <2>1, LenProperties
  <2>. QED  BY <2>2
<1>2. ParseHex(data, p) = Parse(data)[<<p, NoNumber>>]
  BY ParseIs
<1>3. Parse(data)[<<p, NoNumber>>] = Parse(data)[<<end, n>>]
  BY DigitsParse
<1>4. ~(At(data, end) /\ IsHexDigit(data[end]))
  OBVIOUS
<1>. HIDE DEF end
<1>5. Parse(data)[<<end, n>>] = Read(n, end)
  <2>1. Parse(data)[<<end, n>>] = ParseOne(data, end, n)
    <3>1. n \in Int
      OBVIOUS
    <3>. QED  BY <1>1, <3>1, ParseUnfolds
  <2>. QED  BY <1>4, <2>1 DEF ParseOne
<1>. QED  BY <1>2, <1>3, <1>5 DEF end

LEMMA ConcatAt ==
  ASSUME NEW S, NEW s \in Seq(S), NEW t \in Seq(S)
  PROVE  /\ s \o t \in Seq(S) /\ Len(s) \in Nat /\ Len(t) \in Nat /\ Len(s \o t) = Len(s) + Len(t)
         /\ \A i \in 1..Len(s) : (s \o t)[i] = s[i]
         /\ \A i \in 1..Len(t) : (s \o t)[Len(s) + i] = t[i]
<1>. DEFINE m == Len(s)
            n == Len(t)
            u == s \o t
<1>1. m \in Nat /\ n \in Nat
  BY LenProperties
<1>2. /\ u \in Seq(S) /\ Len(u) = m + n
      /\ \A i \in 1..(m + n) : u[i] = IF i <= m THEN s[i] ELSE t[i - m]
  BY ConcatProperties
<1>. HIDE DEF m, n, u
<1>3. ASSUME NEW i \in 1..m PROVE u[i] = s[i]
  <2>1. i \in 1..(m + n) /\ i <= m
    BY <1>1
  <2>. QED  BY <1>2, <2>1
<1>4. ASSUME NEW i \in 1..n PROVE u[m + i] = t[i]
  <2>1. m + i \in 1..(m + n) /\ ~(m + i <= m) /\ (m + i) - m = i
    BY <1>1
  <2>. QED  BY <1>2, <2>1
<1>. QED  BY <1>1, <1>2, <1>3, <1>4 DEF m, n, u

LEMMA HexText ==
  ASSUME NEW n \in Nat, NEW m \in Int
  PROVE  /\ Hex(n, m) \in Seq(Nat) /\ Len(Hex(n, m)) \in Nat \ {0}
         /\ \A i \in 1..Len(Hex(n, m)) : Hex(n, m)[i] \in Digits
<1>1. Hex(n, m) \in Seq(Digits) /\ Len(Hex(n, m)) > 0
  BY HexUnfolds
<1>2. Digits \subseteq Nat
  <2>1. ASSUME NEW d \in 0..15 PROVE HexDigit(d) \in Nat
    <3>1. HexDigit(d) \in 48..70
      BY DigitFacts
    <3>. QED  BY <3>1
  <2>. QED  BY <2>1 DEF Digits
<1>3. Len(Hex(n, m)) \in Nat /\ \A i \in 1..Len(Hex(n, m)) : Hex(n, m)[i] \in Digits
  BY <1>1, LenOf
<1>4. Hex(n, m) \in Seq(Nat)
  <2>. DEFINE h == Hex(n, m)
  <2>1. h \in [1..Len(h) -> Digits]
    BY <1>1, LenProperties
  <2>. HIDE DEF h
  <2>2. h \in [1..Len(h) -> Nat]
    BY <1>2, <2>1
  <2>3. Len(h) \in Nat
    BY <1>3 DEF h
  <2>. QED  BY <2>2, <2>3, SeqDef DEF h
<1>. QED  BY <1>1, <1>3, <1>4

LEMMA InDigits ==
  ASSUME NEW x \in Digits
  PROVE  /\ IsHexDigit(x)
         /\ x >= UpperA => IsHexDigit(x + 32) /\ HexValue(x + 32) = HexValue(x)
<1>1. PICK d \in 0..15 : x = HexDigit(d)
  BY DEF Digits
<1>. QED  BY <1>1, DigitFacts

\* Text and data that have the same characters.
LEMMA SpellsSame ==
  ASSUME NEW n \in Nat, NEW m \in Int, NEW data \in Seq(Nat), NEW p \in Nat,
         p + Len(Hex(n, m)) - 1 <= Len(data),
         \A i \in 1..Len(Hex(n, m)) : data[p + i - 1] = Hex(n, m)[i]
  PROVE  Spells(data, p, Hex(n, m))
<1>1. \A i \in 1..Len(Hex(n, m)) : Hex(n, m)[i] \in Digits
  BY HexText
<1>2. \A i \in 1..Len(Hex(n, m)) : IsHexDigit(Hex(n, m)[i])
  BY <1>1, InDigits
<1>. QED  BY <1>2 DEF Spells

\* A number, in upper case or lower case, before what does not go on with it.
LEMMA NumberAnswer ==
  ASSUME NEW n \in Nat, NEW rest \in Seq(Nat), rest # <<>> => ~IsHexDigit(rest[1])
  PROVE  /\ ParseHex(Hex(n, 0) \o rest, 1) = Read(n, 1 + Len(Hex(n, 0)))
         /\ ParseHex(LowerCase(Hex(n, 0)) \o rest, 1) = Read(n, 1 + Len(Hex(n, 0)))
<1>. DEFINE h == Hex(n, 0)
            L == Len(h)
<1>1. h \in Seq(Nat) /\ L \in Nat \ {0} /\ \A i \in 1..L : h[i] \in Digits
  <2>1. 0 \in Int
    OBVIOUS
  <2>2. /\ Hex(n, 0) \in Seq(Nat) /\ Len(Hex(n, 0)) \in Nat \ {0}
        /\ \A i \in 1..Len(Hex(n, 0)) : Hex(n, 0)[i] \in Digits
    BY <2>1, HexText
  <2>. QED  BY <2>2
<1>. HIDE DEF h
<1>2. ASSUME NEW text \in Seq(Nat), Len(text) = L,
             \A i \in 1..L : IsHexDigit(text[i]) /\ HexValue(text[i]) = HexValue(h[i])
      PROVE  ParseHex(text \o rest, 1) = Read(n, 1 + L)
  <2>. DEFINE data == text \o rest
              end == 1 + L
  <2>1. /\ data \in Seq(Nat) /\ Len(rest) \in Nat /\ Len(data) = L + Len(rest)
        /\ \A i \in 1..L : data[i] = text[i]
        /\ \A i \in 1..Len(rest) : data[L + i] = rest[i]
    <3>1. /\ data \in Seq(Nat) /\ Len(rest) \in Nat /\ Len(data) = Len(text) + Len(rest)
          /\ \A i \in 1..Len(text) : data[i] = text[i]
          /\ \A i \in 1..Len(rest) : data[Len(text) + i] = rest[i]
      BY ConcatAt
    <3>. HIDE DEF data
    <3>. QED  BY <1>2, <3>1
  <2>. HIDE DEF data
  <2>2. \A i \in 1..L : 1 + i - 1 = i
    OBVIOUS
  <2>3. 1 + L - 1 <= Len(data)
    BY <1>1, <2>1
  <2>4. Spells(data, 1, h)
    BY <1>2, <2>1, <2>2, <2>3 DEF Spells
  <2>5. ~(At(data, end) /\ IsHexDigit(data[end]))
    <3>1. CASE rest = <<>>
      <4>1. Len(data) = L
        BY <1>1, <2>1, <3>1
      <4>. QED  BY <1>1, <4>1 DEF At
    <3>2. CASE rest # <<>>
      <4>1. 1 \in 1..Len(rest)
        BY <2>1, <3>2, EmptySeq
      <4>2. data[L + 1] = rest[1]
        BY <2>1, <4>1
      <4>3. L + 1 = end
        BY <1>1
      <4>. QED  BY <3>2, <4>2, <4>3
    <3>. QED  BY <3>1, <3>2
  <2>6. LET e == 1 + Len(Hex(n, 0)) IN ~(At(data, e) /\ IsHexDigit(data[e]))
    BY <2>5 DEF h
  <2>7. ParseHex(data, 1) = Read(n, 1 + Len(Hex(n, 0)))
    <3>1. Spells(data, 1, Hex(n, 0)) /\ 1 \in Nat /\ 0 \in Int
      BY <2>4 DEF h
    <3>. QED  BY ZenonT(60), <2>1, <2>6, <3>1, NumberParses
  <2>. QED  BY <2>7 DEF data, h
<1>3. ParseHex(h \o rest, 1) = Read(n, 1 + L)
  <2>1. \A i \in 1..L : IsHexDigit(h[i])
    BY <1>1, InDigits
  <2>. QED  BY <1>1, <1>2, <2>1
<1>4. ParseHex(LowerCase(h) \o rest, 1) = Read(n, 1 + L)
  <2>. DEFINE text == LowerCase(h)
  <2>1. text = [i \in 1..L |-> IF h[i] >= UpperA THEN h[i] + 32 ELSE h[i]]
    BY <1>1, LenProperties DEF LowerCase
  <2>2. \A i \in 1..L : h[i] \in Nat
    BY <1>1, LenOf
  <2>3. text \in [1..L -> Nat]
    BY <2>1, <2>2
  <2>4. \A i \in 1..L : text[i] = IF h[i] >= UpperA THEN h[i] + 32 ELSE h[i]
    BY <2>1
  <2>. HIDE DEF text
  <2>5. text \in Seq(Nat) /\ Len(text) = L
    <3>1. L \in Nat
      BY <1>1
    <3>. HIDE DEF L
    <3>2. text \in Seq(Nat)
      BY <2>3, <3>1, SeqDef
    <3>3. DOMAIN text = 1..L
      BY <2>3
    <3>. QED  BY <3>1, <3>2, <3>3, LenProperties
  <2>6. ASSUME NEW i \in 1..L PROVE IsHexDigit(text[i]) /\ HexValue(text[i]) = HexValue(h[i])
    <3>1. h[i] \in Digits
      BY <1>1
    <3>. QED  BY <2>4, <3>1, InDigits
  <2>7. ParseHex(text \o rest, 1) = Read(n, 1 + L)
    BY <1>2, <2>5, <2>6
  <2>. QED  BY <2>7 DEF text
<1>. QED  BY <1>3, <1>4 DEF h

---------------------------------------------------------------------------
(* Registers, threads, bytes and pages.                                    *)

HexUpto(data, position, length, f) ==
  f = [n \in 0..length |->
         IF n = 0 THEN 0 ELSE f[n - 1] * 16 + HexValue(data[position + n - 1])]

LEMMA ReadHexIs ==
  ASSUME NEW data, NEW position, NEW length
  PROVE  ReadHex(data, position, length) =
           IF position - 1 + length >= Len(data)
              \/ \E i \in 1..length : ~IsHexDigit(data[position + i - 1])
           THEN Read(NoNumber, position)
           ELSE Read((CHOOSE f : HexUpto(data, position, length, f))[length], position + length)
BY Zenon DEF ReadHex, HexUpto

\* Two digits that something follows.
LEMMA ReadByte ==
  ASSUME NEW data, Len(data) \in Nat, NEW p \in Nat, p + 1 < Len(data),
         NEW b \in 0..255, data[p] = HexDigit(b \div 16), data[p + 1] = HexDigit(b % 16)
  PROVE  ReadHex(data, p, 2) = Read(b, p + 2)
<1>. DEFINE q == b \div 16
            r == b % 16
            v(n) == HexValue(data[p + n - 1])
            g == [n \in 0..2 |-> IF n = 0 THEN 0 ELSE IF n = 1 THEN q ELSE q * 16 + r]
            f == CHOOSE f : HexUpto(data, p, 2, f)
<1>1. q \in 0..15 /\ r \in 0..15 /\ q * 16 + r = b
  BY HexOfByte
<1>. HIDE DEF q, r
<1>2. p + 1 - 1 = p /\ p + 2 - 1 = p + 1
  OBVIOUS
<1>3. v(1) = q /\ v(2) = r
  <2>1. HexValue(HexDigit(q)) = q /\ HexValue(HexDigit(r)) = r
    BY <1>1, DigitFacts
  <2>. QED  BY <1>2, <2>1 DEF q, r
<1>4. \A i \in 1..2 : IsHexDigit(data[p + i - 1])
  <2>1. IsHexDigit(HexDigit(q)) /\ IsHexDigit(HexDigit(r))
    BY <1>1, DigitFacts
  <2>2. \A i \in 1..2 : i = 1 \/ i = 2
    OBVIOUS
  <2>. QED  BY <1>2, <2>1, <2>2 DEF q, r
<1>. HIDE DEF v
<1>5. HexUpto(data, p, 2, g)
  <2>1. ASSUME NEW n \in 0..2 PROVE g[n] = IF n = 0 THEN 0 ELSE g[n - 1] * 16 + v(n)
    <3>1. g[0] = 0 /\ g[1] = q /\ g[2] = q * 16 + r
      OBVIOUS
    <3>2. n = 0 \/ n = 1 \/ n = 2
      OBVIOUS
    <3>. HIDE DEF g
    <3>3. CASE n = 0
      BY <3>1, <3>3
    <3>4. CASE n = 1
      <4>1. n - 1 = 0 /\ 0 * 16 + q = q
        BY <1>1, <3>4
      <4>. QED  BY <1>3, <3>1, <3>4, <4>1
    <3>5. CASE n = 2
      <4>1. n - 1 = 1
        BY <3>5
      <4>. QED  BY <1>3, <3>1, <3>5, <4>1
    <3>. QED  BY <3>2, <3>3, <3>4, <3>5
  <2>2. g = [n \in 0..2 |-> IF n = 0 THEN 0 ELSE g[n - 1] * 16 + v(n)]
    <3>1. g = [n \in 0..2 |-> g[n]]
      OBVIOUS
    <3>. HIDE DEF g
    <3>. QED  BY <2>1, <3>1
  <2>. HIDE DEF g
  <2>. QED  BY <2>2 DEF HexUpto, v
<1>6. HexUpto(data, p, 2, f)
  <2>. HIDE DEF g
  <2>. QED  BY <1>5, Zenon
<1>. HIDE DEF f, g
<1>7. f[2] = b
  <2>1. \A n \in 0..2 : f[n] = IF n = 0 THEN 0 ELSE f[n - 1] * 16 + v(n)
    <3>1. f = [n \in 0..2 |-> IF n = 0 THEN 0 ELSE f[n - 1] * 16 + v(n)]
      BY <1>6 DEF HexUpto, v
    <3>. QED  BY <3>1
  <2>2. f[0] = 0
    BY <2>1
  <2>3. f[1] = f[0] * 16 + v(1)
    <3>1. 1 \in 0..2 /\ 1 # 0 /\ 1 - 1 = 0
      OBVIOUS
    <3>. QED  BY <2>1, <3>1
  <2>4. f[2] = f[1] * 16 + v(2)
    <3>1. 2 \in 0..2 /\ 2 # 0 /\ 2 - 1 = 1
      OBVIOUS
    <3>. QED  BY <2>1, <3>1
  <2>5. f[1] = q
    BY <1>1, <1>3, <2>2, <2>3
  <2>. QED  BY <1>1, <1>3, <2>4, <2>5
<1>8. ~(p - 1 + 2 >= Len(data))
  OBVIOUS
<1>9. ~(p - 1 + 2 >= Len(data) \/ \E i \in 1..2 : ~IsHexDigit(data[p + i - 1]))
  BY <1>4, <1>8
<1>10. ReadHex(data, p, 2) =
         IF p - 1 + 2 >= Len(data) \/ \E i \in 1..2 : ~IsHexDigit(data[p + i - 1])
         THEN Read(NoNumber, p) ELSE Read(f[2], p + 2)
  BY ReadHexIs DEF f
<1>. QED  BY <1>7, <1>9, <1>10

\* Four bytes, one after the other.
LEMMA BytesOfWord ==
  ASSUME NEW v \in Nat, v \div 16777216 \in 0..255
  PROVE  /\ v % 256 \in 0..255 /\ (v \div 256) % 256 \in 0..255
         /\ (v \div 65536) % 256 \in 0..255 /\ (v \div 16777216) % 256 \in 0..255
         /\ (v % 256) + 256 * ((v \div 256) % 256) + 65536 * ((v \div 65536) % 256)
              + 16777216 * ((v \div 16777216) % 256) = v
<1>. DEFINE a0 == v % 256
            v1 == v \div 256
            a1 == v1 % 256
            v2 == v1 \div 256
            a2 == v2 % 256
            v3 == v2 \div 256
<1>1. v1 \in Nat /\ a0 \in 0..255 /\ v = 256 * v1 + a0
  OBVIOUS
<1>2. v \div 65536 = v2 /\ v \div 16777216 = v3
  OBVIOUS
<1>. HIDE DEF a0, v1
<1>3. v2 \in Nat /\ a1 \in 0..255 /\ v1 = 256 * v2 + a1
  BY <1>1
<1>. HIDE DEF a1, v2
<1>4. v3 \in Nat /\ a2 \in 0..255 /\ v2 = 256 * v3 + a2
  BY <1>3
<1>. HIDE DEF a2, v3
<1>5. v3 \in 0..255
  BY <1>2
<1>6. v3 % 256 = v3
  BY <1>5
<1>7. a0 + 256 * a1 + 65536 * a2 + 16777216 * v3 = v
  BY <1>1, <1>3, <1>4
<1>. QED  BY <1>1, <1>2, <1>3, <1>4, <1>5, <1>6, <1>7 DEF a0, a1, a2, v1

\* A text that two more digits follow.
TwoMore(s, b, t) ==
  /\ t \in Seq(Nat) /\ Len(t) = Len(s) + 2
  /\ \A i \in 1..Len(s) : t[i] = s[i]
  /\ t[Len(s) + 1] = HexDigit(b \div 16) /\ t[Len(s) + 2] = HexDigit(b % 16)

LEMMA TwoDigits ==
  ASSUME NEW s \in Seq(Nat), NEW b \in 0..255
  PROVE  /\ Hex(b, 2) \in Seq(Nat) /\ Len(Hex(b, 2)) = 2
         /\ TwoMore(s, b, s \o Hex(b, 2))
<1>. DEFINE h == Hex(b, 2)
            t == s \o h
            q == b \div 16
            r == b % 16
<1>1. h = <<HexDigit(q), HexDigit(r)>>
  BY HexOfByte
<1>2. h \in Seq(Nat)
  <2>1. b \in Nat /\ 2 \in Int
    OBVIOUS
  <2>. QED  BY <2>1, HexText
<1>. HIDE DEF q, r
<1>3. Len(h) = 2 /\ h[1] = HexDigit(q) /\ h[2] = HexDigit(r)
  <2>. HIDE DEF h
  <2>. QED  BY <1>1
<1>. HIDE DEF h
<1>4. /\ t \in Seq(Nat) /\ Len(t) = Len(s) + Len(h)
      /\ \A i \in 1..Len(s) : t[i] = s[i]
      /\ \A i \in 1..Len(h) : t[Len(s) + i] = h[i]
  BY <1>2, ConcatAt
<1>. HIDE DEF t
<1>5. t[Len(s) + 1] = h[1] /\ t[Len(s) + 2] = h[2]
  <2>1. 1 \in 1..Len(h) /\ 2 \in 1..Len(h)
    BY <1>3
  <2>. QED  BY <1>4, <2>1
<1>6. TwoMore(s, b, t)
  BY <1>3, <1>4, <1>5 DEF TwoMore, q, r
<1>. QED  BY <1>2, <1>3, <1>6 DEF t, h

\* Digits of four bytes, with something after them.
FourBytes(b, rest) == Hex(b[1], 2) \o Hex(b[2], 2) \o Hex(b[3], 2) \o Hex(b[4], 2) \o rest

LEMMA FourBytesAt ==
  ASSUME NEW b \in [1..4 -> 0..255], NEW rest \in Seq(Nat), rest # <<>>
  PROVE  LET data == FourBytes(b, rest) IN
         /\ Len(data) \in Nat /\ Len(data) > 8
         /\ \A i \in 0..3 : /\ data[1 + 2 * i] = HexDigit(b[i + 1] \div 16)
                            /\ data[1 + 2 * i + 1] = HexDigit(b[i + 1] % 16)
<1>. DEFINE s1 == Hex(b[1], 2)
            s2 == s1 \o Hex(b[2], 2)
            s3 == s2 \o Hex(b[3], 2)
            s4 == s3 \o Hex(b[4], 2)
            data == s4 \o rest
            hi(i) == HexDigit(b[i] \div 16)
            lo(i) == HexDigit(b[i] % 16)
<1>1. b[1] \in 0..255 /\ b[2] \in 0..255 /\ b[3] \in 0..255 /\ b[4] \in 0..255
  OBVIOUS
<1>2. s1 \in Seq(Nat) /\ Len(s1) = 2 /\ s1[1] = hi(1) /\ s1[2] = lo(1)
  <2>1. s1 \in Seq(Nat) /\ Len(s1) = 2
    <3>1. <<>> \in Seq(Nat)
      OBVIOUS
    <3>. QED  BY <1>1, <3>1, TwoDigits
  <2>2. s1 = <<hi(1), lo(1)>>
    BY <1>1, HexOfByte
  <2>. HIDE DEF s1, hi, lo
  <2>. QED  BY <2>1, <2>2
<1>. HIDE DEF s1
<1>3. TwoMore(s1, b[2], s2)
  BY <1>1, <1>2, TwoDigits
<1>. HIDE DEF s2
<1>4. s2 \in Seq(Nat)
  BY <1>3 DEF TwoMore
<1>5. TwoMore(s2, b[3], s3)
  BY <1>1, <1>4, TwoDigits
<1>. HIDE DEF s3
<1>6. s3 \in Seq(Nat)
  BY <1>5 DEF TwoMore
<1>7. TwoMore(s3, b[4], s4)
  BY <1>1, <1>6, TwoDigits
<1>. HIDE DEF s4
<1>8. s2 \in Seq(Nat) /\ Len(s2) = 4 /\ s2[1] = hi(1) /\ s2[2] = lo(1) /\ s2[3] = hi(2) /\ s2[4] = lo(2)
  <2>1. 1 \in 1..2 /\ 2 \in 1..2
    OBVIOUS
  <2>. HIDE DEF hi, lo
  <2>. QED  BY <1>2, <1>3, <2>1 DEF TwoMore, hi, lo
<1>9. /\ s3 \in Seq(Nat) /\ Len(s3) = 6 /\ s3[1] = hi(1) /\ s3[2] = lo(1) /\ s3[3] = hi(2) /\ s3[4] = lo(2)
      /\ s3[5] = hi(3) /\ s3[6] = lo(3)
  <2>1. \A i \in 1..4 : s3[i] = s2[i]
    BY <1>5, <1>8 DEF TwoMore
  <2>2. Len(s3) = 6 /\ s3[5] = hi(3) /\ s3[6] = lo(3)
    BY <1>5, <1>8 DEF TwoMore
  <2>. HIDE DEF hi, lo
  <2>. QED  BY <1>6, <1>8, <2>1, <2>2
<1>10. /\ s4 \in Seq(Nat) /\ Len(s4) = 8 /\ s4[1] = hi(1) /\ s4[2] = lo(1) /\ s4[3] = hi(2) /\ s4[4] = lo(2)
       /\ s4[5] = hi(3) /\ s4[6] = lo(3) /\ s4[7] = hi(4) /\ s4[8] = lo(4)
  <2>1. \A i \in 1..6 : s4[i] = s3[i]
    BY <1>7, <1>9 DEF TwoMore
  <2>2. s4 \in Seq(Nat) /\ Len(s4) = 8 /\ s4[7] = hi(4) /\ s4[8] = lo(4)
    BY <1>7, <1>9 DEF TwoMore
  <2>. HIDE DEF hi, lo
  <2>. QED  BY <1>9, <2>1, <2>2
<1>. HIDE DEF hi, lo
<1>11. /\ Len(rest) \in Nat /\ Len(data) = 8 + Len(rest)
       /\ \A i \in 1..8 : data[i] = s4[i]
  <2>1. /\ Len(rest) \in Nat /\ Len(data) = Len(s4) + Len(rest)
        /\ \A i \in 1..Len(s4) : data[i] = s4[i]
    <3>1. s4 \in Seq(Nat)
      BY <1>10
    <3>. QED  BY <3>1, ConcatAt
  <2>. HIDE DEF data
  <2>. QED  BY <1>10, <2>1
<1>12. Len(rest) > 0
  BY <1>11, EmptySeq
<1>13. data = FourBytes(b, rest)
  BY DEF FourBytes, s4, s3, s2, s1
<1>. HIDE DEF data
<1>14. ASSUME NEW i \in 0..3
       PROVE  data[1 + 2 * i] = hi(i + 1) /\ data[1 + 2 * i + 1] = lo(i + 1)
  <2>1. i = 0 \/ i = 1 \/ i = 2 \/ i = 3
    OBVIOUS
  <2>2. /\ data[1] = hi(1) /\ data[2] = lo(1) /\ data[3] = hi(2) /\ data[4] = lo(2)
        /\ data[5] = hi(3) /\ data[6] = lo(3) /\ data[7] = hi(4) /\ data[8] = lo(4)
    <3>1. 1 \in 1..8 /\ 2 \in 1..8 /\ 3 \in 1..8 /\ 4 \in 1..8
      OBVIOUS
    <3>2. 5 \in 1..8 /\ 6 \in 1..8 /\ 7 \in 1..8 /\ 8 \in 1..8
      OBVIOUS
    <3>. QED  BY <1>10, <1>11, <3>1, <3>2
  <2>. QED  BY <2>1, <2>2
<1>. QED  BY <1>11, <1>12, <1>13, <1>14 DEF hi, lo

\* A word of 32 bits, and the word of four bytes.
IsWord(v) == v \in Nat /\ v \div 16777216 \in 0..255
WordOf(b1, b2, b3, b4) == b1 + 256 * b2 + 65536 * b3 + 16777216 * b4
BytesIn(v) == <<v % 256, (v \div 256) % 256, (v \div 65536) % 256, (v \div 16777216) % 256>>

LEMMA WordsHaveBytes ==
  ASSUME NEW v, IsWord(v)
  PROVE  /\ BytesIn(v) \in [1..4 -> 0..255]
         /\ WordOf(BytesIn(v)[1], BytesIn(v)[2], BytesIn(v)[3], BytesIn(v)[4]) = v
<1>. DEFINE w1 == v % 256
            w2 == (v \div 256) % 256
            w3 == (v \div 65536) % 256
            w4 == (v \div 16777216) % 256
<1>1. w1 \in 0..255 /\ w2 \in 0..255 /\ w3 \in 0..255 /\ w4 \in 0..255
  BY BytesOfWord, SMT DEF IsWord
<1>2. w1 + 256 * w2 + 65536 * w3 + 16777216 * w4 = v
  BY BytesOfWord, SMT DEF IsWord
<1>3. BytesIn(v) = <<w1, w2, w3, w4>>
  BY SMT DEF BytesIn
<1>4. WordOf(w1, w2, w3, w4) = v
  BY <1>2, SMT DEF WordOf
<1>. HIDE DEF w1, w2, w3, w4
<1>. QED  BY <1>1, <1>3, <1>4, SMT

RegisterOf(data) ==
  LET byte(i) == ReadHex(data, 1 + 2 * i, 2).value IN
  IF \E i \in 0..3 : byte(i) = NoNumber THEN Read(NoNumber, 1)
  ELSE Read(WordOf(byte(0), byte(1), byte(2), byte(3)), 9)

LEMMA RegisterIs ==
  ASSUME NEW v, NEW data, NEW rest
  PROVE  /\ ReadRegisterHex(data, 1) = RegisterOf(data)
         /\ RegisterHex(v) \o rest = FourBytes(BytesIn(v), rest)
<1>1. 1 + 8 = 9
  OBVIOUS
<1>2. ReadRegisterHex(data, 1) = RegisterOf(data)
  BY <1>1, SMT DEF ReadRegisterHex, RegisterOf, WordOf
<1>3. RegisterHex(v) \o rest = FourBytes(BytesIn(v), rest)
  BY SMT DEF FourBytes, RegisterHex, BytesIn
<1>. QED  BY <1>2, <1>3

\* The bytes of a register, the lowest first.
LEMMA WordAnswer ==
  ASSUME NEW v, IsWord(v), NEW rest \in Seq(Nat), rest # <<>>
  PROVE  ReadRegisterHex(RegisterHex(v) \o rest, 1) = Read(v, 9)
<1>. DEFINE b == BytesIn(v)
            data == FourBytes(b, rest)
            byte(i) == ReadHex(data, 1 + 2 * i, 2).value
<1>1. b \in [1..4 -> 0..255] /\ WordOf(b[1], b[2], b[3], b[4]) = v
  BY WordsHaveBytes
<1>2. data = RegisterHex(v) \o rest
  BY RegisterIs
<1>. HIDE DEF b
<1>4. /\ Len(data) \in Nat /\ Len(data) > 8
      /\ \A i \in 0..3 : /\ data[1 + 2 * i] = HexDigit(b[i + 1] \div 16)
                         /\ data[1 + 2 * i + 1] = HexDigit(b[i + 1] % 16)
  BY <1>1, FourBytesAt
<1>. HIDE DEF data
<1>5. ASSUME NEW i \in 0..3 PROVE byte(i) = b[i + 1] /\ byte(i) \in 0..255
  <2>. DEFINE p == 1 + 2 * i
  <2>1. p \in Nat /\ p + 1 < Len(data) /\ b[i + 1] \in 0..255
    <3>1. p \in Nat /\ p + 1 <= 8 /\ i + 1 \in 1..4
      OBVIOUS
    <3>2. b[i + 1] \in 0..255
      BY <1>1, <3>1
    <3>. HIDE DEF p
    <3>. QED  BY <1>4, <3>1, <3>2
  <2>2. data[p] = HexDigit(b[i + 1] \div 16) /\ data[p + 1] = HexDigit(b[i + 1] % 16)
    BY <1>4
  <2>. DEFINE d == b[i + 1]
  <2>3. d \in 0..255 /\ data[p] = HexDigit(d \div 16) /\ data[p + 1] = HexDigit(d % 16)
    BY <2>1, <2>2
  <2>4. Len(data) \in Nat
    BY <1>4
  <2>. HIDE DEF d
  <2>5. ReadHex(data, p, 2) = Read(d, p + 2)
    <3>. HIDE DEF p
    <3>. QED  BY <2>1, <2>3, <2>4, ReadByte
  <2>6. byte(i) = d
    <3>1. Read(d, p + 2).value = d
      BY DEF Read
    <3>. QED  BY <2>5, <3>1
  <2>. QED  BY <2>1, <2>6 DEF d
<1>6. ReadRegisterHex(data, 1) =
        IF \E i \in 0..3 : byte(i) = NoNumber THEN Read(NoNumber, 1)
        ELSE Read(WordOf(byte(0), byte(1), byte(2), byte(3)), 9)
  BY RegisterIs DEF RegisterOf
<1>. HIDE DEF byte
<1>7. \A i \in 0..3 : byte(i) # NoNumber
  <2>1. ASSUME NEW i \in 0..3 PROVE byte(i) # NoNumber
    <3>1. byte(i) \in 0..255
      BY <1>5
    <3>2. \A n \in 0..255 : n # NoNumber
      BY DEF NoNumber
    <3>. QED  BY <3>1, <3>2
  <2>. QED  BY <2>1
<1>8. byte(0) = b[1] /\ byte(1) = b[2] /\ byte(2) = b[3] /\ byte(3) = b[4]
  BY <1>5
<1>. QED  BY <1>1, <1>2, <1>6, <1>7, <1>8

\* A number that is found at a place of the data.
NumberAt(data, p, n) ==
  /\ p + Len(Hex(n, 0)) - 1 <= Len(data)
  /\ \A i \in 1..Len(Hex(n, 0)) : data[p + i - 1] = Hex(n, 0)[i]
  /\ ~(At(data, p + Len(Hex(n, 0))) /\ IsHexDigit(data[p + Len(Hex(n, 0))]))

LEMMA NumberReads ==
  ASSUME NEW data \in Seq(Nat), NEW p \in Nat, NEW n \in Nat, NumberAt(data, p, n)
  PROVE  ParseHex(data, p) = Read(n, p + Len(Hex(n, 0)))
<1>1. 0 \in Int
  OBVIOUS
<1>2. /\ p + Len(Hex(n, 0)) - 1 <= Len(data)
      /\ \A i \in 1..Len(Hex(n, 0)) : data[p + i - 1] = Hex(n, 0)[i]
  BY DEF NumberAt
<1>3. Spells(data, p, Hex(n, 0))
  BY <1>1, <1>2, SpellsSame
<1>4. LET end == p + Len(Hex(n, 0)) IN ~(At(data, end) /\ IsHexDigit(data[end]))
  BY Zenon DEF NumberAt
<1>. QED  BY <1>1, <1>3, <1>4, NumberParses

\* The characters of a thread id.
ThreadAt(data, process, thread, end) ==
  /\ data \in Seq(Nat) /\ end \in Nat /\ end <= Len(data)
  /\ data[1] = LetterP
  /\ NumberAt(data, 2, process) /\ data[2 + Len(Hex(process, 0))] = Point
  /\ end = 2 + Len(Hex(process, 0)) + Len(Hex(thread, 0))
  /\ NumberAt(data, 3 + Len(Hex(process, 0)), thread)

LEMMA ThreadText ==
  ASSUME NEW process \in Nat, NEW thread \in Nat, NEW rest \in Seq(Nat),
         rest # <<>> => ~IsHexDigit(rest[1])
  PROVE  ThreadAt(ThreadIdHex(process, thread) \o rest, process, thread,
                  2 + Len(Hex(process, 0)) + Len(Hex(thread, 0)))
<1>. DEFINE h1 == Hex(process, 0)
            h2 == Hex(thread, 0)
            k1 == Len(h1)
            k2 == Len(h2)
            u0 == <<LetterP>>
            u1 == u0 \o h1
            pt == <<Point>>
            u2 == u1 \o pt
            u3 == u2 \o h2
            data == u3 \o rest
            m == Len(rest)
<1>1. h1 \in Seq(Nat) /\ h2 \in Seq(Nat) /\ k1 \in Nat \ {0} /\ k2 \in Nat \ {0}
  <2>1. 0 \in Int
    OBVIOUS
  <2>. QED  BY <2>1, HexText
<1>2. u0 \in Seq(Nat) /\ Len(u0) = 1 /\ u0[1] = LetterP
  <2>1. LetterP \in Nat
    BY DEF LetterP
  <2>. QED  BY <2>1
<1>3. pt \in Seq(Nat) /\ Len(pt) = 1 /\ pt[1] = Point
  <2>1. Point \in Nat
    BY DEF Point
  <2>. QED  BY <2>1
<1>4. data = ThreadIdHex(process, thread) \o rest
  BY DEF ThreadIdHex
<1>. HIDE DEF h1, h2, u0, pt
<1>5. /\ u1 \in Seq(Nat) /\ Len(u1) = 1 + k1 /\ u1[1] = LetterP
      /\ \A i \in 1..k1 : u1[1 + i] = h1[i]
  <2>1. /\ u1 \in Seq(Nat) /\ Len(u1) = Len(u0) + k1
        /\ \A i \in 1..Len(u0) : u1[i] = u0[i]
        /\ \A i \in 1..k1 : u1[Len(u0) + i] = h1[i]
    <3>1. u0 \in Seq(Nat) /\ h1 \in Seq(Nat)
      BY <1>1, <1>2
    <3>. QED  BY <3>1, ConcatAt
  <2>. HIDE DEF u1, k1
  <2>. QED  BY <1>2, <2>1
<1>. HIDE DEF u1
<1>6. /\ u2 \in Seq(Nat) /\ Len(u2) = 2 + k1 /\ u2[2 + k1] = Point
      /\ \A i \in 1..(1 + k1) : u2[i] = u1[i]
  <2>1. /\ u2 \in Seq(Nat) /\ Len(u2) = Len(u1) + Len(pt)
        /\ \A i \in 1..Len(u1) : u2[i] = u1[i]
        /\ \A i \in 1..Len(pt) : u2[Len(u1) + i] = pt[i]
    <3>1. u1 \in Seq(Nat) /\ pt \in Seq(Nat)
      BY <1>3, <1>5
    <3>. QED  BY <3>1, ConcatAt
  <2>. HIDE DEF u2, k1
  <2>2. u2[Len(u1) + 1] = Point
    BY <1>3, <2>1
  <2>3. Len(u1) + 1 = 2 + k1
    BY <1>1, <1>5
  <2>. QED  BY <1>1, <1>3, <1>5, <2>1, <2>2, <2>3
<1>. HIDE DEF u2
<1>7. /\ u3 \in Seq(Nat) /\ Len(u3) = 2 + k1 + k2
      /\ \A i \in 1..(2 + k1) : u3[i] = u2[i]
      /\ \A i \in 1..k2 : u3[2 + k1 + i] = h2[i]
  <2>1. /\ u3 \in Seq(Nat) /\ Len(u3) = Len(u2) + k2
        /\ \A i \in 1..Len(u2) : u3[i] = u2[i]
        /\ \A i \in 1..k2 : u3[Len(u2) + i] = h2[i]
    <3>1. u2 \in Seq(Nat) /\ h2 \in Seq(Nat)
      BY <1>1, <1>6
    <3>. QED  BY <3>1, ConcatAt
  <2>. HIDE DEF u3, k1, k2
  <2>. QED  BY <1>6, <2>1
<1>. HIDE DEF u3
<1>8. /\ data \in Seq(Nat) /\ m \in Nat /\ Len(data) = 2 + k1 + k2 + m
      /\ \A i \in 1..(2 + k1 + k2) : data[i] = u3[i]
      /\ \A i \in 1..m : data[2 + k1 + k2 + i] = rest[i]
  <2>1. /\ data \in Seq(Nat) /\ m \in Nat /\ Len(data) = Len(u3) + m
        /\ \A i \in 1..Len(u3) : data[i] = u3[i]
        /\ \A i \in 1..m : data[Len(u3) + i] = rest[i]
    <3>1. u3 \in Seq(Nat) /\ rest \in Seq(Nat)
      BY <1>7
    <3>. QED  BY <3>1, ConcatAt
  <2>. HIDE DEF data, k1, k2, m
  <2>. QED  BY <1>7, <2>1
<1>. HIDE DEF data, k1, k2, m
<1>9. data[1] = LetterP
  <2>1. 1 \in 1..(1 + k1) /\ 1 \in 1..(2 + k1) /\ 1 \in 1..(2 + k1 + k2)
    BY <1>1
  <2>. QED  BY <1>5, <1>6, <1>7, <1>8, <2>1
<1>10. ASSUME NEW i \in 1..k1 PROVE data[2 + i - 1] = h1[i]
  <2>1. /\ 1 + i \in 1..(1 + k1) /\ 1 + i \in 1..(2 + k1) /\ 1 + i \in 1..(2 + k1 + k2)
        /\ 2 + i - 1 = 1 + i
    BY <1>1
  <2>. QED  BY <1>5, <1>6, <1>7, <1>8, <2>1
<1>11. data[2 + k1] = Point
  <2>1. 2 + k1 \in 1..(2 + k1) /\ 2 + k1 \in 1..(2 + k1 + k2)
    BY <1>1
  <2>. QED  BY <1>6, <1>7, <1>8, <2>1
<1>12. ASSUME NEW i \in 1..k2 PROVE data[3 + k1 + i - 1] = h2[i]
  <2>1. 3 + k1 + i - 1 = 2 + k1 + i /\ 2 + k1 + i \in 1..(2 + k1 + k2)
    BY <1>1
  <2>. QED  BY <1>7, <1>8, <2>1
<1>13. ~IsHexDigit(Point)
  BY DEF IsHexDigit, Point
<1>14. NumberAt(data, 2, process)
  <2>1. 2 + k1 - 1 <= Len(data)
    BY <1>1, <1>8
  <2>2. ~IsHexDigit(data[2 + k1])
    BY <1>11, <1>13
  <2>. QED  BY <1>10, <2>1, <2>2 DEF NumberAt, h1, k1
<1>15. NumberAt(data, 3 + k1, thread)
  <2>1. 3 + k1 + k2 - 1 <= Len(data)
    BY <1>1, <1>8
  <2>2. ~(At(data, 3 + k1 + k2) /\ IsHexDigit(data[3 + k1 + k2]))
    <3>1. CASE rest = <<>>
      <4>1. m = 0
        BY <3>1 DEF m
      <4>2. ~(3 + k1 + k2 <= Len(data))
        BY <1>1, <1>8, <4>1
      <4>. QED  BY <4>2 DEF At
    <3>2. CASE rest # <<>>
      <4>1. 1 \in 1..m
        <5>1. m # 0
          BY <3>2, EmptySeq DEF m
        <5>. QED  BY <1>8, <5>1
      <4>2. data[2 + k1 + k2 + 1] = rest[1]
        BY <1>8, <4>1
      <4>3. 2 + k1 + k2 + 1 = 3 + k1 + k2
        BY <1>1
      <4>. QED  BY <3>2, <4>2, <4>3
    <3>. QED  BY <3>1, <3>2
  <2>. QED  BY <1>12, <2>1, <2>2 DEF NumberAt, h2, k2
<1>16. 2 + k1 + k2 \in Nat /\ 2 + k1 + k2 <= Len(data)
  BY <1>1, <1>8
<1>17. ThreadAt(data, process, thread, 2 + k1 + k2)
  BY <1>8, <1>9, <1>11, <1>14, <1>15, <1>16 DEF ThreadAt, h1, h2, k1, k2
<1>. QED  BY <1>4, <1>17 DEF h1, h2, k1, k2

\* A thread id, of a process and a thread that are counted from one.
LEMMA ThreadAnswer ==
  ASSUME NEW process \in Nat \ {0}, NEW thread \in Nat \ {0}, NEW rest \in Seq(Nat),
         rest # <<>> => ~IsHexDigit(rest[1])
  PROVE  ParseThreadId(ThreadIdHex(process, thread) \o rest, 1) = <<process, thread>>
<1>. DEFINE data == ThreadIdHex(process, thread) \o rest
            k1 == Len(Hex(process, 0))
            k2 == Len(Hex(thread, 0))
            end == 2 + k1 + k2
<1>1. k1 \in Nat \ {0} /\ k2 \in Nat \ {0}
  <2>1. 0 \in Int /\ process \in Nat /\ thread \in Nat
    OBVIOUS
  <2>. QED  BY <2>1, HexText
<1>2. ThreadAt(data, process, thread, end)
  <2>1. process \in Nat /\ thread \in Nat
    OBVIOUS
  <2>. QED  BY <2>1, ThreadText
<1>. HIDE DEF data
<1>3. /\ data \in Seq(Nat) /\ end \in Nat /\ end <= Len(data) /\ Len(data) \in Nat
      /\ data[1] = LetterP /\ NumberAt(data, 2, process) /\ data[2 + k1] = Point
      /\ NumberAt(data, 3 + k1, thread)
  <2>1. data \in Seq(Nat) => Len(data) \in Nat
    BY LenProperties
  <2>. QED  BY <1>2, <2>1 DEF ThreadAt
<1>. HIDE DEF k1, k2
<1>4. Skip(data, 1, LetterP) = 2
  <2>1. 1 <= Len(data)
    BY <1>1, <1>3
  <2>. QED  BY <1>3, <2>1 DEF Skip, At
<1>5. ParseHex(data, 2) = Read(process, 2 + k1)
  <2>1. 2 \in Nat /\ process \in Nat
    OBVIOUS
  <2>. QED  BY <1>3, <2>1, NumberReads DEF k1
<1>6. Skip(data, 2 + k1, Point) = 3 + k1
  <2>1. 2 + k1 <= Len(data) /\ 2 + k1 + 1 = 3 + k1
    BY <1>1, <1>3
  <2>. QED  BY <1>3, <2>1 DEF Skip, At
<1>7. ParseHex(data, 3 + k1) = Read(thread, 3 + k1 + k2)
  <2>1. 3 + k1 \in Nat /\ thread \in Nat
    BY <1>1
  <2>. QED  BY <1>3, <2>1, NumberReads DEF k2
<1>8. OrAll(process) = process /\ OrAll(thread) = thread
  BY DEF OrAll, NoNumber
<1>9. /\ ParseHex(data, 2).value = process /\ ParseHex(data, 2).at = 2 + k1
      /\ ParseHex(data, 3 + k1).value = thread
  BY <1>5, <1>7 DEF Read
<1>10. 2 # 1 /\ 3 + k1 # 2 + k1
  BY <1>1
<1>11. ParseThreadId(data, 1) =
         LET p == Skip(data, 1, LetterP)
             first == ParseHex(data, p)
             point == Skip(data, first.at, Point)
         IN IF p = 1 THEN <<-1, OrAll(first.value)>>
            ELSE <<OrAll(first.value),
                   IF point = first.at THEN -1 ELSE OrAll(ParseHex(data, point).value)>>
  BY Zenon DEF ParseThreadId
<1>. QED  BY <1>4, <1>6, <1>8, <1>9, <1>10, <1>11 DEF data

\* The digits of the bytes, byte by byte.
BytesStep(bytes, f, n) == IF n = 0 THEN <<>> ELSE f[n - 1] \o Hex(bytes[n], 2)
IsBytes(bytes, f) == f = [n \in 0..Len(bytes) |-> BytesStep(bytes, f, n)]

LEMMA BytesHexIs ==
  ASSUME NEW bytes
  PROVE  BytesHex(bytes) = (CHOOSE f : IsBytes(bytes, f))[Len(bytes)]
BY Zenon DEF BytesHex, IsBytes, BytesStep

LEMMA BytesExist ==
  ASSUME NEW bytes \in Seq(0..255)
  PROVE  \E f \in [0..Len(bytes) -> Seq(Nat)] : IsBytes(bytes, f)
<1>. DEFINE N == Len(bytes)
            D == 0..N
            M == Seq(Nat)
            measure == [n \in D |-> n]
            step == [n \in D |-> [f \in [D -> M] |-> BytesStep(bytes, f, n)]]
<1>0. N \in Nat /\ \A n \in 1..N : bytes[n] \in 0..255
  BY LenOf
<1>. HIDE DEF N
<1>1. ASSUME NEW n \in D, NEW f \in [D -> M] PROVE BytesStep(bytes, f, n) \in M
  <2>1. CASE n = 0
    <3>1. <<>> \in Seq(Nat)
      OBVIOUS
    <3>. QED  BY <2>1, <3>1 DEF BytesStep
  <2>2. CASE n # 0
    <3>1. n - 1 \in D /\ n \in 1..N
      BY <1>0, <2>2
    <3>2. f[n - 1] \in M /\ bytes[n] \in 0..255
      BY <1>0, <3>1
    <3>. DEFINE s == f[n - 1]
                b == bytes[n]
    <3>3. s \in Seq(Nat) /\ b \in 0..255
      BY <3>2
    <3>. HIDE DEF s, b
    <3>4. s \o Hex(b, 2) \in Seq(Nat)
      BY <3>3, TwoDigits DEF TwoMore
    <3>. QED  BY <2>2, <3>4 DEF BytesStep, s, b
  <2>. QED  BY <2>1, <2>2
<1>2. <<>> \in M
  OBVIOUS
<1>. HIDE DEF M
<1>3. step \in [D -> [[D -> M] -> M]] /\ measure \in [D -> Nat]
  BY <1>0, <1>1
<1>4. \A n \in D : \A f \in [D -> M] : step[n][f] = BytesStep(bytes, f, n)
  OBVIOUS
<1>5. ASSUME NEW n \in D, NEW f \in [D -> M], NEW g \in [D -> M],
             \A y \in D : measure[y] < measure[n] => f[y] = g[y]
      PROVE  step[n][f] = step[n][g]
  <2>1. n # 0 => f[n - 1] = g[n - 1]
    <3>1. n # 0 => n - 1 \in D /\ measure[n - 1] < measure[n]
      BY <1>0
    <3>. QED  BY <1>5, <3>1
  <2>2. BytesStep(bytes, f, n) = BytesStep(bytes, g, n)
    BY <2>1 DEF BytesStep
  <2>. HIDE DEF step
  <2>. QED  BY <1>4, <2>2
<1>. HIDE DEF step, measure
<1>6. Determined(D, M, measure, step)
  BY <1>2, <1>3, <1>5 DEF Determined
<1>7. \E f \in [D -> M] : \A n \in D : f[n] = step[n][f]
  <2>. HIDE DEF D
  <2>. QED  BY <1>6, RecursionDefines
<1>8. PICK f \in [D -> M] : \A n \in D : f[n] = step[n][f]
  BY <1>7
<1>9. IsBytes(bytes, f)
  <2>1. \A n \in D : f[n] = BytesStep(bytes, f, n)
    BY <1>4, <1>8
  <2>2. f = [n \in D |-> f[n]]
    OBVIOUS
  <2>. QED  BY <2>1, <2>2 DEF IsBytes, N
<1>. QED  BY <1>9 DEF M, N

\* Two digits for each byte.
Pairs(bytes, n, text) ==
  /\ text \in Seq(Nat) /\ Len(text) = 2 * n
  /\ \A i \in 1..n : /\ text[2 * i - 1] = HexDigit(bytes[i] \div 16)
                     /\ text[2 * i] = HexDigit(bytes[i] % 16)

LEMMA PairsGrow ==
  ASSUME NEW bytes \in Seq(0..255), NEW n \in Nat, n + 1 <= Len(bytes),
         NEW s, Pairs(bytes, n, s)
  PROVE  Pairs(bytes, n + 1, s \o Hex(bytes[n + 1], 2))
<1>. DEFINE b == bytes[n + 1]
            t == s \o Hex(b, 2)
<1>1. b \in 0..255
  BY LenOf
<1>2. s \in Seq(Nat) /\ Len(s) = 2 * n
  BY DEF Pairs
<1>. HIDE DEF b
<1>3. TwoMore(s, b, t)
  BY <1>1, <1>2, TwoDigits
<1>. HIDE DEF t
<1>4. /\ t \in Seq(Nat) /\ Len(t) = 2 * (n + 1)
      /\ t[2 * (n + 1) - 1] = HexDigit(b \div 16) /\ t[2 * (n + 1)] = HexDigit(b % 16)
  <2>1. 2 * n + 1 = 2 * (n + 1) - 1 /\ 2 * n + 2 = 2 * (n + 1)
    OBVIOUS
  <2>. QED  BY <1>2, <1>3, <2>1 DEF TwoMore
<1>5. ASSUME NEW i \in 1..(n + 1)
      PROVE  t[2 * i - 1] = HexDigit(bytes[i] \div 16) /\ t[2 * i] = HexDigit(bytes[i] % 16)
  <2>1. CASE i = n + 1
    BY <1>4, <2>1 DEF b
  <2>2. CASE i # n + 1
    <3>1. i \in 1..n /\ 2 * i - 1 \in 1..(2 * n) /\ 2 * i \in 1..(2 * n)
      BY <2>2
    <3>2. t[2 * i - 1] = s[2 * i - 1] /\ t[2 * i] = s[2 * i]
      BY <1>2, <1>3, <3>1 DEF TwoMore
    <3>. QED  BY <3>1, <3>2 DEF Pairs
  <2>. QED  BY <2>1, <2>2
<1>. QED  BY <1>4, <1>5 DEF Pairs, t, b

LEMMA BytesText ==
  ASSUME NEW bytes \in Seq(0..255)
  PROVE  Pairs(bytes, Len(bytes), BytesHex(bytes))
<1>. DEFINE N == Len(bytes)
            f == CHOOSE f : IsBytes(bytes, f)
            T == {n \in 0..N : Pairs(bytes, n, f[n])}
<1>1. N \in Nat
  BY LenOf
<1>2. IsBytes(bytes, f)
  BY BytesExist, Zenon
<1>. HIDE DEF f
<1>3. \A n \in 0..N : f[n] = BytesStep(bytes, f, n)
  <2>1. f = [n \in 0..N |-> BytesStep(bytes, f, n)]
    BY <1>2 DEF IsBytes
  <2>. HIDE DEF N
  <2>. QED  BY <2>1
<1>4. 0 \in T
  <2>1. f[0] = <<>>
    BY <1>1, <1>3 DEF BytesStep
  <2>2. Pairs(bytes, 0, <<>>)
    BY DEF Pairs
  <2>. QED  BY <1>1, <2>1, <2>2
<1>5. ASSUME NEW n \in 0..(N - 1), n \in T PROVE n + 1 \in T
  <2>1. n + 1 \in 0..N /\ n + 1 # 0 /\ (n + 1) - 1 = n /\ n \in Nat /\ n + 1 <= Len(bytes)
    BY <1>1
  <2>2. f[n + 1] = f[n] \o Hex(bytes[n + 1], 2)
    <3>1. f[n + 1] = BytesStep(bytes, f, n + 1)
      BY <1>3, <2>1
    <3>. QED  BY <2>1, <3>1 DEF BytesStep
  <2>3. Pairs(bytes, n + 1, f[n] \o Hex(bytes[n + 1], 2))
    <3>1. Pairs(bytes, n, f[n])
      BY <1>5
    <3>. QED  BY <2>1, <3>1, PairsGrow
  <2>. QED  BY <2>1, <2>2, <2>3
<1>6. 0..N \subseteq T
  <2>. HIDE DEF T, N
  <2>. QED  BY <1>1, <1>4, <1>5, BoundedInduction
<1>7. Pairs(bytes, N, f[N])
  BY <1>1, <1>6
<1>8. BytesHex(bytes) = f[N]
  BY BytesHexIs DEF f
<1>. QED  BY <1>7, <1>8

\* The bytes of M.
LEMMA MemoryAnswer ==
  ASSUME NEW bytes \in Seq(0..255)
  PROVE  MemoryBytes(BytesHex(bytes)) = bytes
<1>. DEFINE N == Len(bytes)
            text == BytesHex(bytes)
<1>1. N \in Nat /\ \A i \in 1..N : bytes[i] \in 0..255
  BY LenOf
<1>2. Pairs(bytes, N, text)
  BY BytesText
<1>3. bytes = [i \in 1..N |-> bytes[i]]
  BY LenProperties
<1>. HIDE DEF N, text
<1>4. Len(text) \div 2 = N
  <2>1. Len(text) = 2 * N
    BY <1>2 DEF Pairs
  <2>2. (2 * N) \div 2 = N
    BY <1>1
  <2>. QED  BY <2>1, <2>2
<1>5. ASSUME NEW i \in 1..N
      PROVE  HexValue(text[2 * i - 1]) * 16 + HexValue(text[2 * i]) = bytes[i]
  <2>. DEFINE b == bytes[i]
              q == b \div 16
              r == b % 16
  <2>1. b \in 0..255
    BY <1>1
  <2>2. text[2 * i - 1] = HexDigit(q) /\ text[2 * i] = HexDigit(r)
    BY <1>2 DEF Pairs
  <2>. HIDE DEF b
  <2>3. q \in 0..15 /\ r \in 0..15 /\ q * 16 + r = b
    BY <2>1, HexOfByte
  <2>. HIDE DEF q, r
  <2>4. HexValue(HexDigit(q)) = q /\ HexValue(HexDigit(r)) = r
    BY <2>3, DigitFacts
  <2>. QED  BY <2>2, <2>3, <2>4 DEF b
<1>6. MemoryBytes(text) =
        [i \in 1..N |-> HexValue(text[2 * i - 1]) * 16 + HexValue(text[2 * i])]
  BY <1>4 DEF MemoryBytes
<1>. QED  BY <1>3, <1>5, <1>6 DEF text

\* The pages of a message, from an offset on.
CollectStep(message, length, f, o) ==
  Page(message, o, length).text
    \o (IF Page(message, o, length).last THEN <<>> ELSE f[o + length])
IsCollect(message, length, f) == f = [o \in Nat |-> CollectStep(message, length, f, o)]

LEMMA CollectedIs ==
  ASSUME NEW message, NEW length
  PROVE  Collected(message, length) = (CHOOSE f : IsCollect(message, length, f))[0]
BY Zenon DEF Collected, IsCollect, CollectStep

\* What is left of a message.
Left(message, o) == SubSeq(message, o + 1, Len(message))

LEMMA LeftByPage ==
  ASSUME NEW message \in Seq(Nat), NEW length \in Nat \ {0}, NEW o \in Nat
  PROVE  /\ Page(message, o, length).last => Page(message, o, length).text \o <<>> = Left(message, o)
         /\ ~Page(message, o, length).last =>
              /\ o + length < Len(message)
              /\ Page(message, o, length).text \o Left(message, o + length) = Left(message, o)
<1>. DEFINE N == Len(message)
            end == o + length
<1>1. N \in Nat /\ end \in Nat /\ o <= end
  BY LenProperties
<1>2. Left(message, o) \in Seq(Nat) /\ Left(message, o) \o <<>> = Left(message, o)
  <2>1. \A i \in (o + 1)..N : message[i] \in Nat
    <3>1. \A i \in (o + 1)..N : i \in 1..N
      BY <1>1
    <3>. QED  BY <3>1, LenOf
  <2>2. o + 1 \in Int /\ N \in Int
    BY <1>1
  <2>3. Left(message, o) \in Seq(Nat)
    <3>. HIDE DEF N
    <3>1. SubSeq(message, o + 1, N) \in Seq(Nat)
      BY <2>1, <2>2, SubSeqProperties
    <3>. QED  BY <3>1 DEF Left, N
  <2>. QED  BY <2>3, ConcatEmptySeq
<1>3. CASE o >= N
  <2>1. Page(message, o, length) = [last |-> TRUE, text |-> <<>>]
    BY <1>3 DEF Page
  <2>2. Left(message, o) = <<>>
    <3>1. o + 1 \in Int /\ N \in Int /\ N < o + 1
      BY <1>1, <1>3
    <3>. HIDE DEF N
    <3>2. SubSeq(message, o + 1, N) = <<>>
      BY <3>1, SubSeqEmpty
    <3>. QED  BY <3>2 DEF Left, N
  <2>. QED  BY <1>2, <2>1, <2>2
<1>4. CASE o < N /\ end >= N
  <2>1. ~(o >= Len(message)) /\ o + length >= Len(message)
    BY <1>1, <1>4
  <2>2. Page(message, o, length) = [last |-> TRUE, text |-> Left(message, o)]
    BY <2>1 DEF Page, Left
  <2>. QED  BY <1>2, <2>2
<1>5. CASE end < N
  <2>1. ~(o >= Len(message)) /\ ~(o + length >= Len(message))
    BY <1>1, <1>5
  <2>2. Page(message, o, length) = [last |-> FALSE, text |-> SubSeq(message, o + 1, end)]
    BY <2>1 DEF Page
  <2>. DEFINE m == o + 1
  <2>3. m \in 1..(N + 1) /\ end \in (m - 1)..N /\ N \in end..N
    BY <1>1, <1>5
  <2>4. SubSeq(message, m, end) \o SubSeq(message, end + 1, N) = SubSeq(message, m, N)
    <3>. HIDE DEF end, m
    <3>. QED  BY <2>3, ConcatAdjacentSubSeq
  <2>5. Page(message, o, length).text \o Left(message, end) = Left(message, o)
    <3>1. Page(message, o, length).text = SubSeq(message, m, end)
      BY <2>2
    <3>2. Left(message, end) = SubSeq(message, end + 1, N) /\ Left(message, o) = SubSeq(message, m, N)
      BY DEF Left
    <3>. HIDE DEF end, m, N
    <3>. QED  BY <2>4, <3>1, <3>2
  <2>6. ~Page(message, o, length).last
    BY <2>2
  <2>7. o + length < Len(message)
    BY <1>5
  <2>. QED  BY <2>5, <2>6, <2>7
<1>6. o >= N \/ (o < N /\ end >= N) \/ end < N
  BY <1>1
<1>. QED  BY <1>3, <1>4, <1>5, <1>6, Zenon

LEMMA LeftCollects ==
  ASSUME NEW message \in Seq(Nat), NEW length \in Nat \ {0},
         NEW f, NEW o \in Nat, o + length < Len(message) => f[o + length] = Left(message, o + length)
  PROVE  CollectStep(message, length, f, o) = Left(message, o)
<1>1. CASE Page(message, o, length).last
  BY <1>1, LeftByPage DEF CollectStep
<1>2. CASE ~Page(message, o, length).last
  <2>1. /\ o + length < Len(message)
        /\ Page(message, o, length).text \o Left(message, o + length) = Left(message, o)
    BY <1>2, LeftByPage
  <2>. QED  BY <1>2, <2>1 DEF CollectStep
<1>. QED  BY <1>1, <1>2

\* A client that asks on gets the message, whatever the length of its pages.
LEMMA PagesAnswer ==
  ASSUME NEW message \in Seq(Nat), NEW length \in Nat \ {0}
  PROVE  Collected(message, length) = message
<1>. DEFINE N == Len(message)
            g == [o \in Nat |-> Left(message, o)]
            f == CHOOSE f : IsCollect(message, length, f)
            measure == [o \in Nat |-> IF o < N THEN N - o ELSE 0]
            T == {o \in Nat : f[o] = Left(message, o)}
<1>1. N \in Nat
  BY LenProperties
<1>2. IsCollect(message, length, g)
  <2>1. ASSUME NEW o \in Nat PROVE CollectStep(message, length, g, o) = Left(message, o)
    <3>1. o + length \in Nat
      OBVIOUS
    <3>2. g[o + length] = Left(message, o + length)
      BY <3>1
    <3>. HIDE DEF g
    <3>. QED  BY <3>2, LeftCollects
  <2>2. g = [o \in Nat |-> CollectStep(message, length, g, o)]
    <3>1. g = [o \in Nat |-> g[o]] /\ \A o \in Nat : g[o] = Left(message, o)
      OBVIOUS
    <3>. HIDE DEF g
    <3>. QED  BY <2>1, <3>1
  <2>. HIDE DEF g
  <2>. QED  BY <2>2 DEF IsCollect
<1>. HIDE DEF g
<1>3. IsCollect(message, length, f)
  BY <1>2, Zenon
<1>. HIDE DEF f
<1>4. \A o \in Nat : f[o] = CollectStep(message, length, f, o)
  <2>1. f = [o \in Nat |-> CollectStep(message, length, f, o)]
    BY <1>3 DEF IsCollect
  <2>. QED  BY <2>1
<1>5. ASSUME NEW o \in Nat, \A y \in Nat : measure[y] < measure[o] => y \in T
      PROVE  o \in T
  <2>1. o + length < N => f[o + length] = Left(message, o + length)
    <3>. SUFFICES ASSUME o + length < N PROVE f[o + length] = Left(message, o + length)
      OBVIOUS
    <3>1. o + length \in Nat /\ measure[o + length] < measure[o]
      BY <1>1
    <3>2. o + length \in T
      BY <1>5, <3>1
    <3>. QED  BY <3>2
  <2>2. CollectStep(message, length, f, o) = Left(message, o)
    BY <2>1, LeftCollects
  <2>. QED  BY <1>4, <2>2
<1>6. measure \in [Nat -> Nat]
  BY <1>1
<1>7. Nat \subseteq T
  <2>. DEFINE D == Nat
  <2>1. /\ measure \in [D -> Nat]
        /\ \A o \in D : (\A y \in D : measure[y] < measure[o] => y \in T) => o \in T
    <3>. HIDE DEF T, measure
    <3>. QED  BY <1>5, <1>6
  <2>2. D \subseteq T
    <3>. HIDE DEF T, measure, D
    <3>. QED  BY <2>1, MeasureInduction
  <2>. QED  BY <2>2
<1>8. f[0] = Left(message, 0)
  BY <1>7
<1>9. Left(message, 0) = message
  <2>1. 0 + 1 = 1
    OBVIOUS
  <2>. QED  BY <2>1, SubSeqFull DEF Left
<1>10. Collected(message, length) = f[0]
  BY CollectedIs DEF f
<1>. QED  BY <1>8, <1>9, <1>10

---------------------------------------------------------------------------
(* The answers of coding jobs.                                             *)

EncodeValue(x) ==
  CASE x.what = "number" -> ParseHex(Hex(x.number, 0) \o x.rest, 1)
    [] x.what = "lowercase" -> ParseHex(LowerCase(Hex(x.number, 0)) \o x.rest, 1)
    [] x.what = "register" -> ReadRegisterHex(RegisterHex(x.number) \o x.rest, 1)
    [] x.what = "thread" -> ParseThreadId(ThreadIdHex(x.process, x.thread) \o x.rest, 1)
    [] x.what = "bytes" -> MemoryBytes(BytesHex(x.bytes))
    [] x.what = "pages" -> Collected(x.text, x.length)
    [] x.what = "P" -> HandleP(Hex(x.register, 0) \o <<Equals>> \o RegisterHex(x.number), 33)

CodeAnswered(x, value) ==
  CASE x.what \in {"number", "lowercase", "register"} ->
         value.value = x.number /\ value.at = x.length + 1
    [] x.what = "thread" -> value = <<x.process, x.thread>>
    [] x.what = "bytes" -> value = x.bytes
    [] x.what = "pages" -> value = x.text
    [] OTHER -> TRUE

LEMMA CodeAnswer ==
  ASSUME NEW x \in CodeJobs
  PROVE  CodeAnswered(x, EncodeValue(x))
<1>1. CASE x.what = "number"
  <2>1. x.number \in Nat /\ x.rest \in Seq(Nat) /\ (x.rest # <<>> => ~IsHexDigit(x.rest[1]))
        /\ x.length = Len(Hex(x.number, 0))
    BY <1>1, CodeJobsAssumption
  <2>2. EncodeValue(x) = ParseHex(Hex(x.number, 0) \o x.rest, 1)
    BY <1>1 DEF EncodeValue
  <2>3. EncodeValue(x) = Read(x.number, 1 + x.length)
    BY <2>1, <2>2, NumberAnswer
  <2>4. EncodeValue(x).value = x.number /\ EncodeValue(x).at = 1 + x.length
    BY <2>3 DEF Read
  <2>5. 1 + x.length = x.length + 1
    <3>1. x.length \in Nat
      BY <2>1, HexText
    <3>. QED  BY <3>1
  <2>. QED  BY <1>1, <2>4, <2>5 DEF CodeAnswered
<1>2. CASE x.what = "lowercase"
  <2>1. x.number \in Nat /\ x.rest \in Seq(Nat) /\ (x.rest # <<>> => ~IsHexDigit(x.rest[1]))
        /\ x.length = Len(Hex(x.number, 0))
    BY <1>2, CodeJobsAssumption
  <2>2. EncodeValue(x) = ParseHex(LowerCase(Hex(x.number, 0)) \o x.rest, 1)
    BY <1>2 DEF EncodeValue
  <2>3. EncodeValue(x) = Read(x.number, 1 + x.length)
    BY <2>1, <2>2, NumberAnswer
  <2>4. EncodeValue(x).value = x.number /\ EncodeValue(x).at = 1 + x.length
    BY <2>3 DEF Read
  <2>5. 1 + x.length = x.length + 1
    <3>1. x.length \in Nat
      BY <2>1, HexText
    <3>. QED  BY <3>1
  <2>. QED  BY <1>2, <2>4, <2>5 DEF CodeAnswered
<1>3. CASE x.what = "register"
  <2>1. IsWord(x.number) /\ x.rest \in Seq(Nat) /\ x.rest # <<>> /\ x.length = 8
    BY <1>3, CodeJobsAssumption, SMT DEF IsWord
  <2>2. EncodeValue(x) = ReadRegisterHex(RegisterHex(x.number) \o x.rest, 1)
    BY <1>3 DEF EncodeValue
  <2>3. EncodeValue(x) = Read(x.number, 9)
    BY <2>1, <2>2, WordAnswer
  <2>4. EncodeValue(x).value = x.number /\ EncodeValue(x).at = x.length + 1
    BY <2>1, <2>3 DEF Read
  <2>. QED  BY <1>3, <2>4 DEF CodeAnswered
<1>4. CASE x.what = "thread"
  <2>1. /\ x.process \in Nat \ {0} /\ x.thread \in Nat \ {0} /\ x.rest \in Seq(Nat)
        /\ x.rest # <<>> => ~IsHexDigit(x.rest[1])
    BY <1>4, CodeJobsAssumption
  <2>2. EncodeValue(x) = ParseThreadId(ThreadIdHex(x.process, x.thread) \o x.rest, 1)
    BY <1>4 DEF EncodeValue
  <2>3. EncodeValue(x) = <<x.process, x.thread>>
    BY <2>1, <2>2, ThreadAnswer
  <2>. QED  BY <1>4, <2>3 DEF CodeAnswered
<1>5. CASE x.what = "bytes"
  <2>1. x.bytes \in Seq(0..255)
    BY <1>5, CodeJobsAssumption
  <2>2. EncodeValue(x) = MemoryBytes(BytesHex(x.bytes))
    BY <1>5 DEF EncodeValue
  <2>. QED  BY <1>5, <2>1, <2>2, MemoryAnswer DEF CodeAnswered
<1>6. CASE x.what = "pages"
  <2>1. x.text \in Seq(Nat) /\ x.length \in Nat \ {0}
    BY <1>6, CodeJobsAssumption
  <2>2. EncodeValue(x) = Collected(x.text, x.length)
    BY <1>6 DEF EncodeValue
  <2>. QED  BY <1>6, <2>1, <2>2, PagesAnswer DEF CodeAnswered
<1>7. CASE x.what \notin {"number", "lowercase", "register", "thread", "bytes", "pages"}
  BY <1>7 DEF CodeAnswered
<1>. QED  BY <1>1, <1>2, <1>3, <1>4, <1>5, <1>6, <1>7

\* What the packet layer writes is read back as it was written: numbers in
\* either case, registers, thread ids, memory bytes, and a message in pages
\* (gdb_communication.py: append_hex, parse_hex, read_register_hex,
\* parse_thread_id, write_paged_message).
THEOREM WrittenTextReadBack == HostSpec => []EncodingReversed
<1>0. /\ EncodingReversed <=> (Answered("code") => CodeAnswered(job.call, answer.value))
      /\ EncodingReversed' <=> (answer'.done /\ job'.kind = "code"
                                 => CodeAnswered(job'.call, answer'.value))
  BY DEF EncodingReversed, CodeAnswered, Answered, a, c
<1>1. HostInit => EncodingReversed
  BY DEF HostInit, EncodingReversed, Answered
<1>2. JobInv /\ EncodingReversed /\ [HostNext]_hostVars => EncodingReversed'
  <2>. SUFFICES ASSUME JobInv, EncodingReversed, [HostNext]_hostVars PROVE EncodingReversed'
    OBVIOUS
  <2>1. CASE answer' = answer
    BY <1>0, <2>1, JobStep DEF Answered
  <2>2. CASE Encode /\ JobOf("code")
    <3>. DEFINE x == job.call
    <3>1. x \in CodeJobs /\ job' = job
      BY <2>2, JobStep DEF JobOf, JobsOf
    <3>2. answer'.value = EncodeValue(x)
      BY <2>2, Zenon DEF Encode, Answer, c, EncodeValue
    <3>3. CodeAnswered(x, EncodeValue(x))
      BY <3>1, CodeAnswer
    <3>. QED  BY <1>0, <3>1, <3>2, <3>3
  <2>3. ASSUME job.kind # "code" PROVE EncodingReversed'
    BY <1>0, <2>3, JobStep
  <2>. QED  BY <2>1, <2>2, <2>3, JobStep DEF JobOf
<1>. QED  BY JobInit, JobStep, <1>1, <1>2, PTL DEF HostSpec

---------------------------------------------------------------------------
(* The jump of a core to where its program begins.                         *)

\* The halves of an offset.
IsHalf(distance, h) == h = [i \in 0..20 |-> IF i = 0 THEN distance ELSE h[i - 1] \div 2]
Halves(distance) == CHOOSE h : IsHalf(distance, h)

LEMMA BitsAre ==
  ASSUME NEW distance
  PROVE  Bits21(distance) = {i \in 0..20 : Halves(distance)[i] % 2 = 1}
BY Zenon DEF Bits21, Halves, IsHalf

LEMMA HalvesAre ==
  ASSUME NEW distance \in Int
  PROVE  /\ Halves(distance) \in [0..20 -> Int] /\ Halves(distance)[0] = distance
         /\ \A i \in 1..20 : Halves(distance)[i] = Halves(distance)[i - 1] \div 2
<1>. DEFINE next == [v \in Int |-> v \div 2]
            h == Halves(distance)
<1>1. next \in [Int -> Int]
  OBVIOUS
<1>2. \E g : IsIteration(Int, distance, next, 20, g)
  <2>1. 20 \in Nat
    OBVIOUS
  <2>. HIDE DEF next
  <2>. QED  BY <1>1, <2>1, IterationUpTo
<1>3. PICK g : IsIteration(Int, distance, next, 20, g)
  BY <1>2
<1>4. g \in [0..20 -> Int] /\ g[0] = distance /\ \A k \in 1..20 : g[k] = g[k - 1] \div 2
  <2>1. g \in [0..20 -> Int] /\ g[0] = distance /\ \A k \in 1..20 : g[k] = next[g[k - 1]]
    BY <1>3 DEF IsIteration
  <2>2. ASSUME NEW k \in 1..20 PROVE g[k - 1] \in Int
    <3>1. k - 1 \in 0..20
      OBVIOUS
    <3>. QED  BY <2>1, <3>1
  <2>. QED  BY <2>1, <2>2
<1>5. IsHalf(distance, g)
  <2>1. ASSUME NEW i \in 0..20 PROVE g[i] = IF i = 0 THEN distance ELSE g[i - 1] \div 2
    <3>1. CASE i = 0
      BY <1>4, <3>1
    <3>2. CASE i # 0
      <4>1. i \in 1..20
        BY <3>2
      <4>. QED  BY <1>4, <3>2, <4>1
    <3>. QED  BY <3>1, <3>2
  <2>2. g = [i \in 0..20 |-> g[i]]
    BY <1>4
  <2>. QED  BY <2>1, <2>2 DEF IsHalf
<1>6. IsHalf(distance, h)
  BY <1>5, Zenon DEF Halves
<1>. HIDE DEF h
<1>7. \A i \in 0..20 : h[i] = IF i = 0 THEN distance ELSE h[i - 1] \div 2
  <2>1. h = [i \in 0..20 |-> IF i = 0 THEN distance ELSE h[i - 1] \div 2]
    BY <1>6 DEF IsHalf
  <2>. QED  BY <2>1
<1>. DEFINE T == {i \in 0..20 : h[i] = g[i]}
<1>8. 0 \in T
  BY <1>4, <1>7
<1>9. ASSUME NEW i \in 0..(20 - 1), i \in T PROVE i + 1 \in T
  <2>1. i + 1 \in 1..20 /\ i + 1 \in 0..20 /\ i + 1 # 0 /\ (i + 1) - 1 = i
    OBVIOUS
  <2>2. h[i + 1] = h[i] \div 2
    BY <1>7, <2>1
  <2>3. g[i + 1] = g[i] \div 2
    BY <1>4, <2>1
  <2>. QED  BY <1>9, <2>1, <2>2, <2>3
<1>10. 0..20 \subseteq T
  <2>1. 20 \in Nat
    OBVIOUS
  <2>. HIDE DEF T
  <2>. QED  BY <1>8, <1>9, <2>1, BoundedInduction
<1>11. h = g
  <2>1. h = [i \in 0..20 |-> IF i = 0 THEN distance ELSE h[i - 1] \div 2]
    BY <1>6 DEF IsHalf
  <2>2. DOMAIN h = 0..20
    BY <2>1
  <2>3. \A i \in 0..20 : h[i] = g[i]
    BY <1>10
  <2>4. h = [i \in 0..20 |-> h[i]]
    BY <2>1
  <2>. QED  BY <1>4, <2>3, <2>4
<1>. QED  BY <1>4, <1>11 DEF h

\* Four halves in a row.
LEMMA FourHalves ==
  ASSUME NEW distance \in Int, NEW i \in 0..16, NEW k \in Nat,
         (-16) * k <= Halves(distance)[i], Halves(distance)[i] <= 16 * k - 1
  PROVE  -k <= Halves(distance)[i + 4] /\ Halves(distance)[i + 4] <= k - 1
<1>. DEFINE h == Halves(distance)
            v0 == h[i]
            v1 == h[i + 1]
            v2 == h[i + 2]
            v3 == h[i + 3]
            v4 == h[i + 4]
<1>1. h \in [0..20 -> Int] /\ \A j \in 1..20 : h[j] = h[j - 1] \div 2
  BY HalvesAre
<1>. HIDE DEF h
<1>2. /\ i \in 0..20 /\ i + 1 \in 1..20 /\ i + 2 \in 1..20 /\ i + 3 \in 1..20 /\ i + 4 \in 1..20
      /\ (i + 1) - 1 = i /\ (i + 2) - 1 = i + 1 /\ (i + 3) - 1 = i + 2 /\ (i + 4) - 1 = i + 3
  OBVIOUS
<1>3. v0 \in Int /\ v1 = v0 \div 2 /\ v2 = v1 \div 2 /\ v3 = v2 \div 2 /\ v4 = v3 \div 2
  BY <1>1, <1>2
<1>4. (-16) * k <= v0 /\ v0 <= 16 * k - 1
  BY DEF h
<1>. HIDE DEF v0, v1, v2, v3, v4
<1>5. v1 \in Int /\ (-8) * k <= v1 /\ v1 <= 8 * k - 1
  BY <1>3, <1>4
<1>6. v2 \in Int /\ (-4) * k <= v2 /\ v2 <= 4 * k - 1
  BY <1>3, <1>5
<1>7. v3 \in Int /\ (-2) * k <= v3 /\ v3 <= 2 * k - 1
  BY <1>3, <1>6
<1>8. -k <= v4 /\ v4 <= k - 1
  BY <1>3, <1>7
<1>. QED  BY <1>8 DEF v4, h

LEMMA LastHalf ==
  ASSUME NEW distance \in Int, Jumpable(distance)
  PROVE  Halves(distance)[20] \in (-1)..0
<1>1. distance \in Int /\ (-1048576) <= distance /\ distance <= 1048575
  BY SMT DEF Jumpable
<1>. DEFINE h == Halves(distance)
            InHalf(i, k) == -k <= h[i] /\ h[i] <= k - 1
<1>2. InHalf(0, 1048576)
  <2>1. h[0] = distance
    BY <1>1, HalvesAre, SMT
  <2>. HIDE DEF h
  <2>. QED  BY <1>1, <2>1, SMT
<1>. HIDE DEF InHalf
<1>3. ASSUME NEW i \in 0..16, NEW k \in Nat, InHalf(i, 16 * k) PROVE InHalf(i + 4, k)
  <2>1. (-16) * k <= Halves(distance)[i] /\ Halves(distance)[i] <= 16 * k - 1
    BY <1>3 DEF InHalf
  <2>2. -k <= Halves(distance)[i + 4] /\ Halves(distance)[i + 4] <= k - 1
    BY <1>1, <2>1, FourHalves
  <2>. QED  BY <2>2 DEF InHalf
<1>4. InHalf(4, 65536)
  BY <1>2, <1>3, SMT
<1>5. InHalf(8, 4096)
  BY <1>3, <1>4, SMT
<1>6. InHalf(12, 256)
  BY <1>3, <1>5, SMT
<1>7. InHalf(16, 16)
  BY <1>3, <1>6, SMT
<1>8. InHalf(20, 1)
  BY <1>3, <1>7, SMT
<1>9. h[20] \in Int
  BY <1>1, HalvesAre, SMT
<1>. QED  BY <1>1, <1>8, <1>9, SMT DEF InHalf

\* The bits of a jump, put back in their order.
Imm(b) == CASE b = 31 -> 20 [] b = 20 -> 11 [] b \in 21..30 -> b - 20 [] OTHER -> b
ImmBits(jump) == {Imm(b) : b \in jump}
IsSum(bits, f) ==
  f = [n \in 0..20 |-> IF n = 0 THEN IF 20 \in bits THEN -1 ELSE 0
                       ELSE 2 * f[n - 1] + IF 20 - n \in bits THEN 1 ELSE 0]

LEMMA TargetIs ==
  ASSUME NEW jump, NEW from
  PROVE  Target(jump, from) = from + (CHOOSE f : IsSum(ImmBits(jump), f))[20]
BY Zenon DEF Target, Imm, ImmBits, IsSum

LEMMA JumpBits ==
  ASSUME NEW distance \in Int, NEW i \in 0..20
  PROVE  i \in ImmBits(Jump(distance)) <=> i # 0 /\ Halves(distance)[i] % 2 = 1
<1>. DEFINE o == Bits21(distance)
            jump == Jump(distance)
<1>1. i \in o <=> Halves(distance)[i] % 2 = 1
  BY BitsAre
<1>2. \A b : b \in jump <=> \/ b = 31 /\ 20 \in o
                            \/ b \in 12..19 /\ b \in o
                            \/ b = 20 /\ 11 \in o
                            \/ b \in 21..30 /\ b - 20 \in o
  <2>. HIDE DEF o
  <2>1. jump = {31 : j \in {20} \cap o} \cup {j : j \in (12..19) \cap o}
                 \cup {20 : j \in {11} \cap o} \cup {j + 20 : j \in (1..10) \cap o}
    BY Zenon DEF Jump, o
  <2>. HIDE DEF jump
  <2>2. ASSUME NEW b PROVE b \in {31 : j \in {20} \cap o} <=> b = 31 /\ 20 \in o
    OBVIOUS
  <2>3. ASSUME NEW b PROVE b \in {j : j \in (12..19) \cap o} <=> b \in 12..19 /\ b \in o
    OBVIOUS
  <2>4. ASSUME NEW b PROVE b \in {20 : j \in {11} \cap o} <=> b = 20 /\ 11 \in o
    OBVIOUS
  <2>5. ASSUME NEW b PROVE b \in {j + 20 : j \in (1..10) \cap o} <=> b \in 21..30 /\ b - 20 \in o
    <3>1. ASSUME NEW j \in (1..10) \cap o, b = j + 20 PROVE b \in 21..30 /\ b - 20 \in o
      <4>1. b \in 21..30 /\ b - 20 = j
        BY <3>1
      <4>. QED  BY <4>1
    <3>2. ASSUME b \in 21..30, b - 20 \in o PROVE \E j \in (1..10) \cap o : b = j + 20
      <4>1. b - 20 \in (1..10) \cap o /\ b = (b - 20) + 20
        BY <3>2
      <4>. QED  BY <4>1
    <3>. QED  BY <3>1, <3>2
  <2>. QED  BY <2>1, <2>2, <2>3, <2>4, <2>5
<1>. HIDE DEF jump
<1>3. Imm(31) = 20 /\ Imm(20) = 11 /\ (\A b \in 21..30 : Imm(b) = b - 20)
      /\ (\A b \in 12..19 : Imm(b) = b)
  BY DEF Imm
<1>4. ASSUME i \in ImmBits(jump) PROVE i \in o /\ i # 0
  <2>1. PICK b \in jump : i = Imm(b)
    BY <1>4 DEF ImmBits
  <2>2. CASE b = 31 /\ 20 \in o
    BY <1>3, <2>1, <2>2
  <2>3. CASE b \in 12..19 /\ b \in o
    <3>1. i = b
      BY <1>3, <2>1, <2>3
    <3>. QED  BY <2>3, <3>1
  <2>4. CASE b = 20 /\ 11 \in o
    BY <1>3, <2>1, <2>4
  <2>5. CASE b \in 21..30 /\ b - 20 \in o
    <3>1. i = b - 20
      BY <1>3, <2>1, <2>5
    <3>. QED  BY <2>5, <3>1
  <2>. QED  BY <1>2, <2>1, <2>2, <2>3, <2>4, <2>5
<1>5. ASSUME i \in o, i # 0 PROVE i \in ImmBits(jump)
  <2>. SUFFICES \E b \in jump : i = Imm(b)
    BY DEF ImmBits
  <2>1. CASE i = 20
    <3>1. 31 \in jump
      BY <1>2, <1>5, <2>1
    <3>. QED  BY <1>3, <2>1, <3>1
  <2>2. CASE i = 11
    <3>1. 20 \in jump
      BY <1>2, <1>5, <2>2
    <3>. QED  BY <1>3, <2>2, <3>1
  <2>3. CASE i \in 12..19
    <3>1. i \in jump
      BY <1>2, <1>5, <2>3
    <3>. QED  BY <1>3, <2>3, <3>1
  <2>4. CASE i \in 1..10
    <3>1. i + 20 \in 21..30 /\ (i + 20) - 20 = i
      BY <2>4
    <3>2. i + 20 \in jump
      BY <1>2, <1>5, <3>1
    <3>3. Imm(i + 20) = (i + 20) - 20
      BY <1>3, <3>1
    <3>. QED  BY <3>1, <3>2, <3>3
  <2>5. i = 20 \/ i = 11 \/ i \in 12..19 \/ i \in 1..10
    BY <1>5
  <2>. QED  BY <2>1, <2>2, <2>3, <2>4, <2>5
<1>6. i \in ImmBits(jump) <=> i # 0 /\ i \in o
  BY <1>4, <1>5
<1>. QED  BY <1>1, <1>6 DEF jump

\* A jump by an even offset goes as far as the offset says.
LEMMA JumpGoes ==
  ASSUME NEW distance \in Int, Jumpable(distance), distance % 2 = 0, NEW from \in Int
  PROVE  Target(Jump(distance), from) = from + distance
<1>. DEFINE h == Halves(distance)
            bits == ImmBits(Jump(distance))
            f == CHOOSE f : IsSum(bits, f)
            g == [n \in 0..20 |-> h[20 - n]]
            bit(n) == IF 20 - n \in bits THEN 1 ELSE 0
            top == IF 20 \in bits THEN -1 ELSE 0
<1>1. h \in [0..20 -> Int] /\ h[0] = distance /\ \A i \in 1..20 : h[i] = h[i - 1] \div 2
  BY HalvesAre
<1>2. \A i \in 0..20 : i \in bits <=> i # 0 /\ h[i] % 2 = 1
  BY JumpBits
<1>3. h[20] \in (-1)..0
  BY LastHalf
<1>. HIDE DEF h, bits
<1>4. top = h[20]
  <2>1. 20 \in bits <=> h[20] % 2 = 1
    <3>1. 20 \in 0..20 /\ 20 # 0
      OBVIOUS
    <3>. QED  BY <1>2, <3>1
  <2>2. CASE h[20] = 0
    <3>1. 0 % 2 # 1
      OBVIOUS
    <3>. QED  BY <2>1, <2>2, <3>1
  <2>3. CASE h[20] = -1
    <3>1. h[20] \in Int /\ h[20] % 2 \in 0..1 /\ h[20] = 2 * (h[20] \div 2) + (h[20] % 2)
      <4>1. h[20] \in Int
        BY <1>3
      <4>2. \A v \in Int : v % 2 \in 0..1 /\ v = 2 * (v \div 2) + (v % 2)
        OBVIOUS
      <4>. QED  BY <4>1, <4>2
    <3>2. h[20] % 2 = 1
      BY <2>3, <3>1
    <3>. QED  BY <2>1, <2>3, <3>2
  <2>. QED  BY <1>3, <2>2, <2>3
<1>5. ASSUME NEW n \in 1..20 PROVE 2 * h[20 - (n - 1)] + bit(n) = h[20 - n]
  <2>. DEFINE i == 20 - n
              v == h[i]
              w == h[i + 1]
  <2>1. i \in 0..20 /\ i + 1 \in 1..20 /\ (i + 1) - 1 = i /\ 20 - (n - 1) = i + 1
    OBVIOUS
  <2>2. w = v \div 2 /\ v \in Int /\ h[20 - (n - 1)] = w
    BY <1>1, <2>1
  <2>3. bit(n) = v % 2
    <3>1. v % 2 = 0 \/ v % 2 = 1
      <4>. HIDE DEF v
      <4>. QED  BY <2>2
    <3>2. CASE i = 0
      <4>1. v = distance
        BY <1>1, <3>2
      <4>2. i \notin bits
        BY <1>2, <2>1, <3>2
      <4>. QED  BY <4>1, <4>2
    <3>3. CASE i # 0
      <4>1. i \in bits <=> v % 2 = 1
        BY <1>2, <2>1, <3>3
      <4>. QED  BY <3>1, <4>1
    <3>. QED  BY <3>2, <3>3
  <2>. HIDE DEF v, w, bit
  <2>4. 2 * w + (v % 2) = v
    BY <2>2
  <2>. QED  BY <2>2, <2>3, <2>4 DEF v
<1>. HIDE DEF bit, top
<1>6. IsSum(bits, g)
  <2>1. ASSUME NEW n \in 0..20
        PROVE  g[n] = IF n = 0 THEN top ELSE 2 * g[n - 1] + bit(n)
    <3>1. g[n] = h[20 - n]
      OBVIOUS
    <3>2. CASE n = 0
      <4>1. 20 - n = 20
        BY <3>2
      <4>. QED  BY <1>4, <3>1, <3>2, <4>1
    <3>3. CASE n # 0
      <4>1. n \in 1..20 /\ n - 1 \in 0..20
        BY <3>3
      <4>2. g[n - 1] = h[20 - (n - 1)]
        BY <4>1
      <4>. HIDE DEF g
      <4>. QED  BY <1>5, <3>1, <3>3, <4>1, <4>2
    <3>. QED  BY <3>2, <3>3
  <2>2. g = [n \in 0..20 |-> IF n = 0 THEN top ELSE 2 * g[n - 1] + bit(n)]
    <3>1. g = [n \in 0..20 |-> g[n]]
      OBVIOUS
    <3>. HIDE DEF g
    <3>. QED  BY <2>1, <3>1
  <2>. HIDE DEF g
  <2>. QED  BY <2>2 DEF IsSum, top, bit
<1>. HIDE DEF g
<1>7. IsSum(bits, f)
  BY <1>6, Zenon
<1>. HIDE DEF f
<1>8. \A n \in 0..20 : f[n] = IF n = 0 THEN top ELSE 2 * f[n - 1] + bit(n)
  <2>1. f = [n \in 0..20 |-> IF n = 0 THEN top ELSE 2 * f[n - 1] + bit(n)]
    BY <1>7 DEF IsSum, top, bit
  <2>. QED  BY <2>1
<1>. DEFINE T == {n \in 0..20 : f[n] = h[20 - n]}
<1>9. 0 \in T
  <2>1. 0 \in 0..20 /\ 20 - 0 = 20
    OBVIOUS
  <2>. QED  BY <1>4, <1>8, <2>1
<1>10. ASSUME NEW n \in 0..(20 - 1), n \in T PROVE n + 1 \in T
  <2>1. n + 1 \in 1..20 /\ n + 1 \in 0..20 /\ n + 1 # 0 /\ (n + 1) - 1 = n
    OBVIOUS
  <2>2. f[n + 1] = 2 * f[n] + bit(n + 1)
    BY <1>8, <2>1
  <2>3. 2 * h[20 - n] + bit(n + 1) = h[20 - (n + 1)]
    BY <1>5, <2>1
  <2>. QED  BY <1>10, <2>1, <2>2, <2>3
<1>11. 0..20 \subseteq T
  <2>1. 20 \in Nat
    OBVIOUS
  <2>. HIDE DEF T
  <2>. QED  BY <1>9, <1>10, <2>1, BoundedInduction
<1>12. f[20] = distance
  <2>1. 20 \in 0..20 /\ 20 - 20 = 0
    OBVIOUS
  <2>2. f[20] = h[20 - 20]
    BY <1>11, <2>1
  <2>. QED  BY <1>1, <2>1, <2>2
<1>13. Target(Jump(distance), from) = from + f[20]
  BY TargetIs DEF f, bits
<1>. QED  BY <1>12, <1>13

---------------------------------------------------------------------------
(* The sections of a file.                                                 *)

Unloaded == [memory |-> <<>>, init |-> -1, raised |-> FALSE]
LoadStep(core, loader, elf, fault, f, n) ==
  IF n = 0 THEN Unloaded ELSE LoadSection(core, loader, elf, fault, f[n - 1], SectionsToLoad[n])
IsLoads(core, loader, elf, fault, f) ==
  f = [n \in 0..Len(SectionsToLoad) |-> LoadStep(core, loader, elf, fault, f, n)]

LEMMA LoadsAre ==
  ASSUME NEW core, NEW loader, NEW elf, NEW fault
  PROVE  LoadSections(core, loader, elf, fault) =
           (CHOOSE f : IsLoads(core, loader, elf, fault, f))[Len(SectionsToLoad)]
BY Zenon DEF LoadSections, IsLoads, LoadStep, Unloaded

\* The sections, one after another.
LEMMA LoadsInTurn ==
  ASSUME NEW core, NEW loader, NEW elf, NEW fault
  PROVE  \E l1, l2 :
           /\ l1 = LoadSection(core, loader, elf, fault, Unloaded, ".init")
           /\ l2 = LoadSection(core, loader, elf, fault, l1, ".text")
           /\ LoadSections(core, loader, elf, fault) =
                LoadSection(core, loader, elf, fault, l2, ".ldm_data")
<1>. DEFINE after(load, name) == LoadSection(core, loader, elf, fault, load, name)
            l1 == after(Unloaded, ".init")
            l2 == after(l1, ".text")
            l3 == after(l2, ".ldm_data")
            g == [n \in 0..3 |-> IF n = 0 THEN Unloaded ELSE IF n = 1 THEN l1
                                 ELSE IF n = 2 THEN l2 ELSE l3]
            f == CHOOSE f : IsLoads(core, loader, elf, fault, f)
            step(h, n) == LoadStep(core, loader, elf, fault, h, n)
<1>1. /\ Len(SectionsToLoad) = 3 /\ SectionsToLoad[1] = ".init"
      /\ SectionsToLoad[2] = ".text" /\ SectionsToLoad[3] = ".ldm_data"
  BY DEF SectionsToLoad
<1>2. ASSUME NEW h
      PROVE  /\ step(h, 0) = Unloaded /\ step(h, 1) = after(h[0], ".init")
             /\ step(h, 2) = after(h[1], ".text") /\ step(h, 3) = after(h[2], ".ldm_data")
  <2>1. 1 # 0 /\ 2 # 0 /\ 3 # 0 /\ 1 - 1 = 0 /\ 2 - 1 = 1 /\ 3 - 1 = 2
    OBVIOUS
  <2>. QED  BY <1>1, <2>1 DEF LoadStep
<1>. HIDE DEF after, step
<1>3. g[0] = Unloaded /\ g[1] = l1 /\ g[2] = l2 /\ g[3] = l3
  <2>. HIDE DEF l1, l2, l3
  <2>. QED  OBVIOUS
<1>4. \A n \in 0..3 : n = 0 \/ n = 1 \/ n = 2 \/ n = 3
  OBVIOUS
<1>5. g = [n \in 0..3 |-> g[n]]
  OBVIOUS
<1>. HIDE DEF g
<1>6. ASSUME NEW n \in 0..3 PROVE g[n] = step(g, n)
  BY <1>2, <1>3, <1>4
<1>7. IsLoads(core, loader, elf, fault, g)
  <2>1. g = [n \in 0..3 |-> step(g, n)]
    BY <1>5, <1>6
  <2>. QED  BY <1>1, <2>1 DEF IsLoads, step
<1>8. IsLoads(core, loader, elf, fault, f)
  BY <1>7, Zenon
<1>. HIDE DEF f
<1>9. \A n \in 0..3 : f[n] = step(f, n)
  <2>1. f = [n \in 0..3 |-> step(f, n)]
    BY <1>1, <1>8 DEF IsLoads, step
  <2>. QED  BY <2>1
<1>10. f[0] = Unloaded /\ f[1] = l1 /\ f[2] = l2 /\ f[3] = l3
  <2>1. 0 \in 0..3 /\ 1 \in 0..3 /\ 2 \in 0..3 /\ 3 \in 0..3
    OBVIOUS
  <2>2. f[0] = Unloaded
    BY <1>2, <1>9, <2>1
  <2>3. f[1] = l1
    BY <1>2, <1>9, <2>1, <2>2
  <2>. HIDE DEF l1
  <2>4. f[2] = l2
    BY <1>2, <1>9, <2>1, <2>3
  <2>. HIDE DEF l2
  <2>5. f[3] = l3
    BY <1>2, <1>9, <2>1, <2>4
  <2>. QED  BY <2>2, <2>3, <2>4, <2>5
<1>11. LoadSections(core, loader, elf, fault) = l3
  <2>1. LoadSections(core, loader, elf, fault) = f[3]
    BY <1>1, LoadsAre DEF f
  <2>. QED  BY <1>10, <2>1
<1>12. /\ l1 = LoadSection(core, loader, elf, fault, Unloaded, ".init")
       /\ l2 = LoadSection(core, loader, elf, fault, l1, ".text")
       /\ l3 = LoadSection(core, loader, elf, fault, l2, ".ldm_data")
  BY DEF after
<1>. HIDE DEF l1, l2, l3
<1>. QED  BY <1>11, <1>12

\* The places of a section, for the loader and for the core.
LEMMA ReachedIsSeen ==
  ASSUME NEW core, NEW loader, NEW elf, NEW name \in DOMAIN elf,
         WellPlaced(core, loader), Sound(core, loader, elf),
         elf[name].address \in Int, elf[name].size \in Nat,
         Permitted(core, Remapped(core, loader, elf[name].address), elf[name].size),
         NEW i \in 0..(elf[name].size - 1)
  PROVE  Reached(core, Remapped(core, loader, elf[name].address), i) =
           Seen(core, Remapped(core, loader, elf[name].address) + i)
<1>. DEFINE address == Remapped(core, loader, elf[name].address)
            size == elf[name].size
            private(x) == Within(x, core.data) \/ Within(x, core.code)
            l == core.l1
            d == core.data
            k == core.code
<1>1. /\ l.start \in Int /\ l.size \in Nat /\ d.start \in Int /\ d.size \in Nat
      /\ k.start \in Int /\ k.size \in Nat
      /\ End(l) = l.start + l.size /\ End(d) = d.start + d.size /\ End(k) = k.start + k.size
      /\ End(d) <= l.start \/ End(l) <= d.start
      /\ End(k) <= l.start \/ End(l) <= k.start
      /\ End(d) <= k.start \/ End(k) <= d.start
  BY DEF WellPlaced, End
<1>2. address \in Int
  BY <1>1 DEF Remapped, Moved, WellPlaced
<1>3. /\ Within(address, d) => ~core.data_noc
      /\ \A j \in 0..(size - 1) : private(address + j) => private(address)
  BY DEF Sound
<1>4. size \in Nat /\ i \in Nat /\ i < size /\ i \in 0..(size - 1)
  OBVIOUS
<1>5. Permitted(core, address, size)
  OBVIOUS
<1>6. ASSUME NEW x \in Int
      PROVE  /\ Within(x, l) <=> l.start <= x /\ x < End(l)
             /\ Within(x, d) <=> d.start <= x /\ x < End(d)
             /\ Within(x, k) <=> k.start <= x /\ x < End(k)
  BY DEF Within
<1>. HIDE DEF address, size, l, d, k
<1>7. private(address + i) <=> Route(core, address) = "debug"
  <2>1. CASE Within(address, d) \/ Within(address, k)
    <3>1. Route(core, address) = "debug"
      BY <1>3, <2>1 DEF Route, d, k
    <3>2. ~Restricted({l, d}, address, size)
      BY <1>5, <3>1 DEF Permitted, l, d
    <3>3. PICK b \in {l, d} : Within(address, b) /\ Within(address + size - 1, b)
      BY <3>2 DEF Restricted
    <3>4. b = d
      <4>1. ~Within(address, l)
        BY <1>1, <1>2, <1>6, <2>1
      <4>. QED  BY <3>3, <4>1
    <3>5. Within(address + i, d)
      <4>1. d.start <= address /\ address + size - 1 < End(d) /\ End(d) \in Int
        BY <1>1, <3>3, <3>4 DEF Within
      <4>2. d.start <= address + i /\ address + i < End(d)
        BY <1>1, <1>2, <1>4, <4>1
      <4>. QED  BY <4>2 DEF Within
    <3>. QED  BY <3>1, <3>5 DEF d
  <2>2. CASE ~(Within(address, d) \/ Within(address, k))
    <3>1. ~private(address + i)
      BY <1>3, <1>4, <2>2 DEF d, k
    <3>2. Route(core, address) # "debug"
      BY <2>2 DEF Route, d, k
    <3>. QED  BY <3>1, <3>2
  <2>. QED  BY <2>1, <2>2
<1>. QED  BY <1>7 DEF Reached, Seen, address

\* A section is in memory where the core looks for it.
Present(core, loader, elf, name, memory) ==
  \A i \in 0..(elf[name].size - 1) :
    LET place == Seen(core, Remapped(core, loader, elf[name].address) + i) IN
    place \in DOMAIN memory /\ memory[place] = <<name, i>>

\* What the loader has done when it has come past some sections.
LoadedInv(x, names, load) ==
  /\ load = [memory |-> load.memory, init |-> load.init, raised |-> load.raised]
  /\ load.raised \in BOOLEAN
  /\ ~load.raised =>
       /\ \A p \in DOMAIN load.memory : load.memory[p][1] # "jump"
       /\ \A n \in names \cap DOMAIN x.elf :
            /\ x.elf[n].address % 4 = 0
            /\ ~(x.fault.name = n /\ x.fault.what \in {"raises", "verify"})
            /\ n # x.fault.name => Present(x.core, x.loader, x.elf, n, load.memory)
       /\ load.init # -1 =>
            /\ ".init" \in names \cap DOMAIN x.elf
            /\ load.init = Remapped(x.core, x.loader, x.elf[".init"].address)

\* The memory after the write of a section that may be lost.
WrittenMemory(memory, written, lost, address, name) ==
  [p \in DOMAIN memory \cup (IF lost THEN {} ELSE written) |->
     IF p \in written /\ ~lost THEN <<name, p[2] - address>> ELSE memory[p]]

Keeps(core, loader, elf, name, lost, memory, next) ==
  /\ ~lost => Present(core, loader, elf, name, next)
  /\ \A n \in DOMAIN elf \ {name} :
       Present(core, loader, elf, n, memory) => Present(core, loader, elf, n, next)
  /\ \A p \in DOMAIN next : next[p][1] = name \/ (p \in DOMAIN memory /\ next[p] = memory[p])

LEMMA PlacesAre ==
  ASSUME NEW core, NEW loader, NEW elf, NEW name, NEW p
  PROVE  p \in Places(core, loader, elf, name) <=>
           \E i \in 0..(elf[name].size - 1) :
             p = Seen(core, Remapped(core, loader, elf[name].address) + i)
BY DEF Places

LEMMA WrittenIsPresent ==
  ASSUME NEW core, NEW loader, NEW elf, NEW name \in DOMAIN elf,
         WellPlaced(core, loader), Sound(core, loader, elf),
         elf[name].address \in Int, elf[name].size \in Nat,
         Permitted(core, Remapped(core, loader, elf[name].address), elf[name].size),
         NEW memory, NEW lost \in BOOLEAN
  PROVE  LET address == Remapped(core, loader, elf[name].address)
             written == {Reached(core, address, i) : i \in 0..(elf[name].size - 1)}
         IN Keeps(core, loader, elf, name, lost, memory,
                  WrittenMemory(memory, written, lost, address, name))
<1>. DEFINE address == Remapped(core, loader, elf[name].address)
            size == elf[name].size
            written == {Reached(core, address, i) : i \in 0..(size - 1)}
            next == WrittenMemory(memory, written, lost, address, name)
<1>1. written = Places(core, loader, elf, name)
  <2>1. \A i \in 0..(size - 1) : Reached(core, address, i) = Seen(core, address + i)
    BY ReachedIsSeen
  <2>2. ASSUME NEW p PROVE p \in Places(core, loader, elf, name) <=> p \in written
    <3>1. p \in Places(core, loader, elf, name) <=>
            \E i \in 0..(size - 1) : p = Seen(core, address + i)
      BY PlacesAre
    <3>2. p \in written <=> \E i \in 0..(size - 1) : p = Reached(core, address, i)
      OBVIOUS
    <3>. HIDE DEF address, size, written
    <3>. QED  BY <2>1, <3>1, <3>2
  <2>. HIDE DEF written
  <2>. QED  BY <2>2, Zenon
<1>2. address \in Int
  BY DEF Remapped, Moved, WellPlaced
<1>3. \A i \in 0..(size - 1) : Reached(core, address, i) = Seen(core, address + i)
  BY ReachedIsSeen
<1>4. size \in Nat
  OBVIOUS
<1>. HIDE DEF address, size
<1>5. /\ DOMAIN next = DOMAIN memory \cup (IF lost THEN {} ELSE written)
      /\ \A p \in DOMAIN next : next[p] = IF p \in written /\ ~lost THEN <<name, p[2] - address>>
                                          ELSE memory[p]
  BY DEF WrittenMemory
<1>6. ASSUME ~lost PROVE Present(core, loader, elf, name, next)
  <2>1. ASSUME NEW i \in 0..(size - 1)
        PROVE  Seen(core, address + i) \in DOMAIN next /\ next[Seen(core, address + i)] = <<name, i>>
    <3>. DEFINE p == Seen(core, address + i)
    <3>1. p \in written
      BY <1>3
    <3>2. p[2] = address + i
      BY DEF Seen
    <3>. HIDE DEF p, next, written
    <3>3. p \in DOMAIN next /\ next[p] = <<name, p[2] - address>>
      BY <1>5, <1>6, <3>1
    <3>4. p[2] - address = i
      BY <1>2, <1>4, <3>2
    <3>. QED  BY <3>3, <3>4 DEF p
  <2>. QED  BY <2>1 DEF Present, address, size
<1>7. ASSUME NEW n \in DOMAIN elf \ {name}, Present(core, loader, elf, n, memory)
      PROVE  Present(core, loader, elf, n, next)
  <2>. DEFINE from == Remapped(core, loader, elf[n].address)
  <2>1. ASSUME NEW i \in 0..(elf[n].size - 1)
        PROVE  Seen(core, from + i) \in DOMAIN next /\ next[Seen(core, from + i)] = <<n, i>>
    <3>. DEFINE p == Seen(core, from + i)
    <3>1. p \in DOMAIN memory /\ memory[p] = <<n, i>>
      BY <1>7 DEF Present
    <3>2. p \in Places(core, loader, elf, n)
      BY PlacesAre, Zenon
    <3>3. p \notin written
      BY <1>1, <3>2 DEF Sound
    <3>. HIDE DEF p, next, written
    <3>4. p \in DOMAIN next
      BY <1>5, <3>1
    <3>5. next[p] = memory[p]
      BY <1>5, <3>3, <3>4
    <3>. QED  BY <3>1, <3>4, <3>5 DEF p
  <2>. QED  BY <2>1 DEF Present
<1>8. ASSUME NEW p \in DOMAIN next
      PROVE  next[p][1] = name \/ (p \in DOMAIN memory /\ next[p] = memory[p])
  <2>. HIDE DEF next, written
  <2>1. CASE p \in written /\ ~lost
    <3>1. next[p] = <<name, p[2] - address>>
      BY <1>5, <2>1, Zenon
    <3>. QED  BY <3>1
  <2>2. CASE ~(p \in written /\ ~lost)
    BY <1>5, <2>2
  <2>. QED  BY <2>1, <2>2
<1>9. Keeps(core, loader, elf, name, lost, memory, next)
  <2>. HIDE DEF next
  <2>. QED  BY <1>6, <1>7, <1>8 DEF Keeps
<1>. QED  BY <1>9 DEF address, size

\* A section without a fault that keeps it from its place.
SectionInPlace(x, n, memory) ==
  /\ x.elf[n].address % 4 = 0
  /\ ~(x.fault.name = n /\ x.fault.what \in {"raises", "verify"})
  /\ n # x.fault.name => Present(x.core, x.loader, x.elf, n, memory)

\* What the loader does with a section, in two cases.
Outcome(x, load, name, next) ==
  LET address == Remapped(x.core, x.loader, x.elf[name].address)
      size == x.elf[name].size
      faulty(what) == x.fault.name = name /\ x.fault.what = what
      written == {Reached(x.core, address, i) : i \in 0..(size - 1)}
  IN \/ next = [memory |-> load.memory, init |-> load.init, raised |-> TRUE]
     \/ /\ x.elf[name].address % 4 = 0 /\ Permitted(x.core, address, size)
        /\ ~faulty("raises")
        /\ next = [memory |-> WrittenMemory(load.memory, written, faulty("lost"), address, name),
                   init |-> IF name = ".init" THEN address ELSE load.init,
                   raised |-> faulty("verify")]

LEMMA RaisedSet ==
  ASSUME NEW m, NEW n, NEW r \in BOOLEAN
  PROVE  [[memory |-> m, init |-> n, raised |-> r] EXCEPT !.raised = TRUE]
           = [memory |-> m, init |-> n, raised |-> TRUE]
<1>. DEFINE load == [memory |-> m, init |-> n, raised |-> r]
            next == [load EXCEPT !.raised = TRUE]
<1>1. load \in [memory : {m}, init : {n}, raised : BOOLEAN]
  OBVIOUS
<1>2. next \in [memory : {m}, init : {n}, raised : {TRUE}]
  <2>. HIDE DEF load
  <2>. QED  BY <1>1
<1>. HIDE DEF next
<1>3. next = [memory |-> m, init |-> n, raised |-> TRUE]
  BY <1>2
<1>. QED  BY <1>3 DEF next

LEMMA SectionLoaded ==
  ASSUME NEW x, NEW load, NEW name, ~load.raised, name \in DOMAIN x.elf,
         load.raised \in BOOLEAN, load = [memory |-> load.memory, init |-> load.init, raised |-> load.raised]
  PROVE  Outcome(x, load, name, LoadSection(x.core, x.loader, x.elf, x.fault, load, name))
<1>. DEFINE address == Remapped(x.core, x.loader, x.elf[name].address)
            size == x.elf[name].size
            faulty(what) == x.fault.name = name /\ x.fault.what = what
            written == {Reached(x.core, address, i) : i \in 0..(size - 1)}
            next == LoadSection(x.core, x.loader, x.elf, x.fault, load, name)
            refused == x.elf[name].address % 4 # 0 \/ ~Permitted(x.core, address, size)
                         \/ faulty("raises")
<1>1. CASE refused
  <2>1. next = [load EXCEPT !.raised = TRUE]
    BY <1>1, Zenon DEF LoadSection
  <2>2. [load EXCEPT !.raised = TRUE] = [memory |-> load.memory, init |-> load.init, raised |-> TRUE]
    <3>. DEFINE m == load.memory
                n == load.init
                r == load.raised
    <3>1. load = [memory |-> m, init |-> n, raised |-> r]
      OBVIOUS
    <3>. HIDE DEF m, n, r
    <3>2. [load EXCEPT !.raised = TRUE] = [memory |-> m, init |-> n, raised |-> TRUE]
      <4>1. [load EXCEPT !.raised = TRUE]
              = [[memory |-> m, init |-> n, raised |-> r] EXCEPT !.raised = TRUE]
        BY <3>1, Zenon
      <4>2. [[memory |-> m, init |-> n, raised |-> r] EXCEPT !.raised = TRUE]
              = [memory |-> m, init |-> n, raised |-> TRUE]
        <5>1. r \in BOOLEAN
          BY DEF r
        <5>. QED  BY <5>1, RaisedSet, Zenon
      <4>. QED  BY <4>1, <4>2, Zenon
    <3>. QED  BY <3>2 DEF m, n
  <2>. HIDE DEF next
  <2>3. next = [memory |-> load.memory, init |-> load.init, raised |-> TRUE]
    BY <2>1, <2>2, Zenon
  <2>. QED  BY <2>3, Zenon DEF Outcome, next
<1>2. CASE ~refused
  <2>1. next = [memory |-> WrittenMemory(load.memory, written, faulty("lost"), address, name),
                init |-> IF name = ".init" THEN address ELSE load.init,
                raised |-> faulty("verify")]
    BY <1>2, Zenon DEF LoadSection, WrittenMemory
  <2>. QED  BY <1>2, <2>1, Zenon DEF Outcome
<1>. QED  BY <1>1, <1>2, Zenon

LEMMA SectionStep ==
  ASSUME NEW x \in LoadJobs, NEW names, NEW load, LoadedInv(x, names, load),
         NEW name, name # "jump", name \notin names
  PROVE  LoadedInv(x, names \cup {name},
                   LoadSection(x.core, x.loader, x.elf, x.fault, load, name))
<1>. DEFINE address == Remapped(x.core, x.loader, x.elf[name].address)
            size == x.elf[name].size
            faulty(what) == x.fault.name = name /\ x.fault.what = what
            written == {Reached(x.core, address, i) : i \in 0..(size - 1)}
            memory == WrittenMemory(load.memory, written, faulty("lost"), address, name)
            next == LoadSection(x.core, x.loader, x.elf, x.fault, load, name)
<1>1. /\ load = [memory |-> load.memory, init |-> load.init, raised |-> load.raised]
      /\ load.raised \in BOOLEAN
  BY Zenon DEF LoadedInv
<1>2. ~load.raised =>
        /\ \A p \in DOMAIN load.memory : load.memory[p][1] # "jump"
        /\ \A n \in names \cap DOMAIN x.elf : SectionInPlace(x, n, load.memory)
        /\ load.init # -1 =>
             /\ ".init" \in names \cap DOMAIN x.elf
             /\ load.init = Remapped(x.core, x.loader, x.elf[".init"].address)
  BY Zenon DEF LoadedInv, SectionInPlace
<1>3. CASE load.raised \/ name \notin DOMAIN x.elf
  <2>1. next = load
    BY <1>3, Zenon DEF LoadSection
  <2>2. CASE load.raised
    BY <1>1, <2>1, <2>2, Zenon DEF LoadedInv
  <2>3. CASE ~load.raised
    <3>1. (names \cup {name}) \cap DOMAIN x.elf = names \cap DOMAIN x.elf
      BY <1>3, <2>3
    <3>2. LoadedInv(x, names \cup {name}, load)
      BY <1>1, <1>2, <2>3, <3>1, Zenon DEF LoadedInv, SectionInPlace
    <3>. QED  BY <2>1, <3>2, Zenon
  <2>. QED  BY <2>2, <2>3
<1>4. CASE ~load.raised /\ name \in DOMAIN x.elf
  <2>1. \/ next = [memory |-> load.memory, init |-> load.init, raised |-> TRUE]
        \/ /\ x.elf[name].address % 4 = 0 /\ Permitted(x.core, address, size)
           /\ ~faulty("raises")
           /\ next = [memory |-> memory,
                      init |-> IF name = ".init" THEN address ELSE load.init,
                      raised |-> faulty("verify")]
    <3>1. Outcome(x, load, name, next)
      <4>. HIDE DEF next
      <4>. QED  BY <1>1, <1>4, SectionLoaded, Zenon DEF next
    <3>. HIDE DEF next
    <3>. QED  BY <3>1, Zenon DEF Outcome
  <2>2. CASE next = [memory |-> load.memory, init |-> load.init, raised |-> TRUE]
    <3>. HIDE DEF next
    <3>1. next.raised = TRUE
          /\ next = [memory |-> next.memory, init |-> next.init, raised |-> next.raised]
      BY <2>2
    <3>2. LoadedInv(x, names \cup {name}, next)
      BY <3>1, Zenon DEF LoadedInv
    <3>. QED  BY <3>2 DEF next
  <2>3. CASE /\ x.elf[name].address % 4 = 0 /\ Permitted(x.core, address, size)
             /\ ~faulty("raises")
             /\ next = [memory |-> memory,
                        init |-> IF name = ".init" THEN address ELSE load.init,
                        raised |-> faulty("verify")]
    <3>1. Keeps(x.core, x.loader, x.elf, name, faulty("lost"), load.memory, memory)
      <4>1. /\ x.elf[name].address \in Int /\ size \in Nat
            /\ WellPlaced(x.core, x.loader) /\ Sound(x.core, x.loader, x.elf)
        BY <1>4, LoadJobsAssumption
      <4>2. faulty("lost") \in BOOLEAN
        OBVIOUS
      <4>. HIDE DEF faulty
      <4>. QED  BY <1>4, <2>3, <4>1, <4>2, WrittenIsPresent
    <3>2. /\ next.memory = memory /\ next.raised = faulty("verify")
          /\ next.init = IF name = ".init" THEN address ELSE load.init
          /\ next = [memory |-> next.memory, init |-> next.init, raised |-> next.raised]
          /\ next.raised \in BOOLEAN
      <4>. HIDE DEF next, memory, address
      <4>. QED  BY <2>3
    <3>. HIDE DEF next, memory
    <3>3. \A p \in DOMAIN memory : memory[p][1] # "jump"
      BY <1>2, <1>4, <3>1, Zenon DEF Keeps
    <3>4. ASSUME ~next.raised, NEW n \in (names \cup {name}) \cap DOMAIN x.elf
          PROVE  SectionInPlace(x, n, memory)
      <4>1. CASE n = name
        <5>1. n # x.fault.name => Present(x.core, x.loader, x.elf, n, memory)
          BY <3>1, <4>1, Zenon DEF Keeps
        <5>2. ~(x.fault.name = n /\ x.fault.what \in {"raises", "verify"})
          BY <2>3, <3>2, <3>4, <4>1
        <5>3. x.elf[n].address % 4 = 0
          BY <2>3, <4>1
        <5>. QED  BY <5>1, <5>2, <5>3, Zenon DEF SectionInPlace
      <4>2. CASE n # name
        <5>1. SectionInPlace(x, n, load.memory)
          BY <1>2, <1>4, <4>2
        <5>2. Present(x.core, x.loader, x.elf, n, load.memory)
                => Present(x.core, x.loader, x.elf, n, memory)
          BY <3>1, <4>2, Zenon DEF Keeps
        <5>. QED  BY <5>1, <5>2, Zenon DEF SectionInPlace
      <4>. QED  BY <4>1, <4>2
    <3>5. next.init # -1 =>
            /\ ".init" \in (names \cup {name}) \cap DOMAIN x.elf
            /\ next.init = Remapped(x.core, x.loader, x.elf[".init"].address)
      <4>1. CASE name = ".init"
        BY <1>4, <3>2, <4>1
      <4>2. CASE name # ".init"
        <5>1. next.init = load.init
          BY <3>2, <4>2
        <5>. QED  BY <1>2, <1>4, <5>1
      <4>. QED  BY <4>1, <4>2
    <3>6. LoadedInv(x, names \cup {name}, next)
      <4>. HIDE DEF faulty
      <4>. QED  BY <3>2, <3>3, <3>4, <3>5, Zenon DEF LoadedInv, SectionInPlace
    <3>. QED  BY <3>6 DEF next
  <2>. QED  BY <2>1, <2>2, <2>3
<1>. QED  BY <1>3, <1>4, <1>1

LEMMA SectionsLoaded ==
  ASSUME NEW x \in LoadJobs
  PROVE  LoadedInv(x, {".init", ".text", ".ldm_data"},
                   LoadSections(x.core, x.loader, x.elf, x.fault))
<1>. DEFINE load == LoadSections(x.core, x.loader, x.elf, x.fault)
<1>1. PICK l1, l2 :
        /\ l1 = LoadSection(x.core, x.loader, x.elf, x.fault, Unloaded, ".init")
        /\ l2 = LoadSection(x.core, x.loader, x.elf, x.fault, l1, ".text")
        /\ load = LoadSection(x.core, x.loader, x.elf, x.fault, l2, ".ldm_data")
  BY LoadsInTurn, Zenon
<1>. HIDE DEF load
<1>2. LoadedInv(x, {}, Unloaded)
  <2>1. /\ Unloaded = [memory |-> Unloaded.memory, init |-> Unloaded.init,
                       raised |-> Unloaded.raised]
        /\ Unloaded.raised = FALSE /\ Unloaded.init = -1 /\ Unloaded.memory = <<>>
    BY DEF Unloaded
  <2>2. DOMAIN <<>> = {}
    OBVIOUS
  <2>3. \A p \in DOMAIN Unloaded.memory : Unloaded.memory[p][1] # "jump"
    BY <2>1, <2>2
  <2>. QED  BY <2>1, <2>3 DEF LoadedInv
<1>3. LoadedInv(x, {} \cup {".init"}, l1)
  <2>1. ".init" # "jump" /\ ".init" \notin {}
    OBVIOUS
  <2>. QED  BY <1>1, <1>2, <2>1, SectionStep, Zenon
<1>4. LoadedInv(x, ({} \cup {".init"}) \cup {".text"}, l2)
  <2>1. ".text" # "jump" /\ ".text" \notin {} \cup {".init"}
    OBVIOUS
  <2>. QED  BY <1>1, <1>3, <2>1, SectionStep, Zenon
<1>5. LoadedInv(x, (({} \cup {".init"}) \cup {".text"}) \cup {".ldm_data"}, load)
  <2>1. ".ldm_data" # "jump" /\ ".ldm_data" \notin ({} \cup {".init"}) \cup {".text"}
    OBVIOUS
  <2>. QED  BY <1>1, <1>4, <2>1, SectionStep, Zenon
<1>6. (({} \cup {".init"}) \cup {".text"}) \cup {".ldm_data"} = {".init", ".text", ".ldm_data"}
  OBVIOUS
<1>. QED  BY <1>5, <1>6 DEF load

LEMMA WholeWord ==
  ASSUME NEW core, NEW loader, WellPlaced(core, loader), NEW address \in Int, address % 4 = 0
  PROVE  /\ Remapped(core, loader, address) \in Int /\ core.default \in Int
         /\ (Remapped(core, loader, address) - core.default) % 2 = 0
<1>. DEFINE d == core.data.start
            k == core.code.start
            ld == loader.data
            lc == loader.code
            default == core.default
            r == Remapped(core, loader, address)
<1>1. /\ d \in Int /\ k \in Int /\ ld \in Int /\ lc \in Int /\ default \in Int
      /\ d % 4 = 0 /\ k % 4 = 0 /\ default % 4 = 0
      /\ ld = Stay \/ ld % 4 = 0
      /\ lc = Stay \/ lc % 4 = 0
  BY DEF WellPlaced
<1>2. \/ r = address
      \/ ld # Stay /\ r = (address - d) + ld
      \/ lc # Stay /\ r = (address - k) + lc
  BY DEF Remapped, Moved
<1>. HIDE DEF d, k, ld, lc, default, r
<1>3. r \in Int /\ (r - default) % 2 = 0
  <2>1. CASE r = address
    BY <1>1, <2>1
  <2>2. CASE ld # Stay /\ r = (address - d) + ld
    BY <1>1, <2>2
  <2>3. CASE lc # Stay /\ r = (address - k) + lc
    BY <1>1, <2>3
  <2>. QED  BY <1>2, <2>1, <2>2, <2>3
<1>. QED  BY <1>1, <1>3 DEF r, default

\* What the answer of a load job says.
LoadAnswered(x, v) ==
  IF v.in_reset THEN v.raised /\ v.start = x.start
  ELSE /\ x.fault.what \notin {"raises", "verify"} \/ x.fault.name \notin DOMAIN x.elf
       /\ StartsAt(x.core, v) = Remapped(x.core, x.loader, x.elf[".init"].address)
       /\ \A name \in DOMAIN x.elf \ {x.fault.name} : Present(x.core, x.loader, x.elf, name, v.memory)

\* The start address is set, and what the core and its memory then are.
Setting(x, memory, start, init, v) ==
  /\ ".init" \in DOMAIN x.elf /\ x.elf[".init"].address % 4 = 0
  /\ init = Remapped(x.core, x.loader, x.elf[".init"].address)
  /\ Startable(x.core, init) /\ \A p \in DOMAIN memory : memory[p][1] # "jump"
  /\ v.memory = SetStart(x.core, memory, start, init).memory
  /\ v.start = SetStart(x.core, memory, start, init).start
WillStart(x, memory, init, v) ==
  /\ StartsAt(x.core, v) = init
  /\ \A name \in DOMAIN x.elf : Present(x.core, x.loader, x.elf, name, memory)
                                  => Present(x.core, x.loader, x.elf, name, v.memory)

\* Setting the start address of a core keeps the sections and takes the core
\* to the address.
LEMMA StartIsSet ==
  ASSUME NEW x \in LoadJobs, NEW memory, NEW start, NEW init, NEW v,
         Setting(x, memory, start, init, v)
  PROVE  WillStart(x, memory, init, v)
<1>. DEFINE word == <<"noc", x.core.default>>
            jump == <<"jump", Jump(init - x.core.default)>>
            set == SetStart(x.core, memory, start, init)
<1>0. /\ ".init" \in DOMAIN x.elf /\ x.elf[".init"].address % 4 = 0
      /\ init = Remapped(x.core, x.loader, x.elf[".init"].address)
      /\ Startable(x.core, init) /\ \A p \in DOMAIN memory : memory[p][1] # "jump"
      /\ v.memory = set.memory /\ v.start = set.start
  BY Zenon DEF Setting
<1>1. /\ x.elf[".init"].address \in Int
      /\ WellPlaced(x.core, x.loader) /\ Sound(x.core, x.loader, x.elf)
  BY <1>0, LoadJobsAssumption
<1>2. init \in Int /\ x.core.default \in Int /\ (init - x.core.default) % 2 = 0
  BY <1>0, <1>1, WholeWord
<1>3. CASE ~x.core.wired
  <2>1. set = [memory |-> memory, start |-> [register |-> init, enabled |-> TRUE]]
    BY <1>3, Zenon DEF SetStart
  <2>2. v.memory = memory /\ v.start.register = init /\ v.start.enabled = TRUE
    <3>. HIDE DEF set
    <3>. QED  BY <1>0, <2>1
  <2>3. StartsAt(x.core, v) = init
    BY <1>3, <2>2, Zenon DEF StartsAt
  <2>. QED  BY <2>2, <2>3, Zenon DEF WillStart
<1>4. CASE x.core.wired /\ init = x.core.default
  <2>1. set = [memory |-> memory, start |-> start]
    BY <1>4, Zenon DEF SetStart
  <2>2. v.memory = memory
    <3>. HIDE DEF set
    <3>. QED  BY <1>0, <2>1
  <2>3. ~(word \in DOMAIN v.memory /\ v.memory[word][1] = "jump")
    BY <1>0, <2>2
  <2>4. StartsAt(x.core, v) = init
    BY <1>4, <2>3, Zenon DEF StartsAt
  <2>. QED  BY <2>2, <2>4, Zenon DEF WillStart
<1>5. CASE x.core.wired /\ init # x.core.default
  <2>1. set = [memory |-> [p \in DOMAIN memory \cup {word} |-> IF p = word THEN jump ELSE memory[p]],
               start |-> start]
    BY <1>5, Zenon DEF SetStart
  <2>2. v.memory = [p \in DOMAIN memory \cup {word} |-> IF p = word THEN jump ELSE memory[p]]
    <3>. HIDE DEF set, word, jump
    <3>. QED  BY <1>0, <2>1
  <2>3. /\ DOMAIN v.memory = DOMAIN memory \cup {word} /\ v.memory[word] = jump
        /\ \A p \in DOMAIN memory : p # word => v.memory[p] = memory[p]
    <3>. HIDE DEF word, jump
    <3>. QED  BY <2>2
  <2>4. StartsAt(x.core, v) = init
    <3>1. word \in DOMAIN v.memory /\ v.memory[word] = jump
      BY <2>3
    <3>2. jump[1] = "jump" /\ jump[2] = Jump(init - x.core.default)
      OBVIOUS
    <3>3. StartsAt(x.core, v) = Target(Jump(init - x.core.default), x.core.default)
      BY <1>5, <3>1, <3>2, Zenon DEF StartsAt
    <3>4. Jumpable(init - x.core.default)
      BY <1>0, <1>5 DEF Startable
    <3>5. Target(Jump(init - x.core.default), x.core.default)
            = x.core.default + (init - x.core.default)
      <4>. DEFINE distance == init - x.core.default
      <4>1. distance \in Int /\ distance % 2 = 0 /\ Jumpable(distance)
        BY <1>2, <3>4
      <4>. HIDE DEF distance
      <4>2. Target(Jump(distance), x.core.default) = x.core.default + distance
        BY <1>2, <4>1, JumpGoes
      <4>. QED  BY <4>2 DEF distance
    <3>. QED  BY <1>2, <3>3, <3>5
  <2>5. ASSUME NEW name \in DOMAIN x.elf, Present(x.core, x.loader, x.elf, name, memory)
        PROVE  Present(x.core, x.loader, x.elf, name, v.memory)
    <3>. DEFINE from == Remapped(x.core, x.loader, x.elf[name].address)
    <3>1. ASSUME NEW i \in 0..(x.elf[name].size - 1)
          PROVE  Seen(x.core, from + i) \in DOMAIN v.memory
                 /\ v.memory[Seen(x.core, from + i)] = <<name, i>>
      <4>. DEFINE p == Seen(x.core, from + i)
      <4>1. p \in DOMAIN memory /\ memory[p] = <<name, i>>
        BY <2>5 DEF Present
      <4>2. p \in Places(x.core, x.loader, x.elf, name)
        BY PlacesAre, Zenon
      <4>3. word \notin Places(x.core, x.loader, x.elf, name)
        BY <1>0, <1>1, <1>5 DEF Sound
      <4>4. p # word
        BY <4>2, <4>3, Zenon
      <4>. HIDE DEF p, word
      <4>5. p \in DOMAIN v.memory /\ v.memory[p] = <<name, i>>
        BY <2>3, <4>1, <4>4
      <4>. QED  BY <4>5 DEF p
    <3>. QED  BY <3>1 DEF Present
  <2>. QED  BY <2>4, <2>5, Zenon DEF WillStart
<1>. QED  BY <1>3, <1>4, <1>5, Zenon

LEMMA LoadAnswer ==
  ASSUME NEW x \in LoadJobs
  PROVE  LoadAnswered(x, RunElf(x.core, x.loader, x.elf, x.fault, x.start))
<1>. DEFINE load == LoadSections(x.core, x.loader, x.elf, x.fault)
            set == SetStart(x.core, load.memory, x.start, load.init)
            v == RunElf(x.core, x.loader, x.elf, x.fault, x.start)
            refused == load.raised \/ load.init = -1 \/ ~Startable(x.core, load.init)
<1>1. LoadedInv(x, {".init", ".text", ".ldm_data"}, load)
  BY SectionsLoaded
<1>2. CASE refused
  <2>1. v = [memory |-> load.memory, start |-> x.start, in_reset |-> TRUE, raised |-> TRUE,
             init |-> load.init]
    BY <1>2, Zenon DEF RunElf
  <2>. HIDE DEF load, v
  <2>2. v.in_reset = TRUE /\ v.raised = TRUE /\ v.start = x.start
    BY <2>1
  <2>3. LoadAnswered(x, v)
    BY <2>2, Zenon DEF LoadAnswered
  <2>. QED  BY <2>3 DEF v
<1>3. CASE ~refused
  <2>1. v = [memory |-> set.memory, start |-> set.start, in_reset |-> FALSE, raised |-> FALSE,
             init |-> load.init]
    BY <1>3, Zenon DEF RunElf
  <2>2. v.memory = set.memory /\ v.start = set.start /\ v.in_reset = FALSE
    <3>. HIDE DEF set, load, v
    <3>. QED  BY <2>1
  <2>3. /\ \A p \in DOMAIN load.memory : load.memory[p][1] # "jump"
        /\ \A n \in {".init", ".text", ".ldm_data"} \cap DOMAIN x.elf :
             SectionInPlace(x, n, load.memory)
        /\ ".init" \in {".init", ".text", ".ldm_data"} \cap DOMAIN x.elf
        /\ load.init = Remapped(x.core, x.loader, x.elf[".init"].address)
    <3>. HIDE DEF load
    <3>. QED  BY <1>1, <1>3, Zenon DEF LoadedInv, SectionInPlace
  <2>4. {".init", ".text", ".ldm_data"} \cap DOMAIN x.elf = DOMAIN x.elf
    BY LoadJobsAssumption
  <2>5. \A n \in DOMAIN x.elf : SectionInPlace(x, n, load.memory)
    BY <2>3, <2>4, Zenon
  <2>6. ".init" \in DOMAIN x.elf /\ x.elf[".init"].address % 4 = 0
    BY <2>3, <2>4, <2>5, Zenon DEF SectionInPlace
  <2>7. Startable(x.core, load.init)
    BY <1>3, Zenon
  <2>8. /\ StartsAt(x.core, v) = load.init
        /\ \A n \in DOMAIN x.elf : Present(x.core, x.loader, x.elf, n, load.memory)
                                     => Present(x.core, x.loader, x.elf, n, v.memory)
    <3>1. v.memory = SetStart(x.core, load.memory, x.start, load.init).memory
          /\ v.start = SetStart(x.core, load.memory, x.start, load.init).start
      BY <2>2
    <3>2. Setting(x, load.memory, x.start, load.init, v)
      BY <2>3, <2>6, <2>7, <3>1, Zenon DEF Setting
    <3>. HIDE DEF load, v
    <3>3. WillStart(x, load.memory, load.init, v)
      BY <3>2, StartIsSet
    <3>. QED  BY <3>3, Zenon DEF WillStart
  <2>9. x.fault.what \notin {"raises", "verify"} \/ x.fault.name \notin DOMAIN x.elf
    <3>1. CASE x.fault.name \in DOMAIN x.elf
      <4>1. SectionInPlace(x, x.fault.name, load.memory)
        BY <2>5, <3>1
      <4>. QED  BY <4>1, Zenon DEF SectionInPlace
    <3>. QED  BY <3>1
  <2>10. ASSUME NEW n \in DOMAIN x.elf \ {x.fault.name}
         PROVE  Present(x.core, x.loader, x.elf, n, v.memory)
    <3>1. Present(x.core, x.loader, x.elf, n, load.memory)
      BY <2>5, Zenon DEF SectionInPlace
    <3>. QED  BY <2>8, <3>1, Zenon
  <2>11. LoadAnswered(x, v)
    <3>. HIDE DEF load, v
    <3>. QED  BY <2>2, <2>3, <2>8, <2>9, <2>10, Zenon DEF LoadAnswered
  <2>. QED  BY <2>11 DEF v
<1>. QED  BY <1>2, <1>3, Zenon

\* A core leaves reset only when every access of the loader went well, starts
\* at .init, by the start address register or by the jump at its default
\* address, and then finds each section in its place (elf_loader.py, run_elf,
\* load_elf_sections; baby_risc_info.py, get_jump_to_offset_instruction).
THEOREM LoadedThenStarted == HostSpec => []StartsWhatIsLoaded
<1>0. /\ StartsWhatIsLoaded <=> (Answered("load") => LoadAnswered(job.call, answer.value))
      /\ StartsWhatIsLoaded' <=> (answer'.done /\ job'.kind = "load"
                                   => LoadAnswered(job'.call, answer'.value))
  BY DEF StartsWhatIsLoaded, LoadAnswered, Present, Answered, a, c
<1>1. HostInit => StartsWhatIsLoaded
  BY DEF HostInit, StartsWhatIsLoaded, Answered
<1>2. JobInv /\ StartsWhatIsLoaded /\ [HostNext]_hostVars => StartsWhatIsLoaded'
  <2>. SUFFICES ASSUME JobInv, StartsWhatIsLoaded, [HostNext]_hostVars PROVE StartsWhatIsLoaded'
    OBVIOUS
  <2>1. CASE answer' = answer
    BY <1>0, <2>1, JobStep DEF Answered
  <2>2. CASE Load /\ JobOf("load")
    <3>. DEFINE x == job.call
    <3>1. x \in LoadJobs /\ job' = job
      BY <2>2, JobStep DEF JobOf, JobsOf
    <3>2. answer'.value = RunElf(x.core, x.loader, x.elf, x.fault, x.start)
      <4>1. answer' = [done |-> TRUE, value |-> RunElf(x.core, x.loader, x.elf, x.fault, x.start)]
        BY <2>2, Zenon DEF Load, Answer, c
      <4>. QED  BY <4>1
    <3>3. LoadAnswered(x, RunElf(x.core, x.loader, x.elf, x.fault, x.start))
      BY <3>1, LoadAnswer
    <3>. QED  BY <1>0, <3>1, <3>2, <3>3, Zenon
  <2>3. ASSUME job.kind # "load" PROVE StartsWhatIsLoaded'
    BY <1>0, <2>3, JobStep
  <2>. QED  BY <2>1, <2>2, <2>3, JobStep DEF JobOf
<1>. QED  BY JobInit, JobStep, <1>1, <1>2, PTL DEF HostSpec

---------------------------------------------------------------------------
(* The first elements of a set of integers, in order and as many as fit.   *)

First(S, limit, r) ==
  /\ r \in Seq(Int) /\ Len(r) <= limit
  /\ \A i \in 1..Len(r) : r[i] \in S
  /\ \A i, j \in 1..Len(r) : i < j => r[i] < r[j]
  /\ \A x \in S : \/ \E i \in 1..Len(r) : r[i] = x
                  \/ Len(r) = limit /\ \A i \in 1..Len(r) : r[i] < x

LEMMA FirstOfNone ==
  ASSUME NEW limit \in Nat
  PROVE  /\ First({}, limit, <<>>)
         /\ \A S : First(S, 0, <<>>)
<1>1. <<>> \in Seq(Int) /\ Len(<<>>) = 0 /\ \A i : i \notin 1..0
  OBVIOUS
<1>. QED  BY <1>1 DEF First

LEMMA FirstOfBoth ==
  ASSUME NEW S \in SUBSET Int, NEW T \in SUBSET Int, NEW limit \in Int,
         NEW r, First(S, limit, r), NEW t, First(T, limit - Len(r), t),
         \A x \in S : \A y \in T : x < y
  PROVE  First(S \cup T, limit, r \o t)
<1>. DEFINE n == Len(r)
            p == Len(t)
            q == r \o t
<1>1. /\ r \in Seq(Int) /\ n <= limit
      /\ \A i \in 1..n : r[i] \in S
      /\ \A i, j \in 1..n : i < j => r[i] < r[j]
      /\ \A x \in S : \/ \E i \in 1..n : r[i] = x
                      \/ n = limit /\ \A i \in 1..n : r[i] < x
  BY DEF First
<1>2. /\ t \in Seq(Int) /\ p <= limit - n
      /\ \A i \in 1..p : t[i] \in T
      /\ \A i, j \in 1..p : i < j => t[i] < t[j]
      /\ \A x \in T : \/ \E i \in 1..p : t[i] = x
                      \/ p = limit - n /\ \A i \in 1..p : t[i] < x
  BY DEF First
<1>3. n \in Nat /\ p \in Nat
  BY <1>1, <1>2, LenProperties
<1>4. /\ q \in Seq(Int) /\ Len(q) = n + p
      /\ \A i \in 1..(n + p) : q[i] = IF i <= n THEN r[i] ELSE t[i - n]
  BY <1>1, <1>2, ConcatProperties
<1>5. /\ \A i \in 1..n : q[i] = r[i]
      /\ \A i \in 1..p : q[n + i] = t[i] /\ n + i \in 1..(n + p)
  <2>. HIDE DEF n, p, q
  <2>1. \A i \in 1..n : i \in 1..(n + p) /\ i <= n
    BY <1>3
  <2>2. \A i \in 1..p : n + i \in 1..(n + p) /\ ~(n + i <= n) /\ (n + i) - n = i
    BY <1>3
  <2>. QED  BY <1>4, <2>1, <2>2
<1>. HIDE DEF n, p, q
<1>6. \A i \in 1..(n + p) : i \in 1..n \/ (i - n \in 1..p /\ i = n + (i - n))
  BY <1>3
<1>7. n + p <= limit
  BY <1>1, <1>2, <1>3
<1>8. ASSUME NEW i \in 1..(n + p) PROVE q[i] \in S \cup T
  <2>1. CASE i \in 1..n
    BY <1>1, <1>5, <2>1
  <2>2. CASE i - n \in 1..p /\ i = n + (i - n)
    BY <1>2, <1>5, <2>2
  <2>. QED  BY <1>6, <2>1, <2>2
<1>9. ASSUME NEW i \in 1..(n + p), NEW j \in 1..(n + p), i < j PROVE q[i] < q[j]
  <2>1. CASE i \in 1..n /\ j \in 1..n
    BY <1>1, <1>5, <1>9, <2>1
  <2>2. CASE i \in 1..n /\ j - n \in 1..p /\ j = n + (j - n)
    <3>1. q[i] = r[i] /\ q[j] = t[j - n]
      BY <1>5, <2>2
    <3>2. r[i] \in S /\ t[j - n] \in T
      BY <1>1, <1>2, <2>2
    <3>. QED  BY <3>1, <3>2
  <2>3. CASE i - n \in 1..p /\ i = n + (i - n) /\ j - n \in 1..p /\ j = n + (j - n)
    <3>1. q[i] = t[i - n] /\ q[j] = t[j - n]
      BY <1>5, <2>3
    <3>2. i - n < j - n
      BY <1>3, <1>9
    <3>. QED  BY <1>2, <2>3, <3>1, <3>2
  <2>4. CASE i - n \in 1..p /\ j \in 1..n
    BY <1>3, <1>9, <2>4
  <2>. QED  BY <1>6, <2>1, <2>2, <2>3, <2>4
<1>10. ASSUME NEW x \in S
       PROVE  \/ \E i \in 1..(n + p) : q[i] = x
              \/ n + p = limit /\ \A i \in 1..(n + p) : q[i] < x
  <2>1. CASE \E i \in 1..n : r[i] = x
    <3>1. PICK i \in 1..n : r[i] = x
      BY <2>1
    <3>2. i \in 1..(n + p) /\ q[i] = x
      BY <1>3, <1>5, <3>1
    <3>. QED  BY <3>2
  <2>2. CASE n = limit /\ \A i \in 1..n : r[i] < x
    <3>1. p = 0
      BY <1>2, <1>3, <2>2
    <3>2. n + p = n
      BY <1>3, <3>1
    <3>. QED  BY <1>5, <2>2, <3>2
  <2>. QED  BY <1>1, <2>1, <2>2
<1>11. ASSUME NEW x \in T
       PROVE  \/ \E i \in 1..(n + p) : q[i] = x
              \/ n + p = limit /\ \A i \in 1..(n + p) : q[i] < x
  <2>1. CASE \E i \in 1..p : t[i] = x
    <3>1. PICK i \in 1..p : t[i] = x
      BY <2>1
    <3>2. n + i \in 1..(n + p) /\ q[n + i] = x
      BY <1>5, <3>1
    <3>. QED  BY <3>2
  <2>2. CASE p = limit - n /\ \A i \in 1..p : t[i] < x
    <3>1. n + p = limit
      BY <1>3, <2>2
    <3>2. ASSUME NEW i \in 1..(n + p) PROVE q[i] < x
      <4>1. CASE i \in 1..n
        BY <1>1, <1>5, <4>1
      <4>2. CASE i - n \in 1..p /\ i = n + (i - n)
        BY <1>5, <2>2, <4>2
      <4>. QED  BY <1>6, <4>1, <4>2
    <3>. QED  BY <3>1, <3>2
  <2>. QED  BY <1>2, <2>1, <2>2
<1>. QED  BY <1>4, <1>7, <1>8, <1>9, <1>10, <1>11 DEF First, q

LEMMA FirstOfOne ==
  ASSUME NEW x \in Int, NEW limit \in Int, limit >= 1
  PROVE  First({x}, limit, <<x>>)
<1>1. <<x>> \in Seq(Int) /\ Len(<<x>>) = 1 /\ <<x>>[1] = x
  OBVIOUS
<1>2. \A i \in 1..1 : i = 1
  OBVIOUS
<1>3. 1 \in 1..1
  OBVIOUS
<1>. QED  BY <1>1, <1>2, <1>3 DEF First

\* The numbers of the elements are those that FirstOccurrences asks for.
LEMMA FirstIsFirst ==
  ASSUME NEW S \in SUBSET Int, IsFiniteSet(S), NEW limit \in Nat, NEW r, First(S, limit, r)
  PROVE  FirstOccurrences(S, limit, r)
<1>. DEFINE n == Len(r)
            R == {r[i] : i \in 1..n}
<1>1. /\ r \in Seq(Int) /\ n <= limit
      /\ \A i \in 1..n : r[i] \in S
      /\ \A i, j \in 1..n : i < j => r[i] < r[j]
      /\ \A x \in S : \/ \E i \in 1..n : r[i] = x
                      \/ n = limit /\ \A i \in 1..n : r[i] < x
  BY DEF First
<1>2. n \in Nat /\ DOMAIN r = 1..n
  BY <1>1, LenProperties
<1>3. R \subseteq S
  BY <1>1
<1>. HIDE DEF n
<1>4. Cardinality(R) = n
  <2>. DEFINE f == [i \in 1..n |-> r[i]]
  <2>1. f \in Bijection(1..n, R)
    <3>1. f \in Surjection(1..n, R)
      BY DEF Surjection
    <3>2. f \in Injection(1..n, R)
      <4>1. ASSUME NEW i \in 1..n, NEW j \in 1..n, f[i] = f[j] PROVE i = j
        <5>1. r[i] = r[j] /\ r[i] \in Int /\ r[j] \in Int
          BY <1>1, <4>1
        <5>2. ~(i < j) /\ ~(j < i)
          BY <1>1, <5>1
        <5>. QED  BY <1>2, <5>2
      <4>. QED  BY <4>1 DEF Injection, IsInjective
    <3>. QED  BY <3>1, <3>2 DEF Bijection
  <2>2. IsFiniteSet(1..n) /\ Cardinality(1..n) = n
    BY <1>2, FS_Interval
  <2>3. Cardinality(1..n) = Cardinality(R)
    <3>. HIDE DEF f, R
    <3>1. ExistsBijection(1..n, R)
      BY <2>1 DEF ExistsBijection
    <3>. QED  BY <2>2, <3>1, FS_Bijection
  <2>. QED  BY <2>2, <2>3
<1>5. Cardinality(S) \in Nat /\ n <= Cardinality(S)
  BY <1>3, <1>4, FS_Subset, FS_CardinalityType
<1>6. ASSUME n < limit PROVE S = R
  <2>1. n # limit
    BY <1>2, <1>6
  <2>2. \A x \in S : x \in R
    BY <1>1, <2>1
  <2>. HIDE DEF R
  <2>. QED  BY <1>3, <2>2
<1>7. n = IF Cardinality(S) < limit THEN Cardinality(S) ELSE limit
  <2>. HIDE DEF R
  <2>. QED  BY <1>1, <1>2, <1>4, <1>5, <1>6
<1>8. ToSet(r) = R
  BY <1>2 DEF ToSet
<1>9. ASSUME n > 0, NEW x \in S, x <= r[n] PROVE x \in R
  <2>1. n \in 1..n
    BY <1>2, <1>9
  <2>2. r[n] \in Int
    BY <1>1, <2>1
  <2>3. ~(\A i \in 1..n : r[i] < x)
    BY <1>9, <2>1, <2>2
  <2>. QED  BY <1>1, <2>3
<1>. HIDE DEF R
<1>. QED  BY <1>1, <1>2, <1>3, <1>7, <1>8, <1>9 DEF FirstOccurrences, n

---------------------------------------------------------------------------
(* The matches in the bytes of one read.                                   *)

FindStep(data, pattern, limit, f, at) ==
  IF at[1] + Len(pattern) - 1 > Len(data) \/ at[2] = limit THEN <<>>
  ELSE IF MatchesAt(data, pattern, at[1]) THEN <<at[1] - 1>> \o f[<<at[1] + 1, at[2] + 1>>]
  ELSE f[<<at[1] + 1, at[2]>>]
IsFind(data, pattern, limit, f) ==
  f = [at \in (1..(Len(data) + 1)) \X Nat |-> FindStep(data, pattern, limit, f, at)]

LEMMA FindIs ==
  ASSUME NEW data, NEW pattern, NEW limit
  PROVE  FindInData(data, pattern, limit) =
           (CHOOSE f : IsFind(data, pattern, limit, f))[<<1, 0>>]
BY Zenon DEF FindInData, IsFind, FindStep

LEMMA FindExists ==
  ASSUME NEW data \in Seq(Nat), NEW pattern \in Seq(Nat) \ {<<>>}, NEW limit \in Int
  PROVE  \E f : /\ f \in [(1..(Len(data) + 1)) \X Nat -> Seq(Int)]
                /\ IsFind(data, pattern, limit, f)
<1>. DEFINE n == Len(data)
            m == Len(pattern)
            D == (1..(n + 1)) \X Nat
            M == Seq(Int)
            measure == [at \in D |-> n + 1 - at[1]]
            step == [at \in D |-> [f \in [D -> M] |-> FindStep(data, pattern, limit, f, at)]]
<1>1. n \in Nat /\ m \in Nat \ {0}
  BY LenProperties, EmptySeq
<1>2. ASSUME NEW at \in D
      PROVE  /\ n + 1 - at[1] \in Nat /\ at[1] \in Int /\ at[2] \in Nat
             /\ ~(at[1] + m - 1 > n) =>
                  \A k \in Nat : /\ <<at[1] + 1, k>> \in D
                                 /\ n + 1 - <<at[1] + 1, k>>[1] < n + 1 - at[1]
  <2>1. at[1] \in 1..(n + 1) /\ at[2] \in Nat
    OBVIOUS
  <2>2. ASSUME ~(at[1] + m - 1 > n), NEW k \in Nat
        PROVE  <<at[1] + 1, k>> \in D /\ n + 1 - (at[1] + 1) < n + 1 - at[1]
    <3>1. at[1] + 1 \in 1..(n + 1)
      BY SMTT(30), <1>1, <2>1, <2>2
    <3>. QED  BY SMTT(30), <1>1, <2>1, <3>1
  <2>. QED  BY <1>1, <2>1, <2>2
<1>. HIDE DEF n, m
<1>3. measure \in [D -> Nat]
  BY <1>2
<1>4. ASSUME NEW at \in D, ~(at[1] + m - 1 > n), NEW k \in Nat
      PROVE  <<at[1] + 1, k>> \in D /\ measure[<<at[1] + 1, k>>] < measure[at]
  BY <1>2, <1>4
<1>. HIDE DEF D, M, measure
<1>5. ASSUME NEW at \in D, NEW f \in [D -> M] PROVE FindStep(data, pattern, limit, f, at) \in M
  <2>1. CASE at[1] + m - 1 > n \/ at[2] = limit
    <3>1. FindStep(data, pattern, limit, f, at) = <<>>
      BY <2>1 DEF FindStep, n, m
    <3>. QED  BY <3>1 DEF M
  <2>2. CASE ~(at[1] + m - 1 > n \/ at[2] = limit)
    <3>1. at[2] \in Nat /\ at[2] + 1 \in Nat /\ at[1] - 1 \in Int
      BY <1>2
    <3>2. f[<<at[1] + 1, at[2] + 1>>] \in M /\ f[<<at[1] + 1, at[2]>>] \in M
      BY <1>4, <2>2, <3>1
    <3>3. <<at[1] - 1>> \o f[<<at[1] + 1, at[2] + 1>>] \in M
      BY <3>1, <3>2, ConcatProperties DEF M
    <3>. QED  BY <2>2, <3>2, <3>3 DEF FindStep, n, m
  <2>. QED  BY <2>1, <2>2
<1>6. step \in [D -> [[D -> M] -> M]]
  BY <1>5
<1>7. \A at \in D : \A f \in [D -> M] : step[at][f] = FindStep(data, pattern, limit, f, at)
  OBVIOUS
<1>. HIDE DEF step
<1>8. ASSUME NEW at \in D, NEW f \in [D -> M], NEW g \in [D -> M],
             \A y \in D : measure[y] < measure[at] => f[y] = g[y]
      PROVE  step[at][f] = step[at][g]
  <2>1. FindStep(data, pattern, limit, f, at) = FindStep(data, pattern, limit, g, at)
    <3>1. CASE at[1] + m - 1 > n \/ at[2] = limit
      BY <3>1 DEF FindStep, n, m
    <3>2. CASE ~(at[1] + m - 1 > n \/ at[2] = limit)
      <4>1. at[2] \in Nat /\ at[2] + 1 \in Nat
        BY <1>2
      <4>2. /\ f[<<at[1] + 1, at[2] + 1>>] = g[<<at[1] + 1, at[2] + 1>>]
            /\ f[<<at[1] + 1, at[2]>>] = g[<<at[1] + 1, at[2]>>]
        BY <1>4, <1>8, <3>2, <4>1
      <4>. QED  BY <4>2 DEF FindStep
    <3>. QED  BY <3>1, <3>2
  <2>. QED  BY <1>7, <2>1
<1>9. Determined(D, M, measure, step)
  <2>1. <<>> \in M
    BY DEF M
  <2>. QED  BY <1>3, <1>6, <1>8, <2>1 DEF Determined
<1>10. PICK f \in [D -> M] : \A at \in D : f[at] = step[at][f]
  BY <1>9, RecursionDefines
<1>11. IsFind(data, pattern, limit, f)
  <2>1. \A at \in D : f[at] = FindStep(data, pattern, limit, f, at)
    BY <1>7, <1>10
  <2>2. f = [at \in D |-> f[at]]
    OBVIOUS
  <2>3. f = [at \in D |-> FindStep(data, pattern, limit, f, at)]
    BY <2>1, <2>2
  <2>. QED  BY <2>3 DEF IsFind, D, n
<1>. QED  BY <1>11 DEF M, D, n

\* Where the pattern is found in data, from the place k on.
Hits(data, pattern, k) ==
  {j \in (k - 1)..(Len(data) - Len(pattern)) : MatchesAt(data, pattern, j + 1)}

LEMMA FindFirst ==
  ASSUME NEW data \in Seq(Nat), NEW pattern \in Seq(Nat) \ {<<>>}, NEW limit \in Int
  PROVE  /\ FindInData(data, pattern, limit) \in Seq(Int)
         /\ limit >= 0 => First(Hits(data, pattern, 1), limit, FindInData(data, pattern, limit))
<1>. DEFINE n == Len(data)
            m == Len(pattern)
            D == (1..(n + 1)) \X Nat
            f == CHOOSE f : IsFind(data, pattern, limit, f)
            measure == [at \in D |-> n + 1 - at[1]]
            T == {at \in D : /\ f[at] \in Seq(Int)
                             /\ at[2] <= limit =>
                                  First(Hits(data, pattern, at[1]), limit - at[2], f[at])}
<1>1. n \in Nat /\ m \in Nat \ {0}
  BY LenProperties, EmptySeq
<1>2. IsFind(data, pattern, limit, f)
  <2>1. \E g : IsFind(data, pattern, limit, g)
    BY FindExists
  <2>. QED  BY <2>1, Zenon
<1>3. FindInData(data, pattern, limit) = f[<<1, 0>>]
  BY FindIs
<1>. HIDE DEF f
<1>4. \A at \in D : f[at] = FindStep(data, pattern, limit, f, at)
  <2>1. f = [at \in D |-> FindStep(data, pattern, limit, f, at)]
    BY <1>2 DEF IsFind
  <2>. QED  BY <2>1
<1>5. ASSUME NEW at \in D PROVE at[1] \in 1..(n + 1) /\ at[2] \in Nat
  OBVIOUS
<1>6. measure \in [D -> Nat]
  <2>. HIDE DEF n
  <2>1. \A at \in D : n + 1 - at[1] \in Nat
    BY <1>1
  <2>. QED  BY <2>1
<1>7. ASSUME NEW at \in D, ~(at[1] + m - 1 > n), NEW k \in Nat
      PROVE  <<at[1] + 1, k>> \in D /\ measure[<<at[1] + 1, k>>] < measure[at]
  <2>. HIDE DEF n, m
  <2>1. at[1] + 1 \in 1..(n + 1)
    BY <1>1, <1>5, <1>7
  <2>2. <<at[1] + 1, k>> \in D /\ <<at[1] + 1, k>>[1] = at[1] + 1
    BY <2>1
  <2>3. measure[<<at[1] + 1, k>>] = n + 1 - (at[1] + 1) /\ measure[at] = n + 1 - at[1]
    BY <2>2
  <2>. QED  BY <1>1, <1>5, <2>2, <2>3
<1>. HIDE DEF measure
<1>8. ASSUME NEW at \in D, \A y \in D : measure[y] < measure[at] => y \in T PROVE at \in T
  <2>. DEFINE k == at[1]
              found == at[2]
              H(i) == Hits(data, pattern, i)
  <2>1. k \in 1..(n + 1) /\ k \in Int /\ found \in Nat /\ found + 1 \in Nat
    BY <1>5
  <2>2. CASE k + m - 1 > n
    <3>1. f[at] = <<>>
      BY <1>4, <2>2 DEF FindStep
    <3>2. H(k) = {}
      <4>1. \A j \in Int : ~(k - 1 <= j /\ j <= n - m)
        BY <1>1, <2>1, <2>2
      <4>. QED  BY <4>1 DEF Hits
    <3>3. <<>> \in Seq(Int)
      OBVIOUS
    <3>4. found <= limit => First({}, limit - found, <<>>)
      <4>1. ASSUME found <= limit PROVE limit - found \in Nat
        BY <2>1, <4>1
      <4>. QED  BY <4>1, FirstOfNone
    <3>. QED  BY <3>1, <3>2, <3>3, <3>4
  <2>3. CASE found = limit
    <3>1. f[at] = <<>>
      BY <1>4, <2>3 DEF FindStep
    <3>2. limit - found = 0
      BY <2>1, <2>3
    <3>3. First(H(k), 0, <<>>)
      <4>1. 0 \in Nat
        OBVIOUS
      <4>. QED  BY <4>1, FirstOfNone
    <3>4. <<>> \in Seq(Int)
      OBVIOUS
    <3>. QED  BY <3>1, <3>2, <3>3, <3>4
  <2>4. CASE ~(k + m - 1 > n) /\ found # limit /\ MatchesAt(data, pattern, k)
    <3>1. f[at] = <<k - 1>> \o f[<<k + 1, found + 1>>]
      BY <1>4, <2>4 DEF FindStep
    <3>2. <<k + 1, found + 1>> \in T
      BY <1>7, <1>8, <2>1, <2>4
    <3>. DEFINE r == f[<<k + 1, found + 1>>]
    <3>3. /\ r \in Seq(Int)
          /\ found + 1 <= limit => First(H(k + 1), limit - (found + 1), r)
      BY <3>2
    <3>4. f[at] \in Seq(Int)
      <4>1. k - 1 \in Int
        BY <2>1
      <4>. QED  BY <3>1, <3>3, <4>1, ConcatProperties
    <3>5. ASSUME found <= limit PROVE First(H(k), limit - found, f[at])
      <4>1. found + 1 <= limit /\ limit - found >= 1 /\ limit - found \in Int /\ k - 1 \in Int
            /\ (limit - found) - 1 = limit - (found + 1)
        <5>1. found \in Int /\ found # limit /\ found <= limit /\ k \in Int
          BY <2>1, <2>4, <3>5
        <5>. HIDE DEF found, k
        <5>. QED  BY <5>1
      <4>2. First({k - 1}, limit - found, <<k - 1>>)
        BY <4>1, FirstOfOne
      <4>3. H(k + 1) \in SUBSET Int /\ {k - 1} \in SUBSET Int
        BY <4>1 DEF Hits
      <4>4. \A x \in {k - 1} : \A y \in H(k + 1) : x < y
        BY <2>1 DEF Hits
      <4>5. H(k) = {k - 1} \cup H(k + 1)
        <5>. HIDE DEF n, m
        <5>1. \A j : j \in (k - 1)..(n - m) <=> j = k - 1 \/ j \in k..(n - m)
          BY SMTT(30), <1>1, <2>1, <2>4
        <5>2. (k - 1) + 1 = k /\ (k + 1) - 1 = k
          BY <2>1
        <5>3. H(k) = {j \in (k - 1)..(n - m) : MatchesAt(data, pattern, j + 1)}
          BY DEF Hits, n, m
        <5>4. H(k + 1) = {j \in k..(n - m) : MatchesAt(data, pattern, j + 1)}
          BY <5>2 DEF Hits, n, m
        <5>5. \A j : j \in H(k) <=> j \in {k - 1} \cup H(k + 1)
          <6>. HIDE DEF H, k
          <6>. QED  BY <2>4, <5>1, <5>2, <5>3, <5>4
        <5>. HIDE DEF H
        <5>. QED  BY <5>5
      <4>. DEFINE l == limit - found
      <4>6. Len(<<k - 1>>) = 1
        OBVIOUS
      <4>7. First(H(k + 1), l - Len(<<k - 1>>), r)
        BY <3>3, <4>1, <4>6
      <4>8. l \in Int
        BY <4>1
      <4>. HIDE DEF H, r, l
      <4>9. First({k - 1} \cup H(k + 1), l, <<k - 1>> \o r)
        BY <4>2, <4>3, <4>4, <4>7, <4>8, FirstOfBoth DEF l
      <4>. QED  BY <3>1, <4>5, <4>9 DEF r, l
    <3>. HIDE DEF H
    <3>. QED  BY <3>4, <3>5 DEF H
  <2>5. CASE ~(k + m - 1 > n) /\ found # limit /\ ~MatchesAt(data, pattern, k)
    <3>1. f[at] = f[<<k + 1, found>>]
      BY <1>4, <2>5 DEF FindStep
    <3>2. <<k + 1, found>> \in T
      BY <1>7, <1>8, <2>1, <2>5
    <3>3. H(k) = H(k + 1)
      <4>. HIDE DEF n, m
      <4>1. \A j : j \in (k - 1)..(n - m) <=> j = k - 1 \/ j \in k..(n - m)
        BY SMTT(30), <1>1, <2>1, <2>5
      <4>2. (k - 1) + 1 = k /\ (k + 1) - 1 = k
        BY <2>1
      <4>3. H(k) = {j \in (k - 1)..(n - m) : MatchesAt(data, pattern, j + 1)}
        BY DEF Hits, n, m
      <4>4. H(k + 1) = {j \in k..(n - m) : MatchesAt(data, pattern, j + 1)}
        BY <4>2 DEF Hits, n, m
      <4>5. \A j : j \in H(k) <=> j \in H(k + 1)
        <5>. HIDE DEF H, k
        <5>. QED  BY <2>5, <4>1, <4>2, <4>3, <4>4
      <4>. HIDE DEF H
      <4>. QED  BY <4>3, <4>4, <4>5
    <3>. HIDE DEF H
    <3>. QED  BY <3>1, <3>2, <3>3 DEF H
  <2>. QED  BY <2>2, <2>3, <2>4, <2>5
<1>9. D \subseteq T
  <2>. HIDE DEF T, D
  <2>. QED  BY <1>6, <1>8, MeasureInduction
<1>10. <<1, 0>> \in T /\ <<1, 0>>[1] = 1 /\ <<1, 0>>[2] = 0
  <2>1. <<1, 0>> \in D
    <3>. HIDE DEF n
    <3>. QED  BY <1>1
  <2>. QED  BY <1>9, <2>1
<1>11. /\ f[<<1, 0>>] \in Seq(Int)
       /\ 0 <= limit => First(Hits(data, pattern, 1), limit - 0, f[<<1, 0>>])
  BY <1>10
<1>12. limit - 0 = limit /\ (limit >= 0 <=> 0 <= limit)
  OBVIOUS
<1>. QED  BY <1>3, <1>11, <1>12

---------------------------------------------------------------------------
(* The reads of a range.                                                   *)

SearchSize(range, read_size, at) ==
  IF read_size < range.to - at[1] THEN read_size ELSE range.to - at[1]
SearchData(memory, range, read_size, at) ==
  at[2] \o [i \in 1..SearchSize(range, read_size, at) |-> memory[at[1] + i - 1]]
SearchNew(memory, range, pattern, read_size, limit, at) ==
  LET offsets == FindInData(SearchData(memory, range, read_size, at), pattern, limit - at[3]) IN
  [i \in DOMAIN offsets |-> at[1] - Len(at[2]) + offsets[i]]
SearchNext(memory, range, pattern, read_size, limit, at) ==
  <<at[1] + SearchSize(range, read_size, at),
    KeptTail(SearchData(memory, range, read_size, at), pattern),
    at[3] + Len(SearchNew(memory, range, pattern, read_size, limit, at))>>
SearchEnds(range, read_size, bad, at) ==
  at[1] >= range.to \/ bad \in at[1]..(at[1] + SearchSize(range, read_size, at) - 1)

SearchStep(memory, range, pattern, read_size, limit, bad, f, at) ==
  LET new == SearchNew(memory, range, pattern, read_size, limit, at) IN
  IF SearchEnds(range, read_size, bad, at) THEN <<>>
  ELSE IF at[3] + Len(new) >= limit THEN new
  ELSE new \o f[SearchNext(memory, range, pattern, read_size, limit, at)]

SearchPlaces(range) == (range.from..range.to) \X Seq(Nat) \X Nat
IsSearch(memory, range, pattern, read_size, limit, bad, f) ==
  f = [at \in SearchPlaces(range) |->
         SearchStep(memory, range, pattern, read_size, limit, bad, f, at)]

LEMMA SearchIs ==
  ASSUME NEW memory, NEW range, NEW pattern, NEW read_size, NEW limit, NEW bad
  PROVE  SearchInRange(memory, range, pattern, read_size, limit, bad) =
           (CHOOSE f : IsSearch(memory, range, pattern, read_size, limit, bad, f))
             [<<range.from, <<>>, 0>>]
BY Zenon DEF SearchInRange, IsSearch, SearchStep, SearchPlaces, SearchEnds, SearchNext,
   SearchNew, SearchData, SearchSize

\* A range of the memory and how it is searched.
Searchable(memory, range, pattern, read_size) ==
  /\ range.from \in Nat /\ range.to \in Nat /\ range.from <= range.to
  /\ range.from..(range.to - 1) \subseteq DOMAIN memory /\ memory \in [DOMAIN memory -> Nat]
  /\ pattern \in Seq(Nat) \ {<<>>} /\ read_size \in Nat \ {0}

LEMMA TailIsKept ==
  ASSUME NEW data \in Seq(Nat), NEW pattern \in Seq(Nat) \ {<<>>}
  PROVE  LET tail == KeptTail(data, pattern)
             n == Len(data)
             m == Len(pattern)
         IN /\ tail \in Seq(Nat) /\ Len(tail) = IF n > m - 1 THEN m - 1 ELSE n
            /\ Len(tail) \in Nat /\ Len(tail) <= n
            /\ \A i \in 1..Len(tail) : tail[i] = data[n - Len(tail) + i]
<1>. DEFINE n == Len(data)
            m == Len(pattern)
            low == IF n > m - 1 THEN n - m + 2 ELSE 1
            tail == SubSeq(data, low, n)
<1>1. n \in Nat /\ m \in Nat \ {0} /\ \A i \in 1..n : data[i] \in Nat
  BY LenProperties, EmptySeq
<1>2. KeptTail(data, pattern) = tail
  BY DEF KeptTail
<1>. HIDE DEF n, m
<1>3. low \in 1..(n + 1)
  BY <1>1
<1>4. n - low + 1 = IF n > m - 1 THEN m - 1 ELSE n
  BY <1>1
<1>5. low <= n \/ n - low + 1 = 0
  BY <1>1
<1>6. (n - low + 1) \in Nat /\ n - low + 1 <= n
  BY <1>1, <1>3
<1>. HIDE DEF low
<1>7. \A i \in low..n : data[i] \in Nat
  BY <1>1, <1>3
<1>8. low \in Int /\ n \in Int
  BY <1>1, <1>3
<1>9. /\ tail \in Seq(Nat)
      /\ Len(tail) = IF low <= n THEN n - low + 1 ELSE 0
      /\ \A i \in 1..(n - low + 1) : tail[i] = data[low + i - 1]
  BY <1>7, <1>8, SubSeqProperties
<1>10. Len(tail) = n - low + 1
  BY <1>5, <1>9
<1>. HIDE DEF tail
<1>11. \A i \in 1..(n - low + 1) : n - (n - low + 1) + i = low + i - 1
  BY <1>8
<1>. QED  BY <1>2, <1>4, <1>6, <1>9, <1>10, <1>11 DEF n, m

\* What one read gives.
LEMMA SearchReads ==
  ASSUME NEW memory, NEW range, NEW pattern, NEW read_size,
         Searchable(memory, range, pattern, read_size),
         NEW at \in SearchPlaces(range), ~(at[1] >= range.to)
  PROVE  LET size == SearchSize(range, read_size, at)
             data == SearchData(memory, range, read_size, at)
         IN /\ size \in Nat \ {0} /\ size <= read_size /\ at[1] + size <= range.to
            /\ size = read_size \/ at[1] + size = range.to
            /\ data \in Seq(Nat) /\ Len(data) = Len(at[2]) + size
            /\ Len(at[2]) \in Nat /\ at[2] \in Seq(Nat)
            /\ \A i \in 1..Len(at[2]) : data[i] = at[2][i]
            /\ \A i \in 1..size : data[Len(at[2]) + i] = memory[at[1] + i - 1]
<1>. DEFINE size == SearchSize(range, read_size, at)
            read == [i \in 1..size |-> memory[at[1] + i - 1]]
            data == SearchData(memory, range, read_size, at)
            from == range.from
            to == range.to
            k == Len(at[2])
<1>1. /\ from \in Nat /\ to \in Nat /\ read_size \in Nat \ {0}
      /\ from..(to - 1) \subseteq DOMAIN memory
      /\ \A x \in DOMAIN memory : memory[x] \in Nat
  BY DEF Searchable
<1>2. at[1] \in from..to /\ at[2] \in Seq(Nat) /\ at[3] \in Nat
  BY DEF SearchPlaces
<1>3. size = IF read_size < to - at[1] THEN read_size ELSE to - at[1]
  BY DEF SearchSize
<1>4. k \in Nat
  BY <1>2, LenProperties
<1>5. ~(at[1] >= to)
  OBVIOUS
<1>. HIDE DEF size, from, to
<1>6. /\ size \in Nat \ {0} /\ size <= read_size /\ at[1] + size <= to
      /\ size = read_size \/ at[1] + size = to
  BY <1>1, <1>2, <1>3, <1>5
<1>7. \A i \in 1..size : at[1] + i - 1 \in from..(to - 1)
  BY SMTT(30), <1>1, <1>2, <1>6
<1>8. read \in Seq(Nat) /\ Len(read) = size /\ \A i \in 1..size : read[i] = memory[at[1] + i - 1]
  <2>1. \A i \in 1..size : memory[at[1] + i - 1] \in Nat
    BY <1>1, <1>7
  <2>2. read \in [1..size -> Nat]
    BY <2>1
  <2>3. size \in Nat
    BY <1>6
  <2>4. read \in Seq(Nat)
    <3>. HIDE DEF read
    <3>. QED  BY <2>2, <2>3, SeqDef
  <2>5. Len(read) \in Nat /\ DOMAIN read = 1..Len(read) /\ DOMAIN read = 1..size
    <3>. HIDE DEF read
    <3>. QED  BY <2>2, <2>4, LenProperties
  <2>6. Len(read) = size
    <3>. DEFINE q == Len(read)
    <3>1. q \in Nat /\ 1..q = 1..size
      BY <2>5
    <3>. HIDE DEF q
    <3>2. /\ q > 0 => q \in 1..size
          /\ size \in 1..q
      BY <1>6, <3>1
    <3>3. q = size
      BY <1>6, <3>1, <3>2
    <3>. QED  BY <3>3 DEF q
  <2>. QED  BY <2>4, <2>6
<1>9. data = at[2] \o read
  BY DEF SearchData, size
<1>. HIDE DEF read, data
<1>10. /\ data \in Seq(Nat) /\ Len(data) = k + size
       /\ \A i \in 1..(k + size) : data[i] = IF i <= k THEN at[2][i] ELSE read[i - k]
  BY ZenonT(60), <1>2, <1>8, <1>9, ConcatProperties
<1>. HIDE DEF k
<1>11. \A i \in 1..k : i \in 1..(k + size) /\ i <= k
  BY <1>4, <1>6
<1>12. \A i \in 1..size : k + i \in 1..(k + size) /\ ~(k + i <= k) /\ (k + i) - k = i
  BY <1>4, <1>6
<1>13. \A i \in 1..k : data[i] = at[2][i]
  BY <1>10, <1>11
<1>14. \A i \in 1..size : data[k + i] = memory[at[1] + i - 1]
  BY <1>8, <1>10, <1>12
<1>. QED  BY <1>2, <1>4, <1>6, <1>10, <1>13, <1>14 DEF size, data, k, to

LEMMA SearchGoesOn ==
  ASSUME NEW memory, NEW range, NEW pattern, NEW read_size, NEW limit \in Int,
         Searchable(memory, range, pattern, read_size),
         NEW at \in SearchPlaces(range), ~(at[1] >= range.to)
  PROVE  LET new == SearchNew(memory, range, pattern, read_size, limit, at)
             next == SearchNext(memory, range, pattern, read_size, limit, at)
         IN /\ new \in Seq(Int) /\ Len(new) \in Nat
            /\ next \in SearchPlaces(range) /\ next[1] > at[1]
<1>. DEFINE size == SearchSize(range, read_size, at)
            data == SearchData(memory, range, read_size, at)
            offsets == FindInData(data, pattern, limit - at[3])
            new == SearchNew(memory, range, pattern, read_size, limit, at)
            next == SearchNext(memory, range, pattern, read_size, limit, at)
<1>1. at[1] \in range.from..range.to /\ at[2] \in Seq(Nat) /\ at[3] \in Nat
  BY DEF SearchPlaces
<1>2. /\ size \in Nat \ {0} /\ at[1] + size <= range.to
      /\ data \in Seq(Nat) /\ Len(at[2]) \in Nat
  BY SearchReads
<1>3. pattern \in Seq(Nat) \ {<<>>} /\ range.from \in Nat /\ range.to \in Nat
  BY DEF Searchable
<1>4. limit - at[3] \in Int
  BY <1>1
<1>5. offsets \in Seq(Int)
  <2>. HIDE DEF data
  <2>. QED  BY <1>2, <1>3, <1>4, FindFirst
<1>. HIDE DEF offsets
<1>6. new = [i \in DOMAIN offsets |-> at[1] - Len(at[2]) + offsets[i]]
  BY DEF SearchNew, offsets
<1>. HIDE DEF new
<1>7. new \in Seq(Int) /\ Len(new) \in Nat
  <2>1. Len(offsets) \in Nat /\ DOMAIN offsets = 1..Len(offsets)
        /\ \A i \in 1..Len(offsets) : offsets[i] \in Int
    BY <1>5, LenProperties
  <2>2. at[1] - Len(at[2]) \in Int
    BY <1>1, <1>2
  <2>3. \A i \in 1..Len(offsets) : at[1] - Len(at[2]) + offsets[i] \in Int
    BY <2>1, <2>2
  <2>4. new \in [1..Len(offsets) -> Int]
    BY <1>6, <2>1, <2>3
  <2>5. new \in Seq(Int)
    BY <2>1, <2>4, SeqDef
  <2>. QED  BY <2>5, LenProperties
<1>8. next = <<at[1] + size, KeptTail(data, pattern), at[3] + Len(new)>>
  BY DEF SearchNext, new
<1>9. KeptTail(data, pattern) \in Seq(Nat)
  <2>. HIDE DEF data
  <2>. QED  BY <1>2, <1>3, TailIsKept
<1>10. at[1] + size \in range.from..range.to /\ at[1] + size > at[1] /\ at[3] + Len(new) \in Nat
  <2>. DEFINE k == Len(new)
              here == at[1]
              low == range.from
              high == range.to
  <2>1. /\ size \in Nat \ {0} /\ here + size <= high /\ here \in low..high
        /\ low \in Nat /\ high \in Nat /\ k \in Nat /\ at[3] \in Nat
    BY <1>1, <1>2, <1>3, <1>7
  <2>. HIDE DEF size, k, here, low, high
  <2>2. here + size \in low..high /\ here + size > here /\ at[3] + k \in Nat
    BY <2>1
  <2>. QED  BY <2>2 DEF k, here, low, high
<1>. HIDE DEF size, data, next
<1>11. next \in SearchPlaces(range) /\ next[1] = at[1] + size
  BY <1>8, <1>9, <1>10 DEF SearchPlaces
<1>. QED  BY <1>7, <1>10, <1>11 DEF new, next

LEMMA SearchExists ==
  ASSUME NEW memory, NEW range, NEW pattern, NEW read_size, NEW limit \in Int, NEW bad,
         Searchable(memory, range, pattern, read_size)
  PROVE  \E f : IsSearch(memory, range, pattern, read_size, limit, bad, f)
<1>. DEFINE D == SearchPlaces(range)
            M == Seq(Int)
            ends(at) == SearchEnds(range, read_size, bad, at)
            new(at) == SearchNew(memory, range, pattern, read_size, limit, at)
            next(at) == SearchNext(memory, range, pattern, read_size, limit, at)
            Value(f, at) == SearchStep(memory, range, pattern, read_size, limit, bad, f, at)
            measure == [at \in D |-> range.to - at[1]]
            step == [at \in D |-> [f \in [D -> M] |-> Value(f, at)]]
<1>1. range.from \in Nat /\ range.to \in Nat
  BY DEF Searchable
<1>2. \A at \in D : at[1] \in range.from..range.to
  BY DEF SearchPlaces
<1>3. measure \in [D -> Nat]
  <2>. HIDE DEF D
  <2>1. \A at \in D : range.to - at[1] \in Nat
    BY <1>1, <1>2
  <2>. QED  BY <2>1
<1>4. ASSUME NEW at \in D, ~ends(at)
      PROVE  /\ new(at) \in M /\ next(at) \in D
             /\ measure[next(at)] < measure[at]
  <2>1. ~(at[1] >= range.to)
    BY <1>4 DEF SearchEnds
  <2>2. new(at) \in M /\ next(at) \in D /\ next(at)[1] > at[1]
    BY <2>1, SearchGoesOn
  <2>. HIDE DEF next, D
  <2>3. measure[next(at)] = range.to - next(at)[1] /\ measure[at] = range.to - at[1]
    BY <2>2
  <2>. QED  BY <1>1, <1>2, <2>2, <2>3
<1>5. \A f, at : Value(f, at) = IF ends(at) THEN <<>>
                                ELSE IF at[3] + Len(new(at)) >= limit THEN new(at)
                                ELSE new(at) \o f[next(at)]
  BY DEF SearchStep
<1>. HIDE DEF D, ends, new, next, Value, measure
<1>6. ASSUME NEW at \in D, NEW f \in [D -> M] PROVE Value(f, at) \in M
  <2>1. CASE ends(at)
    <3>1. Value(f, at) = <<>>
      BY <1>5, <2>1
    <3>. QED  BY <3>1
  <2>2. CASE ~ends(at)
    <3>1. new(at) \in M /\ f[next(at)] \in M
      BY <1>4, <2>2
    <3>2. new(at) \o f[next(at)] \in M
      BY <3>1, ConcatProperties
    <3>. QED  BY <1>5, <2>2, <3>1, <3>2
  <2>. QED  BY <2>1, <2>2
<1>. HIDE DEF M
<1>7. step \in [D -> [[D -> M] -> M]]
  BY <1>6
<1>8. \A at \in D : \A f \in [D -> M] : step[at][f] = Value(f, at)
  OBVIOUS
<1>. HIDE DEF step
<1>9. ASSUME NEW at \in D, NEW f \in [D -> M], NEW g \in [D -> M],
             \A y \in D : measure[y] < measure[at] => f[y] = g[y]
      PROVE  step[at][f] = step[at][g]
  <2>1. Value(f, at) = Value(g, at)
    <3>1. CASE ends(at)
      BY <1>5, <3>1
    <3>2. CASE ~ends(at)
      <4>1. f[next(at)] = g[next(at)]
        BY <1>4, <1>9, <3>2
      <4>. QED  BY <1>5, <3>2, <4>1
    <3>. QED  BY <3>1, <3>2
  <2>. QED  BY <1>8, <2>1
<1>10. Determined(D, M, measure, step)
  <2>1. <<>> \in M
    BY DEF M
  <2>. QED  BY <1>3, <1>7, <1>9, <2>1 DEF Determined
<1>11. PICK f \in [D -> M] : \A at \in D : f[at] = step[at][f]
  BY <1>10, RecursionDefines
<1>12. f = [at \in D |-> Value(f, at)]
  <2>1. \A at \in D : f[at] = Value(f, at)
    BY <1>8, <1>11
  <2>2. f = [at \in D |-> f[at]]
    OBVIOUS
  <2>. QED  BY <2>1, <2>2
<1>13. IsSearch(memory, range, pattern, read_size, limit, bad, f)
  BY <1>12, Zenon DEF IsSearch, D, Value
<1>. QED  BY <1>13, Zenon

LEMMA FirstShifted ==
  ASSUME NEW S \in SUBSET Int, NEW limit \in Int, NEW r, First(S, limit, r), NEW b \in Int,
         NEW T, T = {b + x : x \in S}
  PROVE  First(T, limit, [i \in DOMAIN r |-> b + r[i]])
<1>. DEFINE n == Len(r)
            q == [i \in DOMAIN r |-> b + r[i]]
<1>1. /\ r \in Seq(Int) /\ n <= limit
      /\ \A i \in 1..n : r[i] \in S
      /\ \A i, j \in 1..n : i < j => r[i] < r[j]
      /\ \A x \in S : \/ \E i \in 1..n : r[i] = x
                      \/ n = limit /\ \A i \in 1..n : r[i] < x
  BY DEF First
<1>2. n \in Nat /\ DOMAIN r = 1..n /\ \A i \in 1..n : r[i] \in Int
  BY <1>1, LenProperties
<1>. HIDE DEF n
<1>3. q = [i \in 1..n |-> b + r[i]]
  BY <1>2
<1>. HIDE DEF q
<1>4. q \in [1..n -> Int] /\ \A i \in 1..n : q[i] = b + r[i]
  <2>1. \A i \in 1..n : b + r[i] \in Int
    BY <1>2
  <2>. QED  BY <1>3, <2>1
<1>5. q \in Seq(Int)
  BY <1>2, <1>4, SeqDef
<1>6. Len(q) = n
  <2>1. Len(q) \in Nat /\ 1..Len(q) = 1..n
    BY <1>4, <1>5, LenProperties
  <2>. DEFINE k == Len(q)
  <2>. HIDE DEF k
  <2>2. k \in Nat /\ 1..k = 1..n
    BY <2>1 DEF k
  <2>3. (k > 0 => k \in 1..n) /\ (n > 0 => n \in 1..k)
    BY <1>2, <2>2
  <2>4. k = n
    BY <1>2, <2>2, <2>3
  <2>. QED  BY <2>4 DEF k
<1>7. \A i \in 1..n : q[i] \in T
  BY <1>1, <1>4
<1>8. ASSUME NEW i \in 1..n, NEW j \in 1..n, i < j PROVE q[i] < q[j]
  <2>1. r[i] < r[j] /\ r[i] \in Int /\ r[j] \in Int
    BY <1>1, <1>2, <1>8
  <2>2. q[i] = b + r[i] /\ q[j] = b + r[j]
    BY <1>4
  <2>. QED  BY <2>1, <2>2
<1>9. ASSUME NEW y \in T
      PROVE  \/ \E i \in 1..n : q[i] = y
             \/ n = limit /\ \A i \in 1..n : q[i] < y
  <2>1. PICK x \in S : y = b + x
    OBVIOUS
  <2>2. CASE \E i \in 1..n : r[i] = x
    BY <1>4, <2>1, <2>2
  <2>3. CASE n = limit /\ \A i \in 1..n : r[i] < x
    <3>1. ASSUME NEW i \in 1..n PROVE q[i] < y
      <4>1. r[i] < x /\ r[i] \in Int /\ x \in Int /\ q[i] = b + r[i]
        BY <1>2, <1>4, <2>3
      <4>. QED  BY <2>1, <4>1
    <3>. QED  BY <2>3, <3>1
  <2>. QED  BY <1>1, <2>2, <2>3
<1>. QED  BY <1>1, <1>5, <1>6, <1>7, <1>8, <1>9 DEF First, q

LEMMA MatchesBytes ==
  ASSUME NEW data \in Seq(Nat), NEW pattern \in Seq(Nat) \ {<<>>}, NEW k \in Nat \ {0},
         k + Len(pattern) - 1 <= Len(data)
  PROVE  MatchesAt(data, pattern, k) <=>
           \A i \in 1..Len(pattern) : data[k + i - 1] = pattern[i]
<1>. DEFINE n == Len(data)
            m == Len(pattern)
            last == k + m - 1
            s == SubSeq(data, k, last)
<1>1. n \in Nat /\ m \in Nat \ {0} /\ \A i \in 1..n : data[i] \in Nat
  BY LenProperties, EmptySeq
<1>2. MatchesAt(data, pattern, k) <=> s = pattern
  BY DEF MatchesAt
<1>3. k + m - 1 <= n
  OBVIOUS
<1>. HIDE DEF n, m
<1>4. last \in Int /\ k <= last /\ last - k + 1 = m /\ last <= n
  BY <1>1, <1>3
<1>. HIDE DEF last
<1>5. \A i \in k..last : data[i] \in Nat
  BY <1>1, <1>4
<1>6. k \in Int
  OBVIOUS
<1>7. /\ s \in Seq(Nat) /\ Len(s) = m
      /\ \A i \in 1..m : s[i] = data[k + i - 1]
  BY <1>4, <1>5, <1>6, SubSeqProperties
<1>. HIDE DEF s
<1>8. s = pattern <=> \A i \in 1..m : s[i] = pattern[i]
  BY <1>7, SeqEqual DEF m
<1>9. (\A i \in 1..m : s[i] = pattern[i]) <=> \A i \in 1..m : data[k + i - 1] = pattern[i]
  BY <1>7
<1>. QED  BY <1>2, <1>8, <1>9 DEF m

\* Where the pattern is in a range, ending after x and no later than y.
Between(memory, range, pattern, x, y) ==
  {b \in range.from..(y - Len(pattern)) :
     b + Len(pattern) > x /\ \A i \in 1..Len(pattern) : memory[b + i - 1] = pattern[i]}

\* The tail is what comes before the place, as much as a match can begin in.
TailHeld(memory, range, pattern, at) ==
  /\ Len(at[2]) = IF at[1] - range.from < Len(pattern) - 1
                  THEN at[1] - range.from ELSE Len(pattern) - 1
  /\ \A i \in 1..Len(at[2]) : at[2][i] = memory[at[1] - Len(at[2]) + i - 1]

\* The data of a read are the bytes of the memory from the tail on, and the
\* tail of the next one is held again.
LEMMA DataHeld ==
  ASSUME NEW memory, NEW range, NEW pattern, NEW read_size, NEW limit \in Int,
         Searchable(memory, range, pattern, read_size),
         NEW at \in SearchPlaces(range), ~(at[1] >= range.to),
         TailHeld(memory, range, pattern, at)
  PROVE  /\ \A i \in 1..Len(SearchData(memory, range, read_size, at)) :
              SearchData(memory, range, read_size, at)[i] = memory[at[1] - Len(at[2]) + i - 1]
         /\ TailHeld(memory, range, pattern,
                     SearchNext(memory, range, pattern, read_size, limit, at))
<1>. DEFINE size == SearchSize(range, read_size, at)
            data == SearchData(memory, range, read_size, at)
            next == SearchNext(memory, range, pattern, read_size, limit, at)
            k == Len(at[2])
            m == Len(pattern)
            n == Len(data)
            x == at[1]
            from == range.from
            tail == KeptTail(data, pattern)
            p == Len(tail)
<1>1. x \in from..range.to /\ from \in Nat /\ range.to \in Nat
  BY DEF SearchPlaces, Searchable
<1>2. pattern \in Seq(Nat) \ {<<>>} /\ m \in Nat \ {0}
  BY LenProperties, EmptySeq DEF Searchable
<1>3. /\ size \in Nat \ {0} /\ data \in Seq(Nat) /\ n = k + size /\ k \in Nat
      /\ \A i \in 1..k : data[i] = at[2][i]
      /\ \A i \in 1..size : data[k + i] = memory[x + i - 1]
  BY SearchReads
<1>4. k = (IF x - from < m - 1 THEN x - from ELSE m - 1)
      /\ \A i \in 1..k : at[2][i] = memory[x - k + i - 1]
  BY DEF TailHeld
<1>5. /\ tail \in Seq(Nat) /\ p = IF n > m - 1 THEN m - 1 ELSE n
      /\ p \in Nat /\ p <= n
      /\ \A i \in 1..p : tail[i] = data[n - p + i]
  <2>. HIDE DEF data
  <2>. QED  BY <1>2, <1>3, TailIsKept
<1>6. next[1] = x + size /\ next[2] = tail
  BY DEF SearchNext
<1>7. n \in Nat /\ x \in Nat
  <2>. HIDE DEF n, k, size, x, from
  <2>. QED  BY <1>1, <1>3
<1>. HIDE DEF size, data, next, k, m, n, x, from, tail, p
<1>8. ASSUME NEW i \in 1..n PROVE data[i] = memory[x - k + i - 1]
  <2>1. CASE i \in 1..k
    BY <1>3, <1>4, <2>1
  <2>2. CASE i \notin 1..k
    <3>1. i - k \in 1..size /\ k + (i - k) = i /\ x + (i - k) - 1 = x - k + i - 1
      BY <1>3, <1>7, <2>2
    <3>. QED  BY <1>3, <3>1
  <2>. QED  BY <2>1, <2>2
<1>9. p = IF (x + size) - from < m - 1 THEN (x + size) - from ELSE m - 1
  BY <1>1, <1>2, <1>3, <1>4, <1>5
<1>10. ASSUME NEW i \in 1..p PROVE tail[i] = memory[(x + size) - p + i - 1]
  <2>1. n - p + i \in 1..n /\ x - k + (n - p + i) - 1 = (x + size) - p + i - 1
    BY <1>3, <1>5, <1>7
  <2>2. data[n - p + i] = memory[x - k + (n - p + i) - 1]
    BY <1>8, <2>1
  <2>. QED  BY <1>5, <2>1, <2>2
<1>11. TailHeld(memory, range, pattern, next)
  BY <1>6, <1>9, <1>10 DEF TailHeld, p, from, m
<1>. QED  BY <1>8, <1>11 DEF next, data, n, x, k

\* The results of a read.
LEMMA ReadFinds ==
  ASSUME NEW memory, NEW range, NEW pattern, NEW read_size, NEW limit \in Int,
         Searchable(memory, range, pattern, read_size),
         NEW at \in SearchPlaces(range), ~(at[1] >= range.to),
         TailHeld(memory, range, pattern, at), at[3] <= limit
  PROVE  First(Between(memory, range, pattern, at[1],
                       at[1] + SearchSize(range, read_size, at)),
               limit - at[3], SearchNew(memory, range, pattern, read_size, limit, at))
<1>. DEFINE size == SearchSize(range, read_size, at)
            data == SearchData(memory, range, read_size, at)
            offsets == FindInData(data, pattern, limit - at[3])
            k == Len(at[2])
            m == Len(pattern)
            n == Len(data)
            x == at[1]
            from == range.from
            b == x - k
            S == Hits(data, pattern, 1)
            T == Between(memory, range, pattern, x, x + size)
<1>1. x \in from..range.to /\ from \in Nat /\ range.to \in Nat /\ at[3] \in Nat
  BY DEF SearchPlaces, Searchable
<1>2. pattern \in Seq(Nat) \ {<<>>} /\ m \in Nat \ {0}
  BY LenProperties, EmptySeq DEF Searchable
<1>3. /\ size \in Nat \ {0} /\ data \in Seq(Nat) /\ n = k + size /\ k \in Nat
  BY SearchReads
<1>4. k = (IF x - from < m - 1 THEN x - from ELSE m - 1)
  BY DEF TailHeld
<1>5. \A i \in 1..n : data[i] = memory[x - k + i - 1]
  BY DataHeld
<1>6. limit - at[3] \in Int /\ limit - at[3] >= 0
  BY <1>1
<1>7. First(S, limit - at[3], offsets)
  <2>. HIDE DEF data
  <2>. QED  BY <1>2, <1>3, <1>6, FindFirst
<1>8. SearchNew(memory, range, pattern, read_size, limit, at)
        = [i \in DOMAIN offsets |-> b + offsets[i]]
  BY DEF SearchNew
<1>. HIDE DEF offsets
<1>9. \A j : j \in S <=> j \in 0..(n - m) /\ MatchesAt(data, pattern, j + 1)
  BY DEF Hits
<1>10. \A a_ : a_ \in T <=> /\ a_ \in from..((x + size) - m) /\ a_ + m > x
                           /\ \A i \in 1..m : memory[a_ + i - 1] = pattern[i]
  BY DEF Between
<1>. HIDE DEF size, data, k, m, n, x, from, S, T
<1>11. b \in Int /\ n \in Nat
  BY <1>1, <1>3
<1>12. \A j \in Int : j \in 0..(n - m) <=> (b + j \in from..((x + size) - m) /\ (b + j) + m > x)
  BY <1>1, <1>2, <1>3, <1>4
<1>13. ASSUME NEW j \in 0..(n - m)
       PROVE  MatchesAt(data, pattern, j + 1) <=>
                \A i \in 1..m : memory[(b + j) + i - 1] = pattern[i]
  <2>1. j \in Int /\ j + 1 \in Nat \ {0} /\ (j + 1) + m - 1 <= n
    BY <1>2, <1>11
  <2>2. MatchesAt(data, pattern, j + 1) <=> \A i \in 1..m : data[(j + 1) + i - 1] = pattern[i]
    BY ZenonT(60), <1>2, <1>3, <2>1, MatchesBytes DEF m, n
  <2>3. ASSUME NEW i \in 1..m
        PROVE  data[(j + 1) + i - 1] = memory[(b + j) + i - 1]
    <3>1. (j + 1) + i - 1 \in 1..n /\ x - k + ((j + 1) + i - 1) - 1 = (b + j) + i - 1
      BY <1>1, <1>2, <1>3, <1>11, <2>1
    <3>2. data[(j + 1) + i - 1] = memory[x - k + ((j + 1) + i - 1) - 1]
      BY <1>5, <3>1
    <3>. QED  BY <3>1, <3>2
  <2>. QED  BY <2>2, <2>3
<1>. HIDE DEF b
<1>14. S \in SUBSET Int /\ T \in SUBSET Int
  BY <1>9, <1>10
<1>15. T = {b + j : j \in S}
  <2>1. ASSUME NEW j \in S PROVE b + j \in T
    <3>1. j \in 0..(n - m) /\ j \in Int /\ MatchesAt(data, pattern, j + 1)
      BY <1>9
    <3>2. b + j \in from..((x + size) - m) /\ (b + j) + m > x
      BY <1>12, <3>1
    <3>3. \A i \in 1..m : memory[(b + j) + i - 1] = pattern[i]
      BY <1>13, <3>1
    <3>. QED  BY <1>10, <3>2, <3>3
  <2>2. ASSUME NEW y \in T PROVE \E j \in S : y = b + j
    <3>. DEFINE j == y - b
    <3>1. y \in Int /\ j \in Int /\ y = b + j
      BY <1>11, <1>14
    <3>. HIDE DEF j
    <3>2. b + j \in from..((x + size) - m) /\ (b + j) + m > x
          /\ \A i \in 1..m : memory[(b + j) + i - 1] = pattern[i]
      BY <1>10, <3>1
    <3>3. j \in 0..(n - m)
      BY <1>12, <3>1, <3>2
    <3>4. j \in S
      BY <1>9, <1>13, <3>2, <3>3
    <3>. QED  BY <3>1, <3>4
  <2>. QED  BY <2>1, <2>2
<1>16. First(T, limit - at[3], [i \in DOMAIN offsets |-> b + offsets[i]])
  <2>. DEFINE l == limit - at[3]
  <2>1. l \in Int /\ First(S, l, offsets)
    BY <1>6, <1>7
  <2>. HIDE DEF l
  <2>2. First(T, l, [i \in DOMAIN offsets |-> b + offsets[i]])
    BY <1>11, <1>14, <1>15, <2>1, FirstShifted
  <2>. QED  BY <2>2 DEF l
<1>. QED  BY <1>8, <1>16 DEF T, x, size, b, k

LEMMA Division ==
  ASSUME NEW d \in Nat \ {0}, NEW v \in Nat
  PROVE  \E q \in Nat : \E r \in 0..(d - 1) : v = d * q + r
<1>. DEFINE T == {u \in Nat : \E q \in Nat : \E r \in 0..(d - 1) : u = d * q + r}
<1>1. 0 \in T
  <2>1. 0 \in 0..(d - 1) /\ 0 = d * 0 + 0
    OBVIOUS
  <2>. QED  BY <2>1
<1>2. ASSUME NEW u \in T PROVE u + 1 \in T
  <2>1. PICK q \in Nat, r \in 0..(d - 1) : u = d * q + r
    OBVIOUS
  <2>2. d * q \in Nat /\ d * (q + 1) = d * q + d
    OBVIOUS
  <2>3. CASE r < d - 1
    <3>1. r + 1 \in 0..(d - 1) /\ u + 1 = d * q + (r + 1) /\ u + 1 \in Nat
      BY <2>1, <2>2, <2>3
    <3>. QED  BY <3>1
  <2>4. CASE ~(r < d - 1)
    <3>1. u + 1 = d * (q + 1) + 0 /\ 0 \in 0..(d - 1) /\ u + 1 \in Nat /\ q + 1 \in Nat
      BY <2>1, <2>2, <2>4
    <3>. QED  BY <3>1
  <2>. QED  BY <2>3, <2>4
<1>3. T = Nat
  <2>1. T \in SUBSET Nat
    OBVIOUS
  <2>. HIDE DEF T
  <2>. QED  BY <1>1, <1>2, <2>1, Induction
<1>4. v \in T
  <2>. HIDE DEF T
  <2>. QED  BY <1>3
<1>. QED  BY <1>4, Zenon

LEMMA RemainderIs ==
  ASSUME NEW q \in Int, NEW d \in Nat \ {0}, NEW r \in 0..(d - 1)
  PROVE  (d * q + r) % d = r
OBVIOUS

LEMMA Remainder ==
  ASSUME NEW v \in Nat, NEW d \in Nat \ {0}
  PROVE  /\ v % d \in Nat /\ v % d <= v
         /\ v < d => v % d = v
         /\ v >= d => (v - d) % d = v % d
<1>1. PICK q \in Nat, r \in 0..(d - 1) : v = d * q + r
  BY Division
<1>2. v % d = r
  BY <1>1, RemainderIs
<1>3. d * q \in Nat /\ r \in Nat
  OBVIOUS
<1>4. ASSUME v < d PROVE v % d = v
  BY <1>4
<1>5. ASSUME v >= d PROVE (v - d) % d = v % d
  <2>1. q - 1 \in Int /\ d * (q - 1) = d * q - d
    OBVIOUS
  <2>2. v - d = d * (q - 1) + r
    BY <1>1, <1>3, <2>1
  <2>3. (d * (q - 1) + r) % d = r
    BY <2>1, RemainderIs
  <2>. QED  BY <1>2, <2>2, <2>3
<1>. QED  BY <1>1, <1>2, <1>3, <1>4, <1>5

\* How far a range can be read from a place on.
Rest(range, read_size, bad, x) ==
  IF bad \in x..(range.to - 1) THEN bad - ((bad - x) % read_size) ELSE range.to

LEMMA RestAfter ==
  ASSUME NEW memory, NEW range, NEW pattern, NEW read_size, NEW bad \in Int,
         Searchable(memory, range, pattern, read_size), NEW at \in SearchPlaces(range)
  PROVE  LET x == at[1]
             y == at[1] + SearchSize(range, read_size, at)
             rest(z) == Rest(range, read_size, bad, z)
         IN /\ SearchEnds(range, read_size, bad, at) => rest(x) = x
            /\ ~SearchEnds(range, read_size, bad, at) =>
                 /\ rest(x) \in Int /\ y \in Int /\ x < y /\ y <= rest(x) /\ rest(y) = rest(x)
<1>. DEFINE x == at[1]
            size == SearchSize(range, read_size, at)
            y == x + size
            to == range.to
            d == read_size
            rest(z) == Rest(range, read_size, bad, z)
            v == bad - x
<1>1. /\ x \in range.from..to /\ x \in Int /\ to \in Int /\ x <= to /\ d \in Nat \ {0}
  BY DEF SearchPlaces, Searchable
<1>3. \A z : rest(z) = IF bad \in z..(to - 1) THEN bad - ((bad - z) % d) ELSE to
  BY DEF Rest
<1>4. ~(x >= to) => size \in Nat \ {0} /\ size <= d /\ y <= to /\ (size = d \/ y = to)
  BY SearchReads
<1>2. SearchEnds(range, read_size, bad, at) <=> x >= to \/ bad \in x..(y - 1)
  <2>1. SearchEnds(range, read_size, bad, at) <=> x >= to \/ bad \in x..(x + size - 1)
    BY DEF SearchEnds
  <2>. HIDE DEF x, to, size
  <2>2. ~(x >= to) => y - 1 = x + size - 1
    BY <1>1, <1>4
  <2>. QED  BY <2>1, <2>2
<1>. HIDE DEF x, to, d, rest, size
<1>5. CASE x >= to
  <2>1. bad \notin x..(to - 1) /\ x = to
    BY <1>1, <1>5
  <2>2. rest(x) = x
    BY <1>3, <2>1
  <2>. QED  BY <1>2, <1>5, <2>2 DEF x, rest
<1>6. CASE ~(x >= to) /\ bad \in x..(y - 1)
  <2>1. v \in Nat /\ v < d /\ bad \in x..(to - 1)
    BY <1>1, <1>4, <1>6
  <2>. HIDE DEF v
  <2>2. v % d = v
    BY <1>1, <2>1, Remainder
  <2>3. rest(x) = bad - v
    BY <1>3, <2>1, <2>2 DEF v
  <2>4. bad - v = x
    BY <1>1 DEF v
  <2>. QED  BY <1>2, <1>6, <2>3, <2>4 DEF x, rest
<1>7. CASE ~(x >= to) /\ bad \notin x..(y - 1)
  <2>1. y \in Int /\ x < y /\ y <= to
    BY <1>1, <1>4, <1>7
  <2>2. CASE bad \in x..(to - 1)
    <3>1. bad \in y..(to - 1) /\ size = d /\ y = x + d
      BY <1>1, <1>4, <1>7, <2>1, <2>2
    <3>2. v \in Nat /\ v >= d /\ v - d = bad - y /\ bad - y \in Nat
      BY <1>1, <2>1, <3>1
    <3>. DEFINE w == bad - y
    <3>3. w \in Nat /\ v - d = w /\ v = bad - x
      BY <3>2
    <3>. HIDE DEF v, w, y
    <3>4. w % d = v % d /\ w % d \in Nat /\ w % d <= w
      BY <1>1, <3>2, <3>3, Remainder
    <3>5. rest(x) = bad - (v % d) /\ rest(y) = bad - (w % d)
      BY <1>3, <2>2, <3>1, <3>3 DEF w
    <3>. DEFINE u == w % d
    <3>6. rest(x) = bad - u /\ rest(y) = bad - u /\ u \in Nat /\ u <= w
      BY <3>4, <3>5
    <3>. HIDE DEF u
    <3>7. bad - u \in Int /\ y <= bad - u
      BY <2>1, <3>3, <3>6 DEF w
    <3>. QED  BY <1>2, <1>7, <2>1, <3>6, <3>7 DEF x, rest, y, size
  <2>3. CASE bad \notin x..(to - 1)
    <3>1. bad \notin y..(to - 1)
      BY <1>1, <2>1, <2>3
    <3>2. rest(x) = to /\ rest(y) = to
      BY <1>3, <2>3, <3>1
    <3>. QED  BY <1>1, <1>2, <1>7, <2>1, <3>2 DEF x, rest, size
  <2>. QED  BY <2>2, <2>3
<1>. QED  BY <1>5, <1>6, <1>7

LEMMA SearchFirst ==
  ASSUME NEW memory, NEW range, NEW pattern, NEW read_size, NEW limit \in Int, NEW bad \in Int,
         Searchable(memory, range, pattern, read_size)
  PROVE  LET found == SearchInRange(memory, range, pattern, read_size, limit, bad)
         IN /\ found \in Seq(Int)
            /\ limit >= 0 =>
                 First(Between(memory, range, pattern, range.from,
                               Readable(range, read_size, bad)), limit, found)
<1>. DEFINE D == SearchPlaces(range)
            f == CHOOSE f : IsSearch(memory, range, pattern, read_size, limit, bad, f)
            ends(at) == SearchEnds(range, read_size, bad, at)
            size(at) == SearchSize(range, read_size, at)
            new(at) == SearchNew(memory, range, pattern, read_size, limit, at)
            next(at) == SearchNext(memory, range, pattern, read_size, limit, at)
            held(at) == TailHeld(memory, range, pattern, at)
            rest(z) == Rest(range, read_size, bad, z)
            B(x, y) == Between(memory, range, pattern, x, y)
            measure == [at \in D |-> range.to - at[1]]
            T == {at \in D : /\ f[at] \in Seq(Int)
                             /\ held(at) /\ at[3] <= limit =>
                                  First(B(at[1], rest(at[1])), limit - at[3], f[at])}
<1>1. range.from \in Nat /\ range.to \in Nat /\ range.from <= range.to
      /\ Len(pattern) \in Nat \ {0}
  BY LenProperties, EmptySeq DEF Searchable
<1>2. IsSearch(memory, range, pattern, read_size, limit, bad, f)
  <2>1. \E g : IsSearch(memory, range, pattern, read_size, limit, bad, g)
    BY SearchExists
  <2>. QED  BY <2>1, Zenon
<1>3. SearchInRange(memory, range, pattern, read_size, limit, bad) = f[<<range.from, <<>>, 0>>]
  BY SearchIs
<1>. HIDE DEF f
<1>4. \A at \in D : f[at] = IF ends(at) THEN <<>>
                            ELSE IF at[3] + Len(new(at)) >= limit THEN new(at)
                            ELSE new(at) \o f[next(at)]
  <2>1. f = [at \in D |-> SearchStep(memory, range, pattern, read_size, limit, bad, f, at)]
    BY <1>2, Zenon DEF IsSearch
  <2>2. \A at \in D : f[at] = SearchStep(memory, range, pattern, read_size, limit, bad, f, at)
    <3>. HIDE DEF D
    <3>. QED  BY <2>1
  <2>. QED  BY <2>2, Zenon DEF SearchStep
<1>5. \A at \in D : /\ at[1] \in range.from..range.to /\ at[2] \in Seq(Nat) /\ at[3] \in Nat
  BY DEF SearchPlaces
<1>6. measure \in [D -> Nat]
  <2>. HIDE DEF D
  <2>1. \A at \in D : range.to - at[1] \in Nat
    BY <1>1, <1>5
  <2>. QED  BY <2>1
<1>7. ASSUME NEW at \in D, ~ends(at)
      PROVE  /\ ~(at[1] >= range.to)
             /\ new(at) \in Seq(Int) /\ Len(new(at)) \in Nat /\ next(at) \in D
             /\ measure[next(at)] < measure[at]
             /\ next(at)[1] = at[1] + size(at) /\ next(at)[3] = at[3] + Len(new(at))
             /\ held(at) => held(next(at))
             /\ held(at) /\ at[3] <= limit =>
                  First(B(at[1], at[1] + size(at)), limit - at[3], new(at))
  <2>1. ~(at[1] >= range.to)
    BY <1>7 DEF SearchEnds
  <2>2. new(at) \in Seq(Int) /\ Len(new(at)) \in Nat /\ next(at) \in D /\ next(at)[1] > at[1]
    BY <2>1, SearchGoesOn
  <2>3. next(at)[1] = at[1] + size(at) /\ next(at)[3] = at[3] + Len(new(at))
    BY DEF SearchNext
  <2>4. held(at) => held(next(at))
    BY <2>1, DataHeld
  <2>5. held(at) /\ at[3] <= limit =>
          First(B(at[1], at[1] + size(at)), limit - at[3], new(at))
    BY <2>1, ReadFinds
  <2>6. measure[next(at)] < measure[at]
    <3>. HIDE DEF next, D
    <3>1. measure[next(at)] = range.to - next(at)[1] /\ measure[at] = range.to - at[1]
      BY <2>2
    <3>. QED  BY <1>1, <1>5, <2>2, <3>1
  <2>. QED  BY <2>1, <2>2, <2>3, <2>4, <2>5, <2>6
<1>8. ASSUME NEW at \in D
      PROVE  /\ ends(at) => rest(at[1]) = at[1]
             /\ ~ends(at) => /\ rest(at[1]) \in Int /\ at[1] + size(at) \in Int
                             /\ at[1] < at[1] + size(at) /\ at[1] + size(at) <= rest(at[1])
                             /\ rest(at[1] + size(at)) = rest(at[1])
  BY RestAfter
<1>9. \A x, y : B(x, y) \in SUBSET Int
  BY DEF Between
<1>10. ASSUME NEW x \in Int PROVE B(x, x) = {}
  <2>1. \A z \in range.from..(x - Len(pattern)) : ~(z + Len(pattern) > x)
    BY <1>1
  <2>. QED  BY <2>1 DEF Between
<1>11. ASSUME NEW x \in Int, NEW y \in Int, NEW z \in Int, x < y, y <= z
       PROVE  /\ B(x, z) = B(x, y) \cup B(y, z)
              /\ \A i \in B(x, y) : \A j \in B(y, z) : i < j
  <2>. DEFINE m == Len(pattern)
              low == range.from
  <2>1. \A i : i \in low..(z - m) /\ i + m > x <=>
               (i \in low..(y - m) /\ i + m > x) \/ (i \in low..(z - m) /\ i + m > y)
    <3>. HIDE DEF m, low
    <3>. QED  BY <1>1, <1>11 DEF m, low
  <2>2. B(x, z) = B(x, y) \cup B(y, z)
    <3>1. \A i : i \in B(x, z) <=> i \in B(x, y) \/ i \in B(y, z)
      BY <2>1 DEF Between
    <3>. HIDE DEF B
    <3>. QED  BY <3>1
  <2>3. ASSUME NEW i \in B(x, y), NEW j \in B(y, z) PROVE i < j
    <3>1. i \in low..(y - m) /\ j \in low..(z - m) /\ j + m > y
      BY DEF Between
    <3>. HIDE DEF m, low
    <3>. QED  BY <1>1, <3>1 DEF m, low
  <2>. QED  BY <2>2, <2>3
<1>. HIDE DEF D, ends, size, new, next, held, rest, B, measure
<1>12. ASSUME NEW at \in D, \A y \in D : measure[y] < measure[at] => y \in T PROVE at \in T
  <2>. DEFINE x == at[1]
              y == at[1] + size(at)
              l == limit - at[3]
  <2>1. x \in Int /\ at[3] \in Nat /\ l \in Int /\ (at[3] <= limit => l \in Nat)
    BY <1>1, <1>5
  <2>2. CASE ends(at)
    <3>1. f[at] = <<>> /\ rest(x) = x
      BY <1>4, <1>8, <2>2
    <3>2. B(x, rest(x)) = {}
      BY <1>10, <2>1, <3>1
    <3>3. at[3] <= limit => First({}, l, <<>>)
      BY <2>1, FirstOfNone
    <3>4. <<>> \in Seq(Int)
      OBVIOUS
    <3>. QED  BY <3>1, <3>2, <3>3, <3>4
  <2>3. CASE ~ends(at)
    <3>. DEFINE S1 == B(x, y)
                S2 == B(y, rest(x))
                r == new(at)
                t == f[next(at)]
                n == Len(r)
    <3>1. r \in Seq(Int) /\ n \in Nat /\ next(at) \in T
      BY <1>7, <1>12, <2>3
    <3>2. t \in Seq(Int)
      BY <3>1
    <3>3. f[at] = IF at[3] + n >= limit THEN r ELSE r \o t
      BY <1>4, <2>3
    <3>4. f[at] \in Seq(Int)
      <4>1. r \o t \in Seq(Int)
        BY <3>1, <3>2, ConcatProperties
      <4>. QED  BY <3>1, <3>3, <4>1
    <3>5. ASSUME held(at), at[3] <= limit
          PROVE  First(B(x, rest(x)), l, f[at])
      <4>1. First(S1, l, r)
        BY <1>7, <2>3, <3>5
      <4>2. rest(x) \in Int /\ y \in Int /\ x < y /\ y <= rest(x) /\ rest(y) = rest(x)
        BY <1>8, <2>3
      <4>3. B(x, rest(x)) = S1 \cup S2 /\ \A i \in S1 : \A j \in S2 : i < j
        BY <1>11, <2>1, <4>2
      <4>4. S1 \in SUBSET Int /\ S2 \in SUBSET Int
        BY <1>9
      <4>5. n <= l
        BY <4>1 DEF First
      <4>. HIDE DEF S1, S2
      <4>6. CASE at[3] + n >= limit
        <5>1. l - n = 0
          BY <2>1, <3>1, <4>5, <4>6
        <5>2. First(S2, l - n, <<>>)
          <6>1. 0 \in Nat
            OBVIOUS
          <6>. QED  BY <5>1, <6>1, FirstOfNone
        <5>. HIDE DEF l, r
        <5>3. First(S1 \cup S2, l, r \o <<>>)
          BY <2>1, <4>1, <4>3, <4>4, <5>2, FirstOfBoth
        <5>4. r \o <<>> = r
          BY <3>1, ConcatEmptySeq
        <5>5. f[at] = r
          BY <3>3, <4>6
        <5>. QED  BY <4>3, <5>3, <5>4, <5>5
      <4>7. CASE ~(at[3] + n >= limit)
        <5>1. next(at)[1] = y /\ next(at)[3] = at[3] + n /\ held(next(at))
          BY <1>7, <2>3, <3>5
        <5>2. next(at)[3] <= limit /\ limit - next(at)[3] = l - n
          BY <2>1, <3>1, <4>7, <5>1
        <5>3. First(B(next(at)[1], rest(next(at)[1])), limit - next(at)[3], t)
          BY <3>1, <5>1, <5>2
        <5>4. First(S2, l - n, t)
          BY <4>2, <5>1, <5>2, <5>3 DEF S2
        <5>5. f[at] = r \o t
          BY <3>3, <4>7
        <5>. HIDE DEF l, r, t
        <5>6. First(S1 \cup S2, l, r \o t)
          BY <2>1, <4>1, <4>3, <4>4, <5>4, FirstOfBoth
        <5>. QED  BY <4>3, <5>5, <5>6
      <4>. QED  BY <4>6, <4>7
    <3>. QED  BY <3>4, <3>5
  <2>. QED  BY <2>2, <2>3
<1>13. D \subseteq T
  <2>. HIDE DEF T
  <2>. QED  BY <1>6, <1>12, MeasureInduction
<1>. DEFINE at0 == <<range.from, <<>>, 0>>
<1>14. /\ at0 \in D /\ held(at0)
       /\ at0[1] = range.from /\ at0[2] = <<>> /\ at0[3] = 0
  <2>1. range.from \in range.from..range.to /\ <<>> \in Seq(Nat) /\ 0 \in Nat
    BY <1>1
  <2>2. Len(<<>>) = 0 /\ range.from - range.from = 0 /\ \A i : i \notin 1..0
    BY <1>1
  <2>3. 0 = IF 0 < Len(pattern) - 1 THEN 0 ELSE Len(pattern) - 1
    <3>. DEFINE m == Len(pattern)
    <3>1. m \in Nat \ {0}
      BY <1>1
    <3>. HIDE DEF m
    <3>2. 0 < m - 1 \/ m - 1 = 0
      BY <3>1
    <3>. QED  BY <3>2 DEF m
  <2>4. at0 \in D
    BY <2>1 DEF D, SearchPlaces
  <2>5. held(at0)
    BY <2>2, <2>3 DEF held, TailHeld
  <2>. QED  BY <2>4, <2>5
<1>15. rest(range.from) = Readable(range, read_size, bad)
  BY DEF rest, Rest, Readable
<1>16. limit - 0 = limit /\ (limit >= 0 <=> 0 <= limit)
  OBVIOUS
<1>17. at0 \in T
  BY <1>13, <1>14
<1>. HIDE DEF at0
<1>18. f[at0] \in Seq(Int) /\ (0 <= limit => First(B(range.from, rest(range.from)), limit, f[at0]))
  BY <1>14, <1>16, <1>17
<1>. QED  BY <1>3, <1>15, <1>16, <1>18 DEF at0, B

---------------------------------------------------------------------------
(* The ranges of a search, and the search of them in turn.                 *)

RangesStep(map, end, f, current) ==
  LET i == Find(map, 0, current) IN
  IF current >= end \/ i = 0 THEN <<>>
  ELSE <<[from |-> current, to |-> IF End(map[i]) < end THEN End(map[i]) ELSE end]>>
         \o f[End(map[i])]
IsRanges(map, end, f) == f = [current \in Nat |-> RangesStep(map, end, f, current)]

LEMMA RangesAre ==
  ASSUME NEW map, NEW start, NEW end
  PROVE  Ranges(map, start, end) = (CHOOSE f : IsRanges(map, end, f))[start]
BY Zenon DEF Ranges, IsRanges, RangesStep

\* Ranges that follow each other.
InTurn(rs, low, high) ==
  /\ rs \in Seq([from : Nat, to : Nat])
  /\ \A i \in 1..Len(rs) : low <= rs[i].from /\ rs[i].from < rs[i].to /\ rs[i].to <= high
  /\ \A i, j \in 1..Len(rs) : i < j => rs[i].to <= rs[j].from

LEMMA RangesInTurn ==
  ASSUME NEW map, Ordered(map), NEW start \in Nat, NEW end \in Nat
  PROVE  InTurn(Ranges(map, start, end), start, end)
<1>. DEFINE R == [from : Nat, to : Nat]
            M == Seq(R)
            i(k) == Find(map, 0, k)
            to(k) == End(map[i(k)])
            one(k) == [from |-> k, to |-> IF to(k) < end THEN to(k) ELSE end]
            Value(f, k) == RangesStep(map, end, f, k)
            measure == [k \in Nat |-> IF k < end THEN end - k ELSE 0]
            step == [k \in Nat |-> [f \in [Nat -> M] |-> Value(f, k)]]
            ends(k) == k >= end \/ i(k) = 0
<1>1. ASSUME NEW k \in Nat, ~ends(k)
      PROVE  /\ to(k) \in Nat /\ k < to(k) /\ one(k) \in R
             /\ one(k).from = k /\ one(k).to <= to(k) /\ one(k).to <= end /\ k < one(k).to
  <2>1. 0 \in 0..Len(map)
    <3>1. Len(map) \in Nat
      BY LenProperties DEF Ordered
    <3>. QED  BY <3>1
  <2>2. i(k) \in 0..Len(map) /\ i(k) # 0 /\ Within(k, map[i(k)])
    BY <1>1, <2>1, FindFinds
  <2>3. map[i(k)] \in MapBlock
    <3>1. Len(map) \in Nat /\ \A j \in 1..Len(map) : map[j] \in MapBlock
      BY LenProperties DEF Ordered
    <3>2. i(k) \in 1..Len(map)
      BY <2>2, <3>1
    <3>. QED  BY <3>1, <3>2
  <2>4. to(k) \in Int
    BY <2>3 DEF MapBlock, End
  <2>5. k < to(k)
    BY <2>2 DEF Within
  <2>6. k < end
    BY <1>1
  <2>. DEFINE t == to(k)
              e == IF t < end THEN t ELSE end
  <2>7. t \in Int /\ k < t
    BY <2>4, <2>5
  <2>. HIDE DEF t
  <2>8. t \in Nat /\ e \in Nat /\ e <= t /\ e <= end /\ k < e
    BY <2>6, <2>7
  <2>9. one(k) = [from |-> k, to |-> e]
    BY DEF t
  <2>. HIDE DEF e, one
  <2>10. one(k) \in R /\ one(k).from = k /\ one(k).to = e
    BY <2>8, <2>9
  <2>. QED  BY <2>8, <2>10 DEF t
<1>2. measure \in [Nat -> Nat] /\ \A k \in Nat : measure[k] = IF k < end THEN end - k ELSE 0
  OBVIOUS
<1>3. ASSUME NEW k \in Nat, ~ends(k) PROVE to(k) \in Nat /\ measure[to(k)] < measure[k]
  <2>1. to(k) \in Nat /\ k < to(k) /\ k < end
    BY <1>1, <1>3
  <2>. HIDE DEF measure, to
  <2>. QED  BY <1>2, <2>1
<1>4. \A f, k : Value(f, k) = IF ends(k) THEN <<>> ELSE <<one(k)>> \o f[to(k)]
  BY Zenon DEF RangesStep
<1>. HIDE DEF measure, ends, to, one, Value, i, R
<1>5. ASSUME NEW k \in Nat, NEW f \in [Nat -> M] PROVE Value(f, k) \in M
  <2>1. CASE ends(k)
    <3>1. Value(f, k) = <<>>
      BY <1>4, <2>1
    <3>. QED  BY <3>1
  <2>2. CASE ~ends(k)
    <3>1. <<one(k)>> \in M /\ f[to(k)] \in M
      BY <1>1, <2>2
    <3>2. <<one(k)>> \o f[to(k)] \in M
      BY <3>1, ConcatProperties
    <3>. QED  BY <1>4, <2>2, <3>2
  <2>. QED  BY <2>1, <2>2
<1>. HIDE DEF M
<1>6. step \in [Nat -> [[Nat -> M] -> M]]
  BY <1>5
<1>7. \A k \in Nat : \A f \in [Nat -> M] : step[k][f] = Value(f, k)
  OBVIOUS
<1>. HIDE DEF step
<1>8. ASSUME NEW k \in Nat, NEW f \in [Nat -> M], NEW g \in [Nat -> M],
             \A y \in Nat : measure[y] < measure[k] => f[y] = g[y]
      PROVE  step[k][f] = step[k][g]
  <2>1. Value(f, k) = Value(g, k)
    <3>1. CASE ends(k)
      BY <1>4, <3>1
    <3>2. CASE ~ends(k)
      <4>1. f[to(k)] = g[to(k)]
        BY <1>3, <1>8, <3>2
      <4>. QED  BY <1>4, <3>2, <4>1
    <3>. QED  BY <3>1, <3>2
  <2>. QED  BY <1>7, <2>1
<1>9. \E f : IsRanges(map, end, f)
  <2>. DEFINE D == Nat
  <2>1. <<>> \in M
    BY DEF M
  <2>2. Determined(D, M, measure, step)
    BY <1>2, <1>6, <1>8, <2>1 DEF Determined
  <2>. HIDE DEF D
  <2>3. PICK f \in [D -> M] : \A k \in D : f[k] = step[k][f]
    BY <2>2, RecursionDefines
  <2>4. \A k \in D : f[k] = Value(f, k)
    BY <1>7, <2>3 DEF D
  <2>5. f = [k \in D |-> f[k]]
    BY <2>3
  <2>6. f = [k \in D |-> Value(f, k)]
    BY <2>4, <2>5
  <2>7. IsRanges(map, end, f)
    BY <2>6, Zenon DEF IsRanges, D, Value
  <2>. QED  BY <2>7, Zenon
<1>. DEFINE f == CHOOSE f : IsRanges(map, end, f)
            T == {k \in Nat : InTurn(f[k], k, end)}
<1>10. IsRanges(map, end, f)
  BY <1>9, Zenon
<1>11. Ranges(map, start, end) = f[start]
  BY RangesAre
<1>. HIDE DEF f
<1>12. \A k \in Nat : f[k] = IF ends(k) THEN <<>> ELSE <<one(k)>> \o f[to(k)]
  <2>1. f = [k \in Nat |-> Value(f, k)]
    BY <1>10, Zenon DEF IsRanges, Value
  <2>2. \A k \in Nat : f[k] = Value(f, k)
    BY <2>1
  <2>. QED  BY <1>4, <2>2, Zenon
<1>13. ASSUME NEW k \in Nat, \A y \in Nat : measure[y] < measure[k] => y \in T PROVE k \in T
  <2>1. CASE ends(k)
    <3>1. f[k] = <<>>
      BY <1>12, <2>1
    <3>2. <<>> \in Seq([from : Nat, to : Nat]) /\ Len(<<>>) = 0 /\ \A j : j \notin 1..0
      OBVIOUS
    <3>3. InTurn(<<>>, k, end)
      BY <3>2 DEF InTurn
    <3>. QED  BY <3>1, <3>3
  <2>2. CASE ~ends(k)
    <3>. DEFINE t == f[to(k)]
                q == <<one(k)>> \o t
                n == Len(t)
    <3>1. to(k) \in T /\ to(k) \in Nat
      BY <1>3, <1>13, <2>2
    <3>2. /\ t \in Seq(R)
          /\ \A j \in 1..n : to(k) <= t[j].from /\ t[j].from < t[j].to /\ t[j].to <= end
          /\ \A j, l \in 1..n : j < l => t[j].to <= t[l].from
      BY <3>1 DEF InTurn, R
    <3>3. n \in Nat /\ \A j \in 1..n : t[j] \in R
      BY <3>2, LenProperties
    <3>4. one(k) \in R /\ one(k).from = k /\ one(k).to <= to(k) /\ one(k).to <= end /\ k < one(k).to
          /\ k < to(k)
      BY <1>1, <2>2
    <3>5. f[k] = q
      BY <1>12, <2>2
    <3>6. <<one(k)>> \in Seq(R) /\ Len(<<one(k)>>) = 1 /\ <<one(k)>>[1] = one(k)
      BY <3>4
    <3>. HIDE DEF t, n
    <3>7. /\ q \in Seq(R) /\ Len(q) = 1 + n
          /\ \A j \in 1..(1 + n) : q[j] = IF j <= 1 THEN one(k) ELSE t[j - 1]
      <4>1. /\ q \in Seq(R) /\ Len(q) = Len(<<one(k)>>) + Len(t)
            /\ \A j \in 1..(Len(<<one(k)>>) + Len(t)) :
                 q[j] = IF j <= Len(<<one(k)>>) THEN <<one(k)>>[j] ELSE t[j - Len(<<one(k)>>)]
        BY <3>2, <3>6, ConcatProperties
      <4>2. \A j \in 1..(1 + n) : j <= 1 => j = 1
        BY <3>3
      <4>. QED  BY <3>6, <4>1, <4>2 DEF n
    <3>. HIDE DEF q
    <3>8. \A j \in 1..(1 + n) : j = 1 \/ (j # 1 /\ ~(j <= 1) /\ j - 1 \in 1..n)
      BY <3>3
    <3>9. q[1] = one(k) /\ \A j \in 1..(1 + n) : j # 1 => q[j] = t[j - 1]
      <4>1. 1 \in 1..(1 + n) /\ 1 <= 1
        BY <3>3
      <4>. QED  BY <3>7, <3>8, <4>1
    <3>10. \A x \in R : x.from \in Nat /\ x.to \in Nat
      BY DEF R
    <3>11. ASSUME NEW j \in 1..(1 + n)
           PROVE  k <= q[j].from /\ q[j].from < q[j].to /\ q[j].to <= end
      <4>1. CASE j = 1
        BY <3>4, <3>9, <4>1
      <4>2. CASE j # 1
        <5>1. q[j] = t[j - 1] /\ j - 1 \in 1..n
          BY <3>8, <3>9, <4>2
        <5>2. t[j - 1].from \in Nat /\ to(k) <= t[j - 1].from
              /\ t[j - 1].from < t[j - 1].to /\ t[j - 1].to <= end
          BY <3>2, <3>3, <3>10, <5>1
        <5>. QED  BY <3>1, <3>4, <5>1, <5>2
      <4>. QED  BY <4>1, <4>2
    <3>12. ASSUME NEW j \in 1..(1 + n), NEW l \in 1..(1 + n), j < l
           PROVE  q[j].to <= q[l].from
      <4>1. l # 1 /\ l - 1 \in 1..n /\ q[l] = t[l - 1]
        BY <3>3, <3>8, <3>9, <3>12
      <4>2. CASE j = 1
        <5>1. q[j] = one(k) /\ to(k) <= t[l - 1].from /\ t[l - 1].from \in Nat
              /\ one(k).to \in Nat
          BY <3>2, <3>3, <3>4, <3>9, <3>10, <4>1, <4>2
        <5>. QED  BY <3>1, <3>4, <4>1, <5>1
      <4>3. CASE j # 1
        <5>1. q[j] = t[j - 1] /\ j - 1 \in 1..n
          BY <3>8, <3>9, <4>3
        <5>2. j - 1 < l - 1
          BY <3>3, <3>12
        <5>. QED  BY <3>2, <4>1, <5>1, <5>2
      <4>. QED  BY <4>2, <4>3
    <3>13. InTurn(q, k, end)
      BY <3>7, <3>11, <3>12 DEF InTurn, R
    <3>. QED  BY <3>5, <3>13
  <2>. QED  BY <2>1, <2>2
<1>14. start \in T
  <2>. DEFINE D == Nat
  <2>1. measure \in [D -> Nat]
        /\ \A x \in D : (\A y \in D : measure[y] < measure[x] => y \in T) => x \in T
    <3>. HIDE DEF T
    <3>. QED  BY <1>2, <1>13
  <2>2. start \in D
    OBVIOUS
  <2>. HIDE DEF D, T
  <2>3. D \subseteq T
    BY <2>1, MeasureInduction
  <2>. QED  BY <2>2, <2>3
<1>. QED  BY <1>11, <1>14

LEMMA ReadableBound ==
  ASSUME NEW memory, NEW range, NEW pattern, NEW read_size, NEW bad \in Int,
         Searchable(memory, range, pattern, read_size)
  PROVE  Readable(range, read_size, bad) \in Int /\ Readable(range, read_size, bad) <= range.to
<1>. DEFINE v == bad - range.from
            u == v % read_size
            to == range.to
<1>1. to \in Int /\ range.from \in Nat /\ read_size \in Nat \ {0}
  BY DEF Searchable
<1>2. Readable(range, read_size, bad) = IF bad \in range.from..(to - 1) THEN bad - u ELSE to
  BY DEF Readable
<1>3. ASSUME bad \in range.from..(to - 1) PROVE u \in Nat
  <2>1. v \in Nat
    BY <1>1, <1>3
  <2>. HIDE DEF v
  <2>. QED  BY <1>1, <2>1, Remainder
<1>. HIDE DEF u, to
<1>4. CASE bad \in range.from..(to - 1)
  <2>1. bad - u \in Int /\ bad - u <= to
    BY <1>1, <1>3, <1>4
  <2>. QED  BY <1>2, <1>4, <2>1 DEF to
<1>5. CASE bad \notin range.from..(to - 1)
  BY <1>1, <1>2, <1>5 DEF to
<1>. QED  BY <1>4, <1>5

AllStep(memory, ranges, pattern, read_size, limit, bad, f, at) ==
  LET new == SearchInRange(memory, ranges[at[1]], pattern, read_size, limit - at[2], bad) IN
  IF at[1] > Len(ranges) \/ at[2] = limit THEN <<>>
  ELSE new \o f[<<at[1] + 1, at[2] + Len(new)>>]

AllPlaces(ranges) == (1..(Len(ranges) + 1)) \X Nat
IsAll(memory, ranges, pattern, read_size, limit, bad, f) ==
  f = [at \in AllPlaces(ranges) |-> AllStep(memory, ranges, pattern, read_size, limit, bad, f, at)]

LEMMA AllIs ==
  ASSUME NEW memory, NEW ranges, NEW pattern, NEW read_size, NEW limit, NEW bad
  PROVE  Search(memory, ranges, pattern, read_size, limit, bad) =
           (CHOOSE f : IsAll(memory, ranges, pattern, read_size, limit, bad, f))[<<1, 0>>]
BY Zenon DEF Search, IsAll, AllStep, AllPlaces

\* Ranges of the memory that follow each other and how they are searched.
AllSearchable(memory, ranges, pattern, read_size) ==
  /\ ranges \in Seq([from : Nat, to : Nat])
  /\ \A i \in 1..Len(ranges) : Searchable(memory, ranges[i], pattern, read_size)
  /\ \A i, j \in 1..Len(ranges) : i < j => ranges[i].to <= ranges[j].from

LEMMA AllGoesOn ==
  ASSUME NEW memory, NEW ranges, NEW pattern, NEW read_size, NEW limit \in Int, NEW bad \in Int,
         AllSearchable(memory, ranges, pattern, read_size),
         NEW at \in AllPlaces(ranges), ~(at[1] > Len(ranges))
  PROVE  LET new == SearchInRange(memory, ranges[at[1]], pattern, read_size, limit - at[2], bad)
             next == <<at[1] + 1, at[2] + Len(new)>>
         IN /\ new \in Seq(Int) /\ Len(new) \in Nat /\ next \in AllPlaces(ranges)
            /\ at[1] \in 1..Len(ranges) /\ next[1] = at[1] + 1 /\ next[2] = at[2] + Len(new)
            /\ (Len(ranges) + 1) - next[1] < (Len(ranges) + 1) - at[1]
<1>. DEFINE n == Len(ranges)
            r == at[1]
            l == limit - at[2]
            new == SearchInRange(memory, ranges[r], pattern, read_size, l, bad)
            k == Len(new)
            next == <<r + 1, at[2] + k>>
<1>1. n \in Nat
  BY LenProperties DEF AllSearchable
<1>2. r \in 1..(n + 1) /\ at[2] \in Nat
  BY DEF AllPlaces
<1>3. ~(r > n)
  OBVIOUS
<1>4. l \in Int
  BY <1>2
<1>. HIDE DEF n, l
<1>5. r \in 1..n /\ r + 1 \in 1..(n + 1) /\ (n + 1) - (r + 1) < (n + 1) - r
  BY <1>1, <1>2, <1>3
<1>6. Searchable(memory, ranges[r], pattern, read_size)
  BY <1>5 DEF AllSearchable, n
<1>7. new \in Seq(Int)
  BY <1>4, <1>6, SearchFirst
<1>8. k \in Nat
  BY <1>7, LenProperties
<1>. HIDE DEF new, k
<1>9. at[2] + k \in Nat
  BY <1>2, <1>8
<1>10. next \in AllPlaces(ranges)
  BY <1>5, <1>9 DEF AllPlaces, n
<1>11. next[1] = r + 1 /\ next[2] = at[2] + k
  OBVIOUS
<1>. HIDE DEF next, r
<1>12. /\ new \in Seq(Int) /\ k \in Nat /\ next \in AllPlaces(ranges)
       /\ r \in 1..n /\ next[1] = r + 1 /\ next[2] = at[2] + k
       /\ (n + 1) - next[1] < (n + 1) - r
  BY <1>5, <1>7, <1>8, <1>10, <1>11
<1>. QED  BY <1>12 DEF next, new, k, n, l, r

LEMMA AllExists ==
  ASSUME NEW memory, NEW ranges, NEW pattern, NEW read_size, NEW limit \in Int, NEW bad \in Int,
         AllSearchable(memory, ranges, pattern, read_size)
  PROVE  \E f : IsAll(memory, ranges, pattern, read_size, limit, bad, f)
<1>. DEFINE D == AllPlaces(ranges)
            M == Seq(Int)
            n == Len(ranges)
            ends(at) == at[1] > n \/ at[2] = limit
            new(at) == SearchInRange(memory, ranges[at[1]], pattern, read_size, limit - at[2], bad)
            next(at) == <<at[1] + 1, at[2] + Len(new(at))>>
            Value(f, at) == AllStep(memory, ranges, pattern, read_size, limit, bad, f, at)
            measure == [at \in D |-> (n + 1) - at[1]]
            step == [at \in D |-> [f \in [D -> M] |-> Value(f, at)]]
<1>1. n \in Nat
  BY LenProperties DEF AllSearchable
<1>2. \A at \in D : at[1] \in 1..(n + 1)
  BY DEF AllPlaces
<1>3. measure \in [D -> Nat]
  <2>. HIDE DEF D, n
  <2>1. \A at \in D : (n + 1) - at[1] \in Nat
    BY <1>1, <1>2
  <2>. QED  BY <2>1
<1>4. ASSUME NEW at \in D, ~ends(at)
      PROVE  new(at) \in M /\ next(at) \in D /\ measure[next(at)] < measure[at]
  <2>1. /\ new(at) \in M /\ next(at) \in D
        /\ (n + 1) - next(at)[1] < (n + 1) - at[1]
    BY <1>4, AllGoesOn
  <2>. HIDE DEF next, D, n
  <2>. QED  BY <2>1
<1>5. \A f, at : Value(f, at) = IF ends(at) THEN <<>> ELSE new(at) \o f[next(at)]
  BY DEF AllStep
<1>. HIDE DEF D, ends, new, next, Value, measure
<1>6. ASSUME NEW at \in D, NEW f \in [D -> M] PROVE Value(f, at) \in M
  <2>1. CASE ends(at)
    <3>1. Value(f, at) = <<>>
      BY <1>5, <2>1
    <3>. QED  BY <3>1
  <2>2. CASE ~ends(at)
    <3>1. new(at) \in M /\ f[next(at)] \in M
      BY <1>4, <2>2
    <3>2. new(at) \o f[next(at)] \in M
      BY <3>1, ConcatProperties
    <3>. QED  BY <1>5, <2>2, <3>2
  <2>. QED  BY <2>1, <2>2
<1>. HIDE DEF M
<1>7. step \in [D -> [[D -> M] -> M]]
  BY <1>6
<1>8. \A at \in D : \A f \in [D -> M] : step[at][f] = Value(f, at)
  OBVIOUS
<1>. HIDE DEF step
<1>9. ASSUME NEW at \in D, NEW f \in [D -> M], NEW g \in [D -> M],
             \A y \in D : measure[y] < measure[at] => f[y] = g[y]
      PROVE  step[at][f] = step[at][g]
  <2>1. Value(f, at) = Value(g, at)
    <3>1. CASE ends(at)
      BY <1>5, <3>1
    <3>2. CASE ~ends(at)
      <4>1. f[next(at)] = g[next(at)]
        BY <1>4, <1>9, <3>2
      <4>. QED  BY <1>5, <3>2, <4>1
    <3>. QED  BY <3>1, <3>2
  <2>. QED  BY <1>8, <2>1
<1>10. Determined(D, M, measure, step)
  <2>1. <<>> \in M
    BY DEF M
  <2>. QED  BY <1>3, <1>7, <1>9, <2>1 DEF Determined
<1>11. PICK f \in [D -> M] : \A at \in D : f[at] = step[at][f]
  BY <1>10, RecursionDefines
<1>12. f = [at \in D |-> Value(f, at)]
  <2>1. \A at \in D : f[at] = Value(f, at)
    BY <1>8, <1>11
  <2>2. f = [at \in D |-> f[at]]
    OBVIOUS
  <2>. QED  BY <2>1, <2>2
<1>13. IsAll(memory, ranges, pattern, read_size, limit, bad, f)
  BY <1>12, Zenon DEF IsAll, D, Value
<1>. QED  BY <1>13, Zenon

\* Where the pattern is, in the part of a range that can be read.
InRange(memory, range, pattern, read_size, bad) ==
  Between(memory, range, pattern, range.from, Readable(range, read_size, bad))
InLater(memory, ranges, pattern, read_size, bad, i) ==
  {b \in Int : \E j \in 1..Len(ranges) : i <= j /\ b \in InRange(memory, ranges[j], pattern, read_size, bad)}

LEMMA InRangeBound ==
  ASSUME NEW memory, NEW range, NEW pattern, NEW read_size, NEW bad \in Int,
         Searchable(memory, range, pattern, read_size),
         NEW b \in InRange(memory, range, pattern, read_size, bad)
  PROVE  b \in Int /\ range.from <= b /\ b < range.to
<1>. DEFINE m == Len(pattern)
            y == Readable(range, read_size, bad)
<1>1. y \in Int /\ y <= range.to /\ range.from \in Int /\ range.to \in Int
  BY ReadableBound DEF Searchable
<1>2. m \in Nat \ {0}
  BY LenProperties, EmptySeq DEF Searchable
<1>3. b \in range.from..(y - m)
  BY DEF InRange, Between
<1>. HIDE DEF y, m
<1>. QED  BY <1>1, <1>2, <1>3

LEMMA AllFirst ==
  ASSUME NEW memory, NEW ranges, NEW pattern, NEW read_size, NEW limit \in Nat, NEW bad \in Int,
         AllSearchable(memory, ranges, pattern, read_size)
  PROVE  First(InLater(memory, ranges, pattern, read_size, bad, 1), limit,
               Search(memory, ranges, pattern, read_size, limit, bad))
<1>. DEFINE D == AllPlaces(ranges)
            n == Len(ranges)
            f == CHOOSE f : IsAll(memory, ranges, pattern, read_size, limit, bad, f)
            ends(at) == at[1] > n \/ at[2] = limit
            new(at) == SearchInRange(memory, ranges[at[1]], pattern, read_size, limit - at[2], bad)
            next(at) == <<at[1] + 1, at[2] + Len(new(at))>>
            one(i) == InRange(memory, ranges[i], pattern, read_size, bad)
            later(i) == InLater(memory, ranges, pattern, read_size, bad, i)
            measure == [at \in D |-> (n + 1) - at[1]]
            T == {at \in D : at[2] <= limit => First(later(at[1]), limit - at[2], f[at])}
<1>1. n \in Nat
  BY LenProperties DEF AllSearchable
<1>2. \A at \in D : at[1] \in 1..(n + 1) /\ at[2] \in Nat
  BY DEF AllPlaces
<1>3. measure \in [D -> Nat]
  <2>. HIDE DEF D, n
  <2>1. \A at \in D : (n + 1) - at[1] \in Nat
    BY <1>1, <1>2
  <2>. QED  BY <2>1
<1>4. IsAll(memory, ranges, pattern, read_size, limit, bad, f)
  <2>1. \E g : IsAll(memory, ranges, pattern, read_size, limit, bad, g)
    BY AllExists
  <2>. QED  BY <2>1, Zenon
<1>5. Search(memory, ranges, pattern, read_size, limit, bad) = f[<<1, 0>>]
  BY AllIs
<1>. HIDE DEF f
<1>6. \A at \in D : f[at] = IF ends(at) THEN <<>> ELSE new(at) \o f[next(at)]
  <2>1. f = [at \in D |-> AllStep(memory, ranges, pattern, read_size, limit, bad, f, at)]
    BY <1>4, Zenon DEF IsAll
  <2>2. \A at \in D : f[at] = AllStep(memory, ranges, pattern, read_size, limit, bad, f, at)
    <3>. HIDE DEF D
    <3>. QED  BY <2>1
  <2>. QED  BY <2>2, Zenon DEF AllStep
<1>7. ASSUME NEW at \in D, ~ends(at)
      PROVE  /\ new(at) \in Seq(Int) /\ Len(new(at)) \in Nat /\ next(at) \in D
             /\ at[1] \in 1..n /\ next(at)[1] = at[1] + 1 /\ next(at)[2] = at[2] + Len(new(at))
             /\ measure[next(at)] < measure[at]
             /\ at[2] <= limit => First(one(at[1]), limit - at[2], new(at))
  <2>1. /\ new(at) \in Seq(Int) /\ Len(new(at)) \in Nat /\ next(at) \in D
        /\ at[1] \in 1..n /\ next(at)[1] = at[1] + 1 /\ next(at)[2] = at[2] + Len(new(at))
        /\ (n + 1) - next(at)[1] < (n + 1) - at[1]
    BY <1>7, AllGoesOn
  <2>2. measure[next(at)] < measure[at]
    <3>. HIDE DEF next, D, n
    <3>. QED  BY <2>1
  <2>3. ASSUME at[2] <= limit PROVE First(one(at[1]), limit - at[2], new(at))
    <3>. DEFINE l == limit - at[2]
    <3>1. l \in Int /\ l >= 0
      BY <1>2, <2>3
    <3>2. Searchable(memory, ranges[at[1]], pattern, read_size)
      BY <2>1 DEF AllSearchable
    <3>. HIDE DEF l
    <3>3. First(one(at[1]), l, SearchInRange(memory, ranges[at[1]], pattern, read_size, l, bad))
      BY <3>1, <3>2, SearchFirst DEF InRange
    <3>. QED  BY <3>3 DEF l
  <2>. QED  BY <2>1, <2>2, <2>3
<1>8. ASSUME NEW i \in 1..n PROVE \A b \in one(i) : b \in Int /\ ranges[i].from <= b /\ b < ranges[i].to
  <2>1. Searchable(memory, ranges[i], pattern, read_size)
    BY DEF AllSearchable
  <2>. QED  BY <2>1, InRangeBound
<1>9. \A i : later(i) = {b \in Int : \E j \in 1..n : i <= j /\ b \in one(j)}
  BY DEF InLater
<1>10. \A i, j \in 1..n : /\ ranges[i].to \in Int /\ ranges[i].from \in Int
                          /\ i < j => ranges[i].to <= ranges[j].from
  <2>1. ASSUME NEW i \in 1..n PROVE ranges[i].to \in Int /\ ranges[i].from \in Int
    <3>1. Searchable(memory, ranges[i], pattern, read_size)
      BY DEF AllSearchable
    <3>. QED  BY <3>1 DEF Searchable
  <2>2. \A i, j \in 1..n : i < j => ranges[i].to <= ranges[j].from
    BY DEF AllSearchable
  <2>. QED  BY <2>1, <2>2
<1>. HIDE DEF D, n, ends, new, next, one, later, measure
<1>11. ASSUME NEW i \in 1..n
       PROVE  /\ later(i) = one(i) \cup later(i + 1)
              /\ \A x \in one(i) : \A y \in later(i + 1) : x < y
  <2>1. \A j \in 1..n : i <= j <=> j = i \/ i + 1 <= j
    BY <1>1
  <2>2. later(i) = one(i) \cup later(i + 1)
    <3>1. \A b : b \in later(i) <=> b \in one(i) \/ b \in later(i + 1)
      BY <1>8, <1>9, <2>1
    <3>. QED  BY <3>1
  <2>3. ASSUME NEW x \in one(i), NEW y \in later(i + 1) PROVE x < y
    <3>1. PICK j \in 1..n : i + 1 <= j /\ y \in one(j)
      BY <1>9
    <3>2. i < j
      BY <1>1, <3>1
    <3>3. x \in Int /\ x < ranges[i].to /\ y \in Int /\ ranges[j].from <= y
      BY <1>8, <3>1
    <3>4. ranges[i].to <= ranges[j].from /\ ranges[i].to \in Int /\ ranges[j].from \in Int
      BY <1>10, <3>1, <3>2
    <3>. QED  BY <3>3, <3>4
  <2>. QED  BY <2>2, <2>3
<1>12. ASSUME NEW at \in D, \A y \in D : measure[y] < measure[at] => y \in T PROVE at \in T
  <2>. DEFINE i == at[1]
              l == limit - at[2]
  <2>1. i \in 1..(n + 1) /\ at[2] \in Nat /\ l \in Int /\ (at[2] <= limit => l \in Nat)
    BY <1>2
  <2>. SUFFICES ASSUME at[2] <= limit PROVE First(later(i), l, f[at])
    OBVIOUS
  <2>2. CASE i > n
    <3>1. later(i) = {}
      <4>1. \A j \in 1..n : ~(i <= j)
        BY <1>1, <2>1, <2>2
      <4>. QED  BY <1>9, <4>1
    <3>2. f[at] = <<>>
      BY <1>6, <2>2 DEF ends
    <3>. QED  BY <2>1, <3>1, <3>2, FirstOfNone
  <2>3. CASE at[2] = limit
    <3>1. f[at] = <<>> /\ l = 0
      BY <1>6, <2>1, <2>3 DEF ends
    <3>2. 0 \in Nat
      OBVIOUS
    <3>. QED  BY <3>1, <3>2, FirstOfNone
  <2>4. CASE ~ends(at)
    <3>. DEFINE r == new(at)
                t == f[next(at)]
                S1 == one(i)
                S2 == later(i + 1)
    <3>1. f[at] = r \o t
      BY <1>6, <2>4
    <3>2. /\ r \in Seq(Int) /\ Len(r) \in Nat /\ next(at) \in D /\ i \in 1..n
          /\ next(at)[1] = i + 1 /\ next(at)[2] = at[2] + Len(r)
          /\ measure[next(at)] < measure[at]
          /\ First(S1, l, r)
      BY <1>7, <2>4
    <3>3. next(at) \in T
      BY <1>12, <3>2
    <3>4. Len(r) <= l
      BY <3>2 DEF First
    <3>5. next(at)[2] <= limit /\ limit - next(at)[2] = l - Len(r)
      <4>. DEFINE k == Len(r)
      <4>1. k \in Nat /\ k <= limit - at[2] /\ next(at)[2] = at[2] + k
        BY <3>2, <3>4
      <4>. HIDE DEF k
      <4>2. next(at)[2] <= limit /\ limit - next(at)[2] = l - k
        BY <2>1, <4>1
      <4>. QED  BY <4>2 DEF k
    <3>6. First(S2, l - Len(r), t)
      <4>1. First(later(next(at)[1]), limit - next(at)[2], f[next(at)])
        BY <3>3, <3>5
      <4>. QED  BY <3>2, <3>5, <4>1
    <3>7. later(i) = S1 \cup S2 /\ \A x \in S1 : \A y \in S2 : x < y
      BY <1>11, <3>2
    <3>8. S1 \in SUBSET Int /\ S2 \in SUBSET Int
      BY <1>8, <1>9, <3>2
    <3>. HIDE DEF S1, S2, l, r, t
    <3>9. First(S1 \cup S2, l, r \o t)
      BY <2>1, <3>2, <3>6, <3>7, <3>8, FirstOfBoth
    <3>. QED  BY <3>1, <3>7, <3>9
  <2>. QED  BY <2>2, <2>3, <2>4 DEF ends
<1>13. D \subseteq T
  <2>. HIDE DEF T
  <2>. QED  BY <1>3, <1>12, MeasureInduction
<1>14. <<1, 0>> \in D
  <2>1. 1 \in 1..(n + 1) /\ 0 \in Nat
    BY <1>1
  <2>. QED  BY <2>1 DEF D, AllPlaces, n
<1>15. <<1, 0>> \in T /\ <<1, 0>>[1] = 1 /\ <<1, 0>>[2] = 0 /\ 0 <= limit /\ limit - 0 = limit
  BY <1>13, <1>14
<1>16. First(later(1), limit, f[<<1, 0>>])
  BY <1>15
<1>. QED  BY <1>5, <1>16 DEF later

\* The places that the search is to report are those of the ranges in turn.
LEMMA OccurrencesInTurn ==
  ASSUME NEW memory, NEW ranges, NEW pattern, NEW read_size, NEW bad \in Int,
         AllSearchable(memory, ranges, pattern, read_size), DOMAIN memory \subseteq Nat,
         pattern \in Seq(Nat) \ {<<>>}
  PROVE  Occurrences(memory, ranges, pattern, read_size, bad) =
           InLater(memory, ranges, pattern, read_size, bad, 1)
<1>. DEFINE n == Len(ranges)
            m == Len(pattern)
            end(r) == Readable(r, read_size, bad)
            held(b) == \A i \in 1..m : memory[b + i - 1] = pattern[i]
            one(j) == InRange(memory, ranges[j], pattern, read_size, bad)
            all == Occurrences(memory, ranges, pattern, read_size, bad)
            later == InLater(memory, ranges, pattern, read_size, bad, 1)
<1>1. n \in Nat /\ DOMAIN ranges = 1..n
  BY LenProperties DEF AllSearchable
<1>2. m \in Nat \ {0} /\ DOMAIN pattern = 1..m
  BY LenProperties, EmptySeq
<1>3. \A b : b \in all <=>
             b \in DOMAIN memory /\ \E r \in ToSet(ranges) : r.from <= b /\ b + m <= end(r) /\ held(b)
  BY <1>2 DEF Occurrences
<1>4. ToSet(ranges) = {ranges[j] : j \in 1..n}
  BY <1>1 DEF ToSet
<1>5. \A b : b \in later <=> b \in Int /\ \E j \in 1..n : 1 <= j /\ b \in one(j)
  BY DEF InLater
<1>6. ASSUME NEW j \in 1..n
      PROVE  /\ Searchable(memory, ranges[j], pattern, read_size)
             /\ ranges[j].from \in Nat /\ ranges[j].to \in Nat /\ end(ranges[j]) \in Int
             /\ ranges[j].from..(ranges[j].to - 1) \subseteq DOMAIN memory
             /\ \A b \in one(j) : b \in Int /\ ranges[j].from <= b /\ b < ranges[j].to
  <2>1. Searchable(memory, ranges[j], pattern, read_size)
    BY DEF AllSearchable
  <2>2. end(ranges[j]) \in Int
    BY <2>1, ReadableBound
  <2>3. \A b \in one(j) : b \in Int /\ ranges[j].from <= b /\ b < ranges[j].to
    BY <2>1, InRangeBound
  <2>. QED  BY <2>1, <2>2, <2>3 DEF Searchable
<1>7. ASSUME NEW j \in 1..n, NEW b
      PROVE  b \in one(j) <=> /\ b \in ranges[j].from..(end(ranges[j]) - m)
                              /\ b + m > ranges[j].from /\ held(b)
  BY DEF InRange, Between
<1>. HIDE DEF n, m, end, held, one, all, later
<1>8. ASSUME NEW b \in all PROVE b \in later
  <2>1. b \in Nat
    BY <1>3
  <2>2. PICK j \in 1..n : ranges[j].from <= b /\ b + m <= end(ranges[j]) /\ held(b)
    BY <1>3, <1>4
  <2>. DEFINE low == ranges[j].from
              high == end(ranges[j])
  <2>3. low \in Nat /\ high \in Int /\ low <= b /\ b + m <= high
    BY <1>6, <2>2
  <2>. HIDE DEF low, high
  <2>4. b \in low..(high - m) /\ b + m > low
    BY <1>2, <2>1, <2>3
  <2>5. b \in one(j)
    BY <1>7, <2>2, <2>4 DEF low, high
  <2>6. 1 <= j
    BY <1>1
  <2>. QED  BY <1>5, <2>1, <2>5, <2>6
<1>9. ASSUME NEW b \in later PROVE b \in all
  <2>1. PICK j \in 1..n : b \in one(j)
    BY <1>5
  <2>. DEFINE low == ranges[j].from
              high == end(ranges[j])
              to == ranges[j].to
  <2>2. /\ low \in Nat /\ high \in Int /\ to \in Nat /\ b \in Int /\ low <= b /\ b < to
        /\ low..(to - 1) \subseteq DOMAIN memory
    BY <1>6, <2>1
  <2>3. b \in low..(high - m) /\ held(b)
    BY <1>7, <2>1
  <2>. HIDE DEF low, high, to
  <2>4. b \in low..(to - 1)
    BY <2>2
  <2>5. b \in DOMAIN memory
    BY <2>2, <2>4
  <2>6. low <= b /\ b + m <= high
    BY <1>2, <2>2, <2>3
  <2>7. ranges[j] \in ToSet(ranges)
    BY <1>4
  <2>. QED  BY <1>3, <2>3, <2>5, <2>6, <2>7 DEF low, high
<1>10. all = later
  BY <1>8, <1>9
<1>. QED  BY <1>10 DEF all, later

\* What the command reports of a job.
SearchAnswered(x, v) ==
  FirstOccurrences(Occurrences(x.memory, v.ranges, x.pattern, x.read_size, x.bad),
                   x.limit, v.found)

LEMMA SearchAnswer ==
  ASSUME NEW x \in SearchJobs, NEW v, NEW ranges, NEW found,
         ranges = Ranges(SortByStart(x.blocks), x.start, x.end),
         found = Search(x.memory, ranges, x.pattern, x.read_size, x.limit, x.bad),
         v = [ranges |-> ranges, found |-> found]
  PROVE  SearchAnswered(x, v)
<1>. DEFINE map == SortByStart(x.blocks)
            n == Len(ranges)
            all == Occurrences(x.memory, ranges, x.pattern, x.read_size, x.bad)
            low == x.start
            high == x.end
<1>1. /\ x.memory \in [DOMAIN x.memory -> Nat] /\ DOMAIN x.memory \subseteq Nat
      /\ x.pattern \in Seq(Nat) \ {<<>>}
      /\ low \in Nat /\ high \in Nat /\ low..(high - 1) \subseteq DOMAIN x.memory
      /\ x.blocks \in Seq(MapBlock) /\ ~MapRefused(x.blocks)
      /\ x.read_size \in Nat \ {0} /\ x.limit \in Nat /\ x.bad \in Int
  BY SearchJobsAssumption
<1>2. Ordered(map)
  <2>1. PICK p : Sorts(map, x.blocks, p)
    BY <1>1, SortSorts
  <2>. HIDE DEF map
  <2>2. ~Overlapping(map)
    BY <1>1, <2>1, OverlapIsShared
  <2>. QED  BY <2>1, <2>2 DEF Ordered, Sorts
<1>3. InTurn(ranges, low, high)
  <2>. HIDE DEF map
  <2>1. InTurn(Ranges(map, low, high), low, high)
    BY <1>1, <1>2, RangesInTurn
  <2>. QED  BY <2>1 DEF map
<1>4. /\ ranges \in Seq([from : Nat, to : Nat])
      /\ \A i \in 1..n : low <= ranges[i].from /\ ranges[i].from < ranges[i].to /\ ranges[i].to <= high
      /\ \A i, j \in 1..n : i < j => ranges[i].to <= ranges[j].from
  BY <1>3 DEF InTurn
<1>5. n \in Nat /\ \A i \in 1..n : ranges[i] \in [from : Nat, to : Nat]
  BY <1>4, LenProperties
<1>6. ASSUME NEW i \in 1..n PROVE Searchable(x.memory, ranges[i], x.pattern, x.read_size)
  <2>. DEFINE b == ranges[i].from
              e == ranges[i].to
  <2>1. b \in Nat /\ e \in Nat
    <3>1. ranges[i] \in [from : Nat, to : Nat]
      BY <1>5
    <3>. QED  BY <3>1
  <2>2. low <= b /\ b < e /\ e <= high
    BY <1>4
  <2>. HIDE DEF b, e, low, high
  <2>3. b..(e - 1) \subseteq low..(high - 1) /\ b <= e
    BY <1>1, <2>1, <2>2
  <2>4. b..(e - 1) \subseteq DOMAIN x.memory
    BY <1>1, <2>3
  <2>. QED  BY <1>1, <2>1, <2>3, <2>4 DEF Searchable, b, e
<1>7. AllSearchable(x.memory, ranges, x.pattern, x.read_size)
  BY <1>4, <1>6 DEF AllSearchable
<1>. DEFINE later == InLater(x.memory, ranges, x.pattern, x.read_size, x.bad, 1)
<1>8. all = later
  BY <1>1, <1>7, OccurrencesInTurn
<1>9. First(later, x.limit, Search(x.memory, ranges, x.pattern, x.read_size, x.limit, x.bad))
  BY <1>1, <1>7, AllFirst
<1>10. later \subseteq Int
  BY DEF InLater
<1>11. IsFiniteSet(later)
  <2>1. ASSUME NEW b \in later PROVE b \in low..high
    <3>1. PICK j \in 1..n : b \in InRange(x.memory, ranges[j], x.pattern, x.read_size, x.bad)
      BY DEF InLater
    <3>. DEFINE f == ranges[j].from
                e == ranges[j].to
    <3>2. b \in Int /\ f <= b /\ b < e
      BY <1>1, <1>6, <3>1, InRangeBound
    <3>3. low <= f /\ e <= high /\ f \in Nat /\ e \in Nat
      <4>1. ranges[j] \in [from : Nat, to : Nat]
        BY <1>5
      <4>. QED  BY <1>4, <4>1
    <3>. HIDE DEF f, e, low, high
    <3>. QED  BY <1>1, <3>2, <3>3
  <2>. HIDE DEF later
  <2>2. later \subseteq low..high
    BY <2>1
  <2>3. IsFiniteSet(low..high)
    <3>1. low \in Int /\ high \in Int
      BY <1>1
    <3>. HIDE DEF low, high
    <3>. QED  BY <3>1, FS_Interval
  <2>. QED  BY <2>2, <2>3, FS_Subset
<1>. HIDE DEF later, all
<1>12. FirstOccurrences(later, x.limit, found)
  BY <1>1, <1>9, <1>10, <1>11, FirstIsFirst
<1>13. v.ranges = ranges /\ v.found = found
  OBVIOUS
<1>14. FirstOccurrences(all, x.limit, found)
  BY <1>8, <1>12
<1>. QED  BY <1>13, <1>14, Zenon DEF SearchAnswered, all

\* The search reports the first matches in the ranges of the map, each once and
\* as many as asked for, however the reads divide the ranges, and in a range up
\* to the read that fails (cli_commands/search-memory.py, _search_in_range).
THEOREM FirstMatchesFound == HostSpec => []FoundExactly
<1>0. /\ FoundExactly <=> (Answered("search") => SearchAnswered(job.call, answer.value))
      /\ FoundExactly' <=> (answer'.done /\ job'.kind = "search"
                              => SearchAnswered(job'.call, answer'.value))
  BY DEF FoundExactly, SearchAnswered, Answered, a, c
<1>1. HostInit => FoundExactly
  BY DEF HostInit, FoundExactly, Answered
<1>2. JobInv /\ FoundExactly /\ [HostNext]_hostVars => FoundExactly'
  <2>. SUFFICES ASSUME JobInv, FoundExactly, [HostNext]_hostVars PROVE FoundExactly'
    OBVIOUS
  <2>1. CASE answer' = answer
    BY <1>0, <2>1, JobStep DEF Answered
  <2>2. CASE SearchMemory /\ JobOf("search")
    <3>. DEFINE x == job.call
                ranges == Ranges(SortByStart(x.blocks), x.start, x.end)
                found == Search(x.memory, ranges, x.pattern, x.read_size, x.limit, x.bad)
    <3>1. x \in SearchJobs /\ job' = job
      BY <2>2, JobStep DEF JobOf, JobsOf
    <3>2. answer'.value = [ranges |-> ranges, found |-> found]
      <4>1. answer' = [done |-> TRUE, value |-> [ranges |-> ranges, found |-> found]]
        BY <2>2, Zenon DEF SearchMemory, Answer, c
      <4>. QED  BY <4>1
    <3>. HIDE DEF x
    <3>3. SearchAnswered(x, answer'.value)
      BY <3>1, <3>2, SearchAnswer
    <3>. QED  BY <1>0, <3>1, <3>3, Zenon DEF x
  <2>3. ASSUME job.kind # "search" PROVE FoundExactly'
    BY <1>0, <2>3, JobStep
  <2>. QED  BY <2>1, <2>2, <2>3, JobStep DEF JobOf
<1>. QED  BY JobInit, JobStep, <1>1, <1>2, PTL DEF HostSpec
==============================================================================
