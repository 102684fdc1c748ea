------------------------ MODULE UmdTransport_proofs ------------------------
(***************************************************************************)
(* Theorems about UmdTransport for any number of threads and devices, any  *)
(* list of Ethernet cores and any bounds.                                  *)
(***************************************************************************)
EXTENDS UmdTransport, FiniteSetTheorems, TLAPS

---------------------------------------------------------------------------
(* The inductive invariant.                                                *)

Notes == [since : 0 .. MaxResets, good : SUBSET Eths, disturbed : BOOLEAN, excused : BOOLEAN]

HistoryTypeOK == note \in [Threads -> Notes] /\ renewed \in [Devices -> 0 .. MaxResets]

\* No handle is newer than the last reset, or older than was promised.
HandlesOK == \A d \in Devices : handle[d] <= epoch /\ renewed[d] <= handle[d]

\* What a call is about at each step.
CallOK(t) ==
  /\ pc[t] # "idle" => call[t].op \in Operations /\ call[t].dev \in Devices
  /\ pc[t] \in {"probe", "access_again"} => call[t].dev \in Remote
  /\ pc[t] = "probe" => call[t].next_eth \in 1 .. Len(EthCores)

\* The holder of reset_lock assigns handles as new as any that was promised.
\* When no stranger is among the discovered devices, those that it has passed
\* have got theirs.
AssignOK(t) ==
  pc[t] = "assign" =>
    /\ note[t].since <= call[t].found_epoch /\ call[t].found_epoch <= epoch
    /\ \A d \in Devices :
         /\ renewed[d] <= call[t].found_epoch
         /\ Stranger \notin call[t].found /\ d \notin call[t].found
              => handle[d] = call[t].found_epoch

\* The device of a bar0 access that is repeated was renewed during the call.
RepeatOK(t) ==
  /\ note[t].since <= epoch
  /\ pc[t] # "idle" /\ call[t].op = "bar0" /\ call[t].again
       => note[t].since <= renewed[call[t].dev]

\* A device with MMIO is searched for, or meets a stranger, only after
\* something has failed by itself.
ExcusedOK(t) ==
  call[t].dev \in Local =>
    /\ pc[t] = "search" => note[t].excused
    /\ pc[t] = "assign" /\ Stranger \in call[t].found => note[t].excused

\* A search that nothing has disturbed accesses the device through the core it
\* has selected, and each core that it has passed has failed since it began.
SearchOK(t) ==
  pc[t] \in {"search", "probe"} /\ call[t].dev \in Remote /\ ~note[t].disturbed =>
    /\ handle[call[t].dev] = epoch
    /\ note[t].good \subseteq working
    /\ \A j \in 1 .. Len(EthCores) : j < call[t].next_eth => EthOrder[j] \notin note[t].good
    /\ pc[t] = "probe" => eth[call[t].dev] = EthOrder[call[t].next_eth]

\* The properties, of one thread.
SigbusOK(t) == ended[t].how = "sigbus" => ended[t].op = "bar0" /\ epoch > note[t].since
FoundOK(t) ==
  ended[t].how = "unconfigured" /\ ended[t].dev \in Remote => note[t].good = {} \/ note[t].disturbed
RecoveredOK(t) ==
  ended[t].dev \in Local /\ ended[t].how \in {"timeout", "error", "unconfigured", "discovery"}
    => note[t].excused
EndedOK(t) ==
  /\ SigbusOK(t) /\ FoundOK(t) /\ RecoveredOK(t)
  /\ pc[t] # "idle" => ended[t] = Nothing

ThreadOK(t) ==
  CallOK(t) /\ AssignOK(t) /\ RepeatOK(t) /\ ExcusedOK(t) /\ SearchOK(t) /\ EndedOK(t)

IInv == TypeOK /\ HistoryTypeOK /\ HandlesOK /\ \A t \in Threads : ThreadOK(t)
---------------------------------------------------------------------------
(* Operators.                                                              *)

\* The search goes through all the Ethernet cores, each at a place of its own
\* or not.
LEMMA EthOrderOK ==
  /\ Len(EthCores) \in Nat \ {0}
  /\ EthOrder \in Seq(Eths) /\ Len(EthOrder) = Len(EthCores)
  /\ \A e \in Eths : \E j \in 1 .. Len(EthCores) : EthOrder[j] = e
<1>1. EthCores \in Seq(Eths) /\ EthCores # <<>> /\ Len(EthCores) \in Nat \ {0}
  BY TransportAssumption
<1>2. \A e \in Eths : \E j \in 1 .. Len(EthCores) : EthCores[j] = e
  BY <1>1 DEF Eths, Range
<1>3. CASE N300 /\ Len(EthCores) > 1
  <2>. DEFINE n == Len(EthCores)
  <2>1. EthOrder = Append(Tail(EthCores), Head(EthCores))
    BY <1>3 DEF EthOrder
  <2>2. Tail(EthCores) \in Seq(Eths) /\ Len(Tail(EthCores)) = n - 1 /\ Head(EthCores) \in Eths
        /\ Head(EthCores) = EthCores[1]
        /\ \A j \in 1 .. n - 1 : Tail(EthCores)[j] = EthCores[j + 1]
    BY <1>1
  <2>3. EthOrder \in Seq(Eths) /\ Len(EthOrder) = n
    BY <1>1, <2>1, <2>2
  <2>4. EthOrder[n] = EthCores[1] /\ \A j \in 1 .. n - 1 : EthOrder[j] = EthCores[j + 1]
    BY <1>1, <2>1, <2>2
  <2>5. ASSUME NEW e \in Eths PROVE \E j \in 1 .. n : EthOrder[j] = e
    <3>1. PICK j \in 1 .. n : EthCores[j] = e
      BY <1>2
    <3>2. CASE j = 1
      BY <1>1, <2>4, <3>1, <3>2
    <3>3. CASE j # 1
      <4>1. j - 1 \in 1 .. n - 1 /\ (j - 1) + 1 = j
        BY <1>1, <3>3
      <4>2. EthOrder[j - 1] = e /\ j - 1 \in 1 .. n
        BY <1>1, <2>4, <3>1, <4>1
      <4>. QED  BY <4>2
    <3>. QED  BY <3>2, <3>3
  <2>. QED  BY <1>1, <2>3, <2>5
<1>4. CASE ~(N300 /\ Len(EthCores) > 1)
  BY <1>1, <1>2, <1>4 DEF EthOrder
<1>. QED  BY <1>3, <1>4

LEMMA LenEth == Len(EthCores) \in Nat \ {0}
BY EthOrderOK

\* A device with MMIO has no cores to search through, a remote one has all of them.
LEMMA CoresOf ==
  ASSUME NEW d \in Devices
  PROVE  /\ d \in Local => Len(Cores(d)) = 0
         /\ d \in Remote => Cores(d) = EthOrder /\ Len(Cores(d)) = Len(EthCores)
BY EthOrderOK, TransportAssumption DEF Cores

\* What an answer of UMD tells of the device.
LEMMA AnswerMeans ==
  ASSUME HandlesOK, epoch \in Nat, handle \in [Devices -> Nat],
         NEW t \in Threads, call[t].dev \in Devices, NEW answer \in Answers(t)
  PROVE  /\ answer = "sigbus" => handle[call[t].dev] < epoch
         /\ answer # "sigbus" => handle[call[t].dev] = epoch
         /\ answer = "timeout" => ByItself(t, answer)
         /\ answer = "error" => ByItself(t, answer)
                                \/ (call[t].dev \in Remote /\ eth[call[t].dev] \notin working)
         /\ ByItself(t, answer) => faults < MaxFaults
<1>. DEFINE d == call[t].dev
<1>1. CASE handle[d] < epoch
  BY <1>1 DEF Answers, ByItself, Sound
<1>2. CASE ~(handle[d] < epoch)
  <2>1. handle[d] = epoch
    BY <1>2 DEF HandlesOK
  <2>2. CASE Sound(d)
    BY <1>2, <2>1, <2>2 DEF Answers, ByItself
  <2>3. CASE ~Sound(d)
    BY <1>2, <2>1, <2>3 DEF Answers, ByItself, Sound
  <2>. QED  BY <2>2, <2>3
<1>. QED  BY <1>1, <1>2

\* What an access leaves in the history of its call.
LEMMA AttemptNote ==
  ASSUME HistoryTypeOK, MaxResets \in Nat, NEW t \in Threads, NEW answer, NEW newnote \in Notes,
         Attempt(t, answer, newnote)
  PROVE  /\ note' \in [Threads -> Notes]
         /\ \A s \in Threads : s # t => note'[s] = note[s]
         /\ answer # "ok" \/ pc[t] = "probe" =>
              /\ note'[t].since = newnote.since
              /\ newnote.excused => note'[t].excused
         /\ answer # "ok" =>
              /\ note'[t].good = newnote.good /\ note'[t].disturbed = newnote.disturbed
              /\ ByItself(t, answer) /\ call[t].dev \in Local => note'[t].excused
         /\ answer = "ok" /\ pc[t] # "probe" => note'[t] = NoNote
<1>1. NoNote \in Notes
  BY DEF NoNote, Notes
<1>. DEFINE new == IF answer # "ok"
                   THEN [newnote EXCEPT !.excused =
                           @ \/ (ByItself(t, answer) /\ call[t].dev \in Local)]
                   ELSE IF pc[t] = "probe"
                        THEN [NoNote EXCEPT !.since = newnote.since, !.excused = newnote.excused]
                        ELSE NoNote
<1>2. note' = [note EXCEPT ![t] = new]
  BY DEF Attempt
<1>3. new \in Notes
  BY <1>1 DEF Notes
<1>4. /\ answer # "ok" \/ pc[t] = "probe" =>
           new.since = newnote.since /\ (newnote.excused => new.excused)
      /\ answer # "ok" =>
           /\ new.good = newnote.good /\ new.disturbed = newnote.disturbed
           /\ ByItself(t, answer) /\ call[t].dev \in Local => new.excused
      /\ answer = "ok" /\ pc[t] # "probe" => new = NoNote
  BY DEF Notes, NoNote
<1>. HIDE DEF new
<1>. QED  BY <1>2, <1>3, <1>4 DEF HistoryTypeOK
---------------------------------------------------------------------------
(* Types.                                                                  *)

\* The types by kind of variable.
WorldTypes ==
  /\ epoch \in 0 .. MaxResets /\ working \in SUBSET Eths
  /\ faults \in 0 .. MaxFaults /\ link_changes \in 0 .. MaxLinkChanges
  /\ calls \in 0 .. MaxCalls
SharedTypes ==
  /\ handle \in [Devices -> 0 .. MaxResets] /\ eth \in [Remote -> Eths]
  /\ lock \in Threads \cup {"free"}
  /\ \A t \in Threads : lock = t <=> pc[t] \in {"discover", "assign"}
ControlTypes ==
  /\ pc \in [Threads -> {"idle", "access", "access_again", "search", "probe", "lock",
                         "discover", "assign"}]
  /\ call \in [Threads -> Calls] /\ ended \in [Threads -> Endings]

LEMMA TypesByKind == TypeOK <=> WorldTypes /\ SharedTypes /\ ControlTypes
BY DEF TypeOK, WorldTypes, SharedTypes, ControlTypes

LEMMA NoCallType == NoCall \in Calls /\ Nothing \in Endings /\ NoNote \in Notes
BY EthOrderOK, TransportAssumption DEF NoCall, Calls, Nothing, Endings, NoNote, Notes, Outcomes

\* Where a step leaves the thread that takes it, and the others.
LEMMA GotoEffect ==
  ASSUME ControlTypes, NEW t \in Threads, NEW newcall \in Calls,
         NEW step \in {"access", "access_again", "search", "probe", "lock", "discover", "assign"},
         Goto(t, step, newcall)
  PROVE  /\ ControlTypes' /\ pc'[t] = step /\ call'[t] = newcall /\ ended'[t] = ended[t]
         /\ \A s \in Threads : s # t => pc'[s] = pc[s] /\ call'[s] = call[s] /\ ended'[s] = ended[s]
BY DEF Goto, ControlTypes

LEMMA EndEffect ==
  ASSUME ControlTypes, NEW t \in Threads,
         NEW how \in Outcomes \cup {"unconfigured", "discovery"}, End(t, how)
  PROVE  /\ ControlTypes' /\ pc'[t] = "idle" /\ call'[t] = NoCall
         /\ ended'[t] = IF how = "ok" THEN Nothing
                        ELSE [op |-> call[t].op, dev |-> call[t].dev, how |-> how]
         /\ \A s \in Threads : s # t => pc'[s] = pc[s] /\ call'[s] = call[s] /\ ended'[s] = ended[s]
<1>. DEFINE new == IF how = "ok" THEN Nothing
                   ELSE [op |-> call[t].op, dev |-> call[t].dev, how |-> how]
<1>1. new \in Endings
  BY NoCallType DEF ControlTypes, Calls, Endings
<1>. HIDE DEF new
<1>2. pc' = [pc EXCEPT ![t] = "idle"] /\ call' = [call EXCEPT ![t] = NoCall]
      /\ ended' = [ended EXCEPT ![t] = new]
  BY DEF End, new
<1>3. ControlTypes' /\ pc'[t] = "idle" /\ call'[t] = NoCall /\ ended'[t] = new
  BY <1>1, <1>2, NoCallType DEF ControlTypes
<1>4. \A s \in Threads : s # t => pc'[s] = pc[s] /\ call'[s] = call[s] /\ ended'[s] = ended[s]
  BY <1>2 DEF ControlTypes
<1>. QED  BY <1>3, <1>4 DEF new

\* What follows an access: the caller, or a re-initialization.
LEMMA FinishEffect ==
  ASSUME ControlTypes, NEW t \in Threads, NEW answer \in Outcomes, Finish(t, answer)
  PROVE  /\ ControlTypes' /\ pc'[t] \in {"idle", "lock"}
         /\ pc'[t] = "lock" =>
              answer = "sigbus" /\ call'[t] = call[t] /\ ended'[t] = ended[t]
         /\ pc'[t] = "idle" =>
              /\ call'[t] = NoCall
              /\ ended'[t] = IF answer = "ok" THEN Nothing
                             ELSE [op |-> call[t].op, dev |-> call[t].dev, how |-> answer]
              /\ answer = "sigbus" => call[t].op = "bar0" /\ call[t].again
         /\ \A s \in Threads : s # t => pc'[s] = pc[s] /\ call'[s] = call[s] /\ ended'[s] = ended[s]
<1>1. call[t] \in Calls
  BY DEF ControlTypes
<1>2. CASE answer = "sigbus" /\ Recovers(call[t].op, call[t].again)
  <2>1. Goto(t, "lock", call[t])
    BY <1>2 DEF Finish
  <2>. QED  BY <1>1, <1>2, <2>1, GotoEffect
<1>3. CASE ~(answer = "sigbus" /\ Recovers(call[t].op, call[t].again))
  <2>1. End(t, answer)
    BY <1>3 DEF Finish
  <2>2. answer = "sigbus" => call[t].op = "bar0" /\ call[t].again
    BY <1>3 DEF Recovers
  <2>. QED  BY <2>1, <2>2, EndEffect
<1>. QED  BY <1>2, <1>3

\* The steps that move a core or a handle mark the searches of other threads.
LEMMA DisturbEffect ==
  ASSUME HistoryTypeOK, NEW t \in Threads, NEW d \in Devices, note' = Disturb(t, d)
  PROVE  /\ note' \in [Threads -> Notes]
         /\ \A s \in Threads :
              /\ note'[s].since = note[s].since /\ note'[s].good = note[s].good
              /\ note'[s].excused = note[s].excused
              /\ note[s].disturbed => note'[s].disturbed
              /\ s # t /\ call[s].dev = d /\ pc[s] \in {"search", "probe"} => note'[s].disturbed
              /\ s = t => note'[s] = note[s]
<1>. DEFINE mark(s) == s # t /\ call[s].dev = d /\ pc[s] \in {"search", "probe"}
<1>1. \A s \in Threads : note'[s] = [note[s] EXCEPT !.disturbed = @ \/ mark(s)]
  BY DEF Disturb
<1>2. DOMAIN note' = Threads /\ note' = [s \in Threads |-> note'[s]]
  BY DEF Disturb
<1>3. \A s \in Threads :
        /\ note'[s] \in Notes
        /\ note'[s].since = note[s].since /\ note'[s].good = note[s].good
        /\ note'[s].excused = note[s].excused
        /\ note[s].disturbed => note'[s].disturbed
        /\ mark(s) => note'[s].disturbed
        /\ ~mark(s) => note'[s] = note[s]
  <2>. SUFFICES ASSUME NEW s \in Threads
                PROVE  /\ note'[s] \in Notes
                       /\ note'[s].since = note[s].since /\ note'[s].good = note[s].good
                       /\ note'[s].excused = note[s].excused
                       /\ note[s].disturbed => note'[s].disturbed
                       /\ mark(s) => note'[s].disturbed
                       /\ ~mark(s) => note'[s] = note[s]
    OBVIOUS
  <2>. HIDE DEF mark
  <2>1. note[s] \in Notes
    BY DEF HistoryTypeOK
  <2>2. CASE mark(s)
    <3>1. note'[s] = [note[s] EXCEPT !.disturbed = TRUE]
      BY <1>1, <2>1, <2>2 DEF Notes
    <3>. QED  BY <2>1, <2>2, <3>1 DEF Notes
  <2>3. CASE ~mark(s)
    <3>1. note'[s] = [note[s] EXCEPT !.disturbed = note[s].disturbed]
      BY <1>1, <2>1, <2>3 DEF Notes
    <3>2. note'[s] = note[s]
      BY <2>1, <3>1 DEF Notes
    <3>. QED  BY <2>1, <2>3, <3>2
  <2>. QED  BY <2>2, <2>3
<1>. QED  BY <1>2, <1>3
---------------------------------------------------------------------------
(* The steps of a thread.                                                  *)

\* What a step of thread t leaves to the others: their calls, their histories
\* but for the mark, the devices of the searches that it does not mark, and the
\* handles while one of them assigns.
OthersSame(t) ==
  /\ UNCHANGED <<epoch, working>>
  /\ \A d \in Devices : renewed[d] <= renewed'[d]
  /\ \A s \in Threads \ {t} :
       /\ pc'[s] = pc[s] /\ call'[s] = call[s] /\ ended'[s] = ended[s]
       /\ note'[s].since = note[s].since /\ note'[s].good = note[s].good
       /\ note'[s].excused = note[s].excused
       /\ note[s].disturbed => note'[s].disturbed
       /\ pc[s] \in {"search", "probe"} /\ call[s].dev \in Remote /\ ~note'[s].disturbed =>
            handle'[call[s].dev] = handle[call[s].dev] /\ eth'[call[s].dev] = eth[call[s].dev]
       /\ pc[s] = "assign" => UNCHANGED <<handle, renewed>>

StepOK(t) == TypeOK' /\ HistoryTypeOK' /\ HandlesOK' /\ OthersSame(t) /\ ThreadOK(t)'

\* The invariant of the other threads follows.
LEMMA OthersOK ==
  ASSUME IInv, NEW t \in Threads, StepOK(t), NEW s \in Threads \ {t}
  PROVE  ThreadOK(s)'
<1>. OthersSame(t) /\ HistoryTypeOK'
  BY DEF StepOK
<1>. ThreadOK(s) /\ (pc[s] # "idle" => call[s].dev \in Devices)
  BY DEF IInv, ThreadOK, CallOK
<1>. USE DEF OthersSame, ThreadOK
<1>1. CallOK(s)' /\ EndedOK(s)'
  BY DEF CallOK, EndedOK, SigbusOK, FoundOK, RecoveredOK
<1>2. AssignOK(s)'
  BY DEF AssignOK
<1>3. RepeatOK(s)'
  <2>1. epoch \in Nat /\ note[s].since \in Nat
    BY TransportAssumption DEF IInv, TypeOK, HistoryTypeOK, Notes
  <2>2. CASE pc[s] # "idle"
    <3>1. call[s].dev \in Devices /\ renewed[call[s].dev] <= renewed'[call[s].dev]
      BY <2>2
    <3>2. renewed[call[s].dev] \in Int /\ renewed'[call[s].dev] \in Int
      BY <3>1, TransportAssumption DEF IInv, HistoryTypeOK
    <3>. QED  BY <2>1, <3>1, <3>2 DEF RepeatOK
  <2>3. CASE pc[s] = "idle"
    BY <2>3 DEF RepeatOK
  <2>. QED  BY <2>2, <2>3
<1>4. ExcusedOK(s)'
  BY DEF ExcusedOK
<1>5. SearchOK(s)'
  BY DEF SearchOK
<1>. QED  BY <1>1, <1>2, <1>3, <1>4, <1>5

\* Numbers and records that every step needs.
LEMMA Ranges ==
  ASSUME IInv
  PROVE  /\ epoch \in Nat /\ MaxResets \in Nat /\ MaxFaults \in Nat /\ faults \in Nat
         /\ faults <= MaxFaults /\ epoch <= MaxResets
         /\ handle \in [Devices -> Nat] /\ renewed \in [Devices -> Nat]
         /\ WorldTypes /\ SharedTypes /\ ControlTypes
         /\ \A t \in Threads : note[t] \in Notes /\ call[t] \in Calls /\ ThreadOK(t)
         /\ \A t \in Threads : pc[t] # "idle" => call[t].op \in Operations /\ call[t].dev \in Devices
<1>1. TypeOK /\ HistoryTypeOK /\ \A t \in Threads : ThreadOK(t)
  BY DEF IInv
<1>2. WorldTypes /\ SharedTypes /\ ControlTypes
  BY <1>1, TypesByKind
<1>3. \A t \in Threads : note[t] \in Notes /\ call[t] \in Calls /\ CallOK(t)
  BY <1>1, <1>2 DEF HistoryTypeOK, ControlTypes, ThreadOK
<1>4. epoch \in Nat /\ MaxResets \in Nat /\ MaxFaults \in Nat /\ faults \in Nat
      /\ faults <= MaxFaults /\ epoch <= MaxResets
  BY <1>2, TransportAssumption DEF WorldTypes
<1>5. handle \in [Devices -> Nat] /\ renewed \in [Devices -> Nat]
  BY <1>1, <1>2, <1>4 DEF SharedTypes, HistoryTypeOK
<1>. QED  BY <1>1, <1>2, <1>3, <1>4, <1>5 DEF CallOK

\* An access whose answer ends the call or leads to a re-initialization.
LEMMA FinishOK ==
  ASSUME IInv, NEW t \in Threads, NEW answer \in Outcomes, pc[t] \in {"access", "access_again"},
         Attempt(t, answer, note[t]), Finish(t, answer),
         UNCHANGED <<epoch, working, link_changes, calls, shared, renewed>>
  PROVE  StepOK(t)
<1>. USE Ranges
<1>. DEFINE d == call[t].dev
<1>1. d \in Devices /\ call[t].op \in Operations /\ answer \in Answers(t) /\ HandlesOK
      /\ ended[t] = Nothing
  BY DEF Attempt, IInv, ThreadOK, EndedOK
<1>2. /\ answer = "sigbus" => handle[d] < epoch
      /\ answer # "sigbus" => handle[d] = epoch
      /\ answer \in {"timeout", "error"} /\ d \in Local => ByItself(t, answer)
      /\ ByItself(t, answer) => faults < MaxFaults
  BY <1>1, AnswerMeans, TransportAssumption
<1>3. /\ ControlTypes' /\ pc'[t] \in {"idle", "lock"}
      /\ pc'[t] = "lock" => answer = "sigbus" /\ call'[t] = call[t] /\ ended'[t] = ended[t]
      /\ pc'[t] = "idle" =>
           /\ call'[t] = NoCall
           /\ ended'[t] = IF answer = "ok" THEN Nothing
                          ELSE [op |-> call[t].op, dev |-> d, how |-> answer]
           /\ answer = "sigbus" => call[t].op = "bar0" /\ call[t].again
      /\ \A s \in Threads : s # t => pc'[s] = pc[s] /\ call'[s] = call[s] /\ ended'[s] = ended[s]
  BY FinishEffect
<1>4. /\ note' \in [Threads -> Notes]
      /\ \A s \in Threads : s # t => note'[s] = note[s]
      /\ answer # "ok" =>
           /\ note'[t].since = note[t].since
           /\ ByItself(t, answer) /\ call[t].dev \in Local => note'[t].excused
      /\ answer = "ok" => note'[t] = NoNote
  BY AttemptNote DEF IInv
<1>5. faults' = IF ByItself(t, answer) THEN faults + 1 ELSE faults
  BY DEF Attempt
<1>6. TypeOK'
  <2>1. WorldTypes'
    BY <1>2, <1>5 DEF WorldTypes
  <2>2. SharedTypes'
    BY <1>3 DEF SharedTypes, shared
  <2>. QED  BY <1>3, <2>1, <2>2, TypesByKind, PTL
<1>7. HistoryTypeOK' /\ HandlesOK'
  BY <1>4 DEF IInv, HistoryTypeOK, HandlesOK, shared
<1>8. OthersSame(t)
  BY <1>3, <1>4 DEF OthersSame, shared
<1>9. EndedOK(t)'
  <2>1. SigbusOK(t)'
    <3>1. CASE pc'[t] = "lock" \/ answer # "sigbus"
      BY <1>1, <1>3, <3>1 DEF SigbusOK, Nothing
    <3>2. CASE pc'[t] = "idle" /\ answer = "sigbus"
      <4>1. note[t].since <= renewed[d] /\ renewed[d] <= handle[d] /\ note[t].since \in Nat
        BY <1>1, <1>3, <3>2 DEF ThreadOK, RepeatOK, HandlesOK, Notes
      <4>. QED  BY <1>1, <1>2, <1>3, <1>4, <3>2, <4>1 DEF SigbusOK
    <3>. QED  BY <1>3, <3>1, <3>2
  <2>2. FoundOK(t)'
    BY <1>1, <1>3 DEF FoundOK, Nothing, Outcomes
  <2>3. RecoveredOK(t)'
    BY <1>1, <1>2, <1>3, <1>4 DEF RecoveredOK, Nothing, Outcomes
  <2>. QED  BY <1>1, <1>3, <2>1, <2>2, <2>3 DEF EndedOK
<1>10. RepeatOK(t)'
  BY <1>1, <1>3, <1>4 DEF ThreadOK, RepeatOK, NoNote
<1>11. CallOK(t)' /\ AssignOK(t)' /\ ExcusedOK(t)' /\ SearchOK(t)'
  BY <1>1, <1>3 DEF CallOK, AssignOK, ExcusedOK, SearchOK
<1>. QED  BY <1>6, <1>7, <1>8, <1>9, <1>10, <1>11 DEF StepOK, ThreadOK

\* A call with the next core.
LEMMA NewNextEth ==
  ASSUME NEW c \in Calls, NEW i \in 1 .. Len(EthCores) + 1
  PROVE  LET new == [c EXCEPT !.next_eth = i]
         IN new \in Calls /\ new.op = c.op /\ new.dev = c.dev /\ new.again = c.again
            /\ new.next_eth = i
BY DEF Calls

\* A search that has come to its end has passed every core.
LEMMA AllPassed ==
  ASSUME NEW good \in SUBSET Eths,
         \A j \in 1 .. Len(EthCores) : EthOrder[j] \notin good
  PROVE  good = {}
BY EthOrderOK

\* An access whose failure leads to a search.
LEMMA SearchBegins ==
  ASSUME IInv, NEW t \in Threads, NEW answer \in Outcomes, pc[t] = "access",
         Reconfigures(call[t].op, call[t].dev, answer),
         Attempt(t, answer, [note[t] EXCEPT !.good = working,
                                            !.disturbed = handle[call[t].dev] < epoch]),
         Goto(t, "search", [call[t] EXCEPT !.next_eth = 1]),
         UNCHANGED <<epoch, working, link_changes, calls, shared, renewed>>
  PROVE  StepOK(t)
<1>. USE Ranges
<1>. DEFINE d == call[t].dev
            stale == handle[d] < epoch
            newnote == [note[t] EXCEPT !.good = working, !.disturbed = stale]
            newcall == [call[t] EXCEPT !.next_eth = 1]
<1>1. d \in Devices /\ call[t].op \in Operations /\ answer \in Answers(t) /\ HandlesOK
      /\ ended[t] = Nothing
  BY DEF Attempt, IInv, ThreadOK, EndedOK
<1>2. /\ answer # "sigbus" => handle[d] = epoch
      /\ answer = "error" /\ d \in Local => ByItself(t, answer)
      /\ ByItself(t, answer) => faults < MaxFaults
  BY <1>1, AnswerMeans, TransportAssumption
<1>3. /\ answer # "ok" /\ call[t].op # "bar0"
      /\ d \in Local => ByItself(t, answer)
  BY <1>2, TransportAssumption DEF Reconfigures
<1>4. /\ newnote \in Notes /\ newnote.since = note[t].since /\ newnote.good = working
      /\ newnote.disturbed <=> handle[d] < epoch
  <2>1. note[t] \in Notes /\ working \in SUBSET Eths
    BY DEF WorldTypes
  <2>2. stale \in BOOLEAN /\ (stale <=> handle[d] < epoch)
    OBVIOUS
  <2>. HIDE DEF stale
  <2>. QED  BY <2>1, <2>2 DEF Notes
<1>5. /\ newcall \in Calls /\ newcall.op = call[t].op /\ newcall.dev = d /\ newcall.next_eth = 1
  <2>1. call[t] \in Calls /\ 1 \in 1 .. Len(EthCores) + 1
    BY EthOrderOK
  <2>. QED  BY ONLY <2>1, NewNextEth
<1>. HIDE DEF newnote, newcall
<1>6. Attempt(t, answer, newnote) /\ Goto(t, "search", newcall)
  BY DEF newnote, newcall
<1>7. /\ ControlTypes' /\ pc'[t] = "search" /\ call'[t] = newcall /\ ended'[t] = Nothing
      /\ \A s \in Threads : s # t => pc'[s] = pc[s] /\ call'[s] = call[s] /\ ended'[s] = ended[s]
  BY <1>1, <1>5, <1>6, GotoEffect
<1>8. /\ note' \in [Threads -> Notes]
      /\ \A s \in Threads : s # t => note'[s] = note[s]
      /\ note'[t].since = note[t].since
      /\ note'[t].good = working /\ (note'[t].disturbed <=> handle[d] < epoch)
      /\ d \in Local => note'[t].excused
  BY <1>3, <1>4, <1>6, AttemptNote DEF IInv
<1>9. faults' = IF ByItself(t, answer) THEN faults + 1 ELSE faults
  BY DEF Attempt
<1>10. TypeOK'
  <2>1. WorldTypes'
    BY <1>2, <1>9 DEF WorldTypes
  <2>2. SharedTypes'
    BY <1>7 DEF SharedTypes, shared
  <2>. QED  BY <1>7, <2>1, <2>2, TypesByKind, PTL
<1>11. HistoryTypeOK' /\ HandlesOK'
  BY <1>8 DEF IInv, HistoryTypeOK, HandlesOK, shared
<1>12. OthersSame(t)
  BY <1>7, <1>8 DEF OthersSame, shared
<1>13. EndedOK(t)'
  BY <1>7 DEF EndedOK, SigbusOK, FoundOK, RecoveredOK, Nothing
<1>14. RepeatOK(t)' /\ CallOK(t)' /\ AssignOK(t)' /\ ExcusedOK(t)'
  BY <1>1, <1>3, <1>5, <1>7, <1>8 DEF ThreadOK, RepeatOK, CallOK, AssignOK, ExcusedOK
<1>15. SearchOK(t)'
  <2>1. ~note'[t].disturbed => handle[d] = epoch
    BY <1>1, <1>8 DEF HandlesOK
  <2>. QED  BY <1>1, <1>5, <1>7, <1>8, <2>1, EthOrderOK DEF SearchOK, shared
<1>. QED  BY <1>10, <1>11, <1>12, <1>13, <1>14, <1>15 DEF StepOK, ThreadOK

\* The search selects the next core, or gives up.
LEMMA SelectEthOK == ASSUME IInv, NEW t \in Threads, SelectEth(t) PROVE StepOK(t)
<1>. USE Ranges
<1>. DEFINE d == call[t].dev
            next == call[t].next_eth
<1>1. d \in Devices /\ call[t].op \in Operations /\ HandlesOK /\ HistoryTypeOK
      /\ ended[t] = Nothing /\ pc[t] = "search" /\ next \in 1 .. Len(EthCores) + 1
  BY DEF SelectEth, IInv, ThreadOK, EndedOK, Calls
<1>2. UNCHANGED <<world, handle, lock, renewed>>
  BY DEF SelectEth
<1>3. CASE next > Len(Cores(d)) /\ End(t, "unconfigured") /\ UNCHANGED <<eth, note>>
  <2>1. /\ ControlTypes' /\ pc'[t] = "idle" /\ call'[t] = NoCall
        /\ ended'[t] = [op |-> call[t].op, dev |-> d, how |-> "unconfigured"]
        /\ \A s \in Threads : s # t => pc'[s] = pc[s] /\ call'[s] = call[s] /\ ended'[s] = ended[s]
    BY <1>3, EndEffect
  <2>2. TypeOK'
    <3>1. WorldTypes' /\ SharedTypes'
      BY <1>1, <1>2, <1>3, <2>1 DEF WorldTypes, SharedTypes, world
    <3>. QED  BY <2>1, <3>1, TypesByKind, PTL
  <2>3. HistoryTypeOK' /\ HandlesOK' /\ OthersSame(t)
    BY <1>1, <1>2, <1>3, <2>1 DEF HistoryTypeOK, HandlesOK, OthersSame, world
  <2>4. SigbusOK(t)'
    BY <2>1 DEF SigbusOK
  <2>5. RecoveredOK(t)'
    BY <1>1, <1>3, <2>1 DEF RecoveredOK, ThreadOK, ExcusedOK
  <2>6. FoundOK(t)'
    <3>. SUFFICES ASSUME d \in Remote, ~note[t].disturbed PROVE note[t].good = {}
      BY <1>3, <2>1 DEF FoundOK
    <3>1. next > Len(EthCores)
      BY <1>1, <1>3, CoresOf
    <3>2. \A j \in 1 .. Len(EthCores) : j < next => EthOrder[j] \notin note[t].good
      BY <1>1 DEF ThreadOK, SearchOK
    <3>3. Len(EthCores) \in Nat /\ next \in Int
      BY <1>1, EthOrderOK
    <3>4. \A j \in 1 .. Len(EthCores) : EthOrder[j] \notin note[t].good
      BY ONLY <3>1, <3>2, <3>3
    <3>5. note[t].good \in SUBSET Eths
      BY DEF Notes
    <3>. QED  BY ONLY <3>4, <3>5, AllPassed
  <2>7. CallOK(t)' /\ AssignOK(t)' /\ ExcusedOK(t)' /\ SearchOK(t)'
    BY <2>1 DEF CallOK, AssignOK, ExcusedOK, SearchOK, NoCall
  <2>8. RepeatOK(t)'
    BY <1>2, <1>3, <2>1 DEF RepeatOK, ThreadOK, world
  <2>. QED  BY <2>1, <2>2, <2>3, <2>4, <2>5, <2>6, <2>7, <2>8 DEF StepOK, ThreadOK, EndedOK
<1>4. CASE /\ next <= Len(Cores(d)) /\ eth' = [eth EXCEPT ![d] = Cores(d)[next]]
           /\ note' = Disturb(t, d) /\ Goto(t, "probe", call[t])
  <2>1. d \in Remote /\ next \in 1 .. Len(EthCores) /\ Cores(d) = EthOrder
    <3>1. /\ d \in Local => Len(Cores(d)) = 0
          /\ d \in Remote => Cores(d) = EthOrder /\ Len(Cores(d)) = Len(EthCores)
          /\ Len(EthCores) \in Nat
      BY <1>1, CoresOf, EthOrderOK
    <3>. QED  BY ONLY <1>1, <1>4, <3>1 DEF Devices
  <2>2. /\ ControlTypes' /\ pc'[t] = "probe" /\ call'[t] = call[t] /\ ended'[t] = Nothing
        /\ \A s \in Threads : s # t => pc'[s] = pc[s] /\ call'[s] = call[s] /\ ended'[s] = ended[s]
    BY <1>1, <1>4, GotoEffect
  <2>3. EthOrder[next] \in Eths
    BY ONLY <2>1, EthOrderOK
  <2>4. eth' \in [Remote -> Eths] /\ eth'[d] = EthOrder[next]
        /\ \A e \in Remote : e # d => eth'[e] = eth[e]
    BY <1>4, <2>1, <2>3 DEF SharedTypes
  <2>5. TypeOK'
    <3>1. WorldTypes'
      BY <1>2 DEF WorldTypes, world
    <3>2. SharedTypes'
      BY <1>1, <1>2, <2>2, <2>4 DEF SharedTypes
    <3>. QED  BY <2>2, <3>1, <3>2, TypesByKind, PTL
  <2>6. /\ note' \in [Threads -> Notes] /\ note'[t] = note[t]
        /\ \A s \in Threads :
              /\ note'[s].since = note[s].since /\ note'[s].good = note[s].good
              /\ note'[s].excused = note[s].excused
              /\ note[s].disturbed => note'[s].disturbed
              /\ s # t /\ call[s].dev = d /\ pc[s] \in {"search", "probe"} => note'[s].disturbed
    BY <1>1, <1>4, DisturbEffect
  <2>7. HistoryTypeOK' /\ HandlesOK'
    BY <1>1, <1>2, <2>6 DEF HistoryTypeOK, HandlesOK, world
  <2>8. OthersSame(t)
    BY <1>2, <2>2, <2>4, <2>6 DEF OthersSame, world
  <2>9. EndedOK(t)' /\ AssignOK(t)' /\ CallOK(t)' /\ ExcusedOK(t)'
    BY <1>1, <2>1, <2>2 DEF EndedOK, SigbusOK, FoundOK, RecoveredOK, Nothing, AssignOK, CallOK, ExcusedOK
  <2>10. RepeatOK(t)'
    BY <1>1, <1>2, <2>2, <2>6 DEF ThreadOK, RepeatOK, world
  <2>11. SearchOK(t)'
    BY <1>1, <1>2, <2>2, <2>4, <2>6 DEF ThreadOK, SearchOK, world
  <2>. QED  BY <2>5, <2>7, <2>8, <2>9, <2>10, <2>11 DEF StepOK, ThreadOK
<1>. QED  BY <1>3, <1>4 DEF SelectEth

\* The test read of the selected core.
LEMMA ProbeEthOK == ASSUME IInv, NEW t \in Threads, ProbeEth(t) PROVE StepOK(t)
<1>. USE Ranges
<1>. DEFINE d == call[t].dev
            next == call[t].next_eth
<1>1. d \in Devices /\ d \in Remote /\ d \notin Local /\ call[t].op \in Operations /\ HandlesOK
      /\ ended[t] = Nothing /\ pc[t] = "probe" /\ next \in 1 .. Len(EthCores) /\ call[t] \in Calls
      /\ note[t] \in Notes /\ ThreadOK(t)
  BY TransportAssumption DEF ProbeEth, IInv, ThreadOK, EndedOK, CallOK
<1>2. PICK answer \in Outcomes :
        /\ Attempt(t, answer, [note[t] EXCEPT !.disturbed = @ \/ ByItself(t, answer)])
        /\ \/ answer = "ok" /\ Goto(t, "access_again", call[t])
           \/ answer = "timeout" /\ End(t, answer)
           \/ /\ answer \in {"error", "sigbus"}
              /\ Goto(t, "search", [call[t] EXCEPT !.next_eth = @ + 1])
  BY DEF ProbeEth
<1>3. UNCHANGED <<epoch, working, link_changes, calls, shared, renewed>>
  BY DEF ProbeEth
<1>. DEFINE failed == note[t].disturbed \/ ByItself(t, answer)
            newnote == [note[t] EXCEPT !.disturbed = failed]
            newcall == [call[t] EXCEPT !.next_eth = @ + 1]
<1>4. /\ newnote \in Notes /\ newnote.since = note[t].since /\ newnote.good = note[t].good
      /\ newnote.excused = note[t].excused
      /\ newnote.disturbed <=> note[t].disturbed \/ ByItself(t, answer)
  <2>1. failed \in BOOLEAN /\ (failed <=> note[t].disturbed \/ ByItself(t, answer))
    BY <1>1 DEF Notes
  <2>. HIDE DEF failed
  <2>. QED  BY <1>1, <2>1 DEF Notes
<1>5. /\ newcall \in Calls /\ newcall.op = call[t].op /\ newcall.dev = d
      /\ newcall.again = call[t].again /\ newcall.next_eth = next + 1
  <2>1. next + 1 \in 1 .. Len(EthCores) + 1 /\ call[t] \in Calls
    BY ONLY <1>1, LenEth
  <2>2. newcall = [call[t] EXCEPT !.next_eth = next + 1]
    OBVIOUS
  <2>. HIDE DEF newcall, next
  <2>. QED  BY ONLY <2>1, <2>2, NewNextEth
<1>6. answer \in Answers(t) /\ Attempt(t, answer, newnote)
      /\ faults' = IF ByItself(t, answer) THEN faults + 1 ELSE faults
  BY <1>2 DEF Attempt
<1>. HIDE DEF failed, newnote, newcall
<1>7. /\ answer = "sigbus" => handle[d] < epoch
      /\ answer = "error" => ByItself(t, answer) \/ eth[d] \notin working
      /\ ByItself(t, answer) => faults < MaxFaults
  BY <1>1, <1>6, AnswerMeans
<1>8. /\ note' \in [Threads -> Notes]
      /\ \A s \in Threads : s # t => note'[s] = note[s]
      /\ note'[t].since = note[t].since
      /\ answer # "ok" => /\ note'[t].good = note[t].good
                          /\ note'[t].disturbed <=> note[t].disturbed \/ ByItself(t, answer)
  BY <1>1, <1>4, <1>6, AttemptNote DEF IInv
<1>9. /\ ControlTypes'
      /\ \A s \in Threads : s # t => pc'[s] = pc[s] /\ call'[s] = call[s] /\ ended'[s] = ended[s]
      /\ \/ answer = "ok" /\ pc'[t] = "access_again" /\ call'[t] = call[t] /\ ended'[t] = Nothing
         \/ /\ answer = "timeout" /\ pc'[t] = "idle" /\ call'[t] = NoCall
            /\ ended'[t] = [op |-> call[t].op, dev |-> d, how |-> answer]
         \/ /\ answer \in {"error", "sigbus"} /\ pc'[t] = "search" /\ call'[t] = newcall
            /\ ended'[t] = Nothing
  <2>1. CASE answer = "ok" /\ Goto(t, "access_again", call[t])
    BY <1>1, <2>1, GotoEffect
  <2>2. CASE answer = "timeout" /\ End(t, answer)
    BY <1>1, <2>2, EndEffect
  <2>3. CASE answer \in {"error", "sigbus"} /\ Goto(t, "search", newcall)
    BY <1>1, <1>5, <2>3, GotoEffect
  <2>. QED  BY <1>2, <2>1, <2>2, <2>3 DEF newcall
<1>10. TypeOK'
  <2>1. WorldTypes'
    BY <1>3, <1>6, <1>7 DEF WorldTypes
  <2>2. SharedTypes'
    <3>1. \A s \in Threads : pc'[s] \in {"discover", "assign"} <=> pc[s] \in {"discover", "assign"}
      BY <1>1, <1>9
    <3>. QED  BY <1>3, <3>1 DEF SharedTypes, shared
  <2>. QED  BY <1>9, <2>1, <2>2, TypesByKind, PTL
<1>11. HistoryTypeOK' /\ HandlesOK'
  BY <1>3, <1>8 DEF IInv, HistoryTypeOK, HandlesOK, shared
<1>12. OthersSame(t)
  BY <1>3, <1>8, <1>9 DEF OthersSame, shared
<1>13. EndedOK(t)'
  BY <1>1, <1>9 DEF EndedOK, SigbusOK, FoundOK, RecoveredOK, Nothing
<1>14. RepeatOK(t)'
  <2>1. /\ note[t].since <= epoch
        /\ call[t].op = "bar0" /\ call[t].again => note[t].since <= renewed[d]
    BY <1>1 DEF ThreadOK, RepeatOK
  <2>2. pc'[t] # "idle" => call'[t].op = call[t].op /\ call'[t].again = call[t].again
                           /\ call'[t].dev = d
    BY ONLY <1>5, <1>9
  <2>. QED  BY ONLY <1>3, <1>8, <2>1, <2>2 DEF RepeatOK
<1>15. CallOK(t)' /\ AssignOK(t)' /\ ExcusedOK(t)'
  <2>1. pc'[t] \in {"idle", "access_again", "search"}
        /\ (pc'[t] # "idle" => call'[t].op = call[t].op /\ call'[t].dev = d)
    BY ONLY <1>5, <1>9
  <2>2. CallOK(t)' /\ AssignOK(t)'
    BY <1>1, <2>1 DEF CallOK, AssignOK
  <2>3. ExcusedOK(t)'
    BY <1>1, <2>1 DEF ExcusedOK
  <2>. QED  BY <2>2, <2>3
<1>16. SearchOK(t)'
  <2>1. CASE answer \in {"ok", "timeout"}
    BY <1>9, <2>1 DEF SearchOK
  <2>2. CASE answer \in {"error", "sigbus"} /\ ~note'[t].disturbed
    <3>1. /\ handle[d] = epoch /\ note[t].good \subseteq working /\ eth[d] = EthOrder[next]
          /\ \A j \in 1 .. Len(EthCores) : j < next => EthOrder[j] \notin note[t].good
      BY <1>1, <1>8, <2>2 DEF ThreadOK, SearchOK
    <3>2. EthOrder[next] \notin note[t].good
      <4>1. ~ByItself(t, answer)
        BY ONLY <1>8, <2>2
      <4>2. ~(handle[d] < epoch)
        BY <3>1
      <4>. QED  BY ONLY <1>7, <2>2, <3>1, <4>1, <4>2
    <3>3. \A j \in 1 .. Len(EthCores) : j < next + 1 => EthOrder[j] \notin note[t].good
      <4>1. \A j \in 1 .. Len(EthCores) : j < next + 1 => j < next \/ j = next
        BY ONLY <1>1, LenEth
      <4>. QED  BY ONLY <3>1, <3>2, <4>1
    <3>. QED  BY <1>3, <1>5, <1>8, <1>9, <2>2, <3>1, <3>3 DEF SearchOK, shared
  <2>3. CASE note'[t].disturbed
    BY <2>3 DEF SearchOK
  <2>. QED  BY <2>1, <2>2, <2>3 DEF Outcomes
<1>. QED  BY <1>10, <1>11, <1>12, <1>13, <1>14, <1>15, <1>16 DEF StepOK, ThreadOK

\* The accesses of a call.
LEMMA AccessOK == ASSUME IInv, NEW t \in Threads, Access(t) \/ AccessAgain(t) PROVE StepOK(t)
<1>1. CASE Access(t)
  <2>1. PICK answer \in Outcomes :
          \/ /\ Reconfigures(call[t].op, call[t].dev, answer)
             /\ Attempt(t, answer, [note[t] EXCEPT !.good = working,
                                                   !.disturbed = handle[call[t].dev] < epoch])
             /\ Goto(t, "search", [call[t] EXCEPT !.next_eth = 1])
          \/ Attempt(t, answer, note[t]) /\ Finish(t, answer)
    BY <1>1 DEF Access
  <2>2. pc[t] = "access" /\ UNCHANGED <<epoch, working, link_changes, calls, shared, renewed>>
    BY <1>1 DEF Access
  <2>3. CASE Attempt(t, answer, note[t]) /\ Finish(t, answer)
    BY ONLY IInv, <2>2, <2>3, FinishOK
  <2>4. CASE /\ Reconfigures(call[t].op, call[t].dev, answer)
             /\ Attempt(t, answer, [note[t] EXCEPT !.good = working,
                                                   !.disturbed = handle[call[t].dev] < epoch])
             /\ Goto(t, "search", [call[t] EXCEPT !.next_eth = 1])
    BY ONLY IInv, <2>2, <2>4, SearchBegins, Zenon
  <2>. QED  BY <2>1, <2>3, <2>4
<1>2. CASE AccessAgain(t)
  <2>1. PICK answer \in Outcomes : Attempt(t, answer, note[t]) /\ Finish(t, answer)
    BY <1>2 DEF AccessAgain
  <2>2. pc[t] = "access_again" /\ UNCHANGED <<epoch, working, link_changes, calls, shared, renewed>>
    BY <1>2 DEF AccessAgain
  <2>. QED  BY <2>1, <2>2, FinishOK
<1>. QED  BY <1>1, <1>2

\* The lock is taken.
LEMMA AcquireOK == ASSUME IInv, NEW t \in Threads, Acquire(t) PROVE StepOK(t)
<1>. USE Ranges
<1>1. pc[t] = "lock" /\ lock = "free" /\ lock' = t /\ Goto(t, "discover", call[t])
      /\ UNCHANGED <<world, handle, eth, note, renewed>>
  BY DEF Acquire
<1>2. ThreadOK(t) /\ ended[t] = Nothing /\ call[t] \in Calls
  BY <1>1 DEF ThreadOK, EndedOK
<1>3. /\ ControlTypes' /\ pc'[t] = "discover" /\ call'[t] = call[t] /\ ended'[t] = Nothing
      /\ \A s \in Threads : s # t => pc'[s] = pc[s] /\ call'[s] = call[s] /\ ended'[s] = ended[s]
  BY <1>1, <1>2, GotoEffect
<1>4. TypeOK'
  <2>1. WorldTypes'
    BY <1>1 DEF WorldTypes, world
  <2>2. SharedTypes'
    BY <1>1, <1>3, TransportAssumption DEF SharedTypes
  <2>. QED  BY <1>3, <2>1, <2>2, TypesByKind, PTL
<1>5. HistoryTypeOK' /\ HandlesOK'
  BY <1>1 DEF IInv, HistoryTypeOK, HandlesOK, world
<1>6. OthersSame(t)
  BY <1>1, <1>3 DEF OthersSame, world
<1>7. CallOK(t)' /\ AssignOK(t)' /\ ExcusedOK(t)' /\ SearchOK(t)'
  BY <1>1, <1>2, <1>3 DEF ThreadOK, CallOK, AssignOK, ExcusedOK, SearchOK
<1>8. RepeatOK(t)' /\ EndedOK(t)'
  BY <1>1, <1>2, <1>3 DEF ThreadOK, RepeatOK, EndedOK, SigbusOK, FoundOK, RecoveredOK, Nothing, world
<1>. QED  BY <1>4, <1>5, <1>6, <1>7, <1>8 DEF StepOK, ThreadOK

\* A discovery of as many chips that misses one of them has found a stranger.
LEMMA TopologyOK ==
  ASSUME NEW topology \in Topologies, Cardinality(topology) = Cardinality(Devices)
  PROVE  topology = Devices \/ Stranger \in topology
<1>1. SUFFICES ASSUME NEW d \in Devices, topology = Devices \ {d} PROVE FALSE
  BY DEF Topologies
<1>2. Cardinality(Devices \ {d}) = Cardinality(Devices) - 1 /\ Cardinality(Devices) \in Nat
  BY <1>1, FS_RemoveElement, FS_CardinalityType, TransportAssumption
<1>. QED  BY <1>1, <1>2

\* The discovery under the lock.
LEMMA DiscoverOK == ASSUME IInv, NEW t \in Threads, Discover(t) PROVE StepOK(t)
<1>. USE Ranges
<1>. DEFINE d == call[t].dev
<1>1. /\ pc[t] = "discover" /\ UNCHANGED <<world, handle, eth, renewed>> /\ ThreadOK(t)
      /\ ended[t] = Nothing /\ call[t] \in Calls /\ note[t] \in Notes /\ d \in Devices
      /\ call[t].op \in Operations
  BY DEF Discover, ThreadOK, EndedOK
<1>2. PICK topology \in Topologies :
        /\ note' = [note EXCEPT ![t].excused = @ \/ (topology # Devices /\ d \in Local)]
        /\ \/ /\ Cardinality(topology) # Cardinality(Devices)
              /\ lock' = Release(t)
              /\ End(t, "discovery")
           \/ /\ Cardinality(topology) = Cardinality(Devices)
              /\ Goto(t, "assign", [call[t] EXCEPT !.found = topology, !.found_epoch = epoch])
              /\ UNCHANGED lock
  BY ONLY Discover(t), Zenon DEF Discover
<1>. DEFINE excused == note[t].excused \/ (topology # Devices /\ d \in Local)
            newcall == [call[t] EXCEPT !.found = topology, !.found_epoch = epoch]
<1>3. /\ note' \in [Threads -> Notes]
      /\ \A s \in Threads : s # t => note'[s] = note[s]
      /\ note'[t].since = note[t].since /\ note'[t].good = note[t].good
      /\ note'[t].disturbed = note[t].disturbed
      /\ note'[t].excused <=> note[t].excused \/ (topology # Devices /\ d \in Local)
  <2>1. excused \in BOOLEAN
        /\ (excused <=> note[t].excused \/ (topology # Devices /\ d \in Local))
        /\ note' = [note EXCEPT ![t].excused = excused] /\ note \in [Threads -> Notes]
    BY <1>1, <1>2 DEF Notes, IInv, HistoryTypeOK
  <2>. HIDE DEF excused
  <2>. QED  BY <2>1 DEF Notes
<1>4. /\ newcall \in Calls /\ newcall.op = call[t].op /\ newcall.dev = d
      /\ newcall.again = call[t].again /\ newcall.found = topology /\ newcall.found_epoch = epoch
  <2>1. topology \in SUBSET (Devices \cup {Stranger})
    BY DEF Topologies
  <2>2. epoch \in 0 .. MaxResets
    BY DEF WorldTypes
  <2>. QED  BY ONLY <1>1, <2>1, <2>2 DEF Calls
<1>. HIDE DEF excused, newcall
<1>5. HistoryTypeOK' /\ HandlesOK'
  BY <1>1, <1>3 DEF IInv, HistoryTypeOK, HandlesOK, world
<1>6. WorldTypes'
  BY <1>1 DEF WorldTypes, world
<1>7. lock = t
  BY <1>1 DEF SharedTypes
<1>8. CASE /\ Cardinality(topology) # Cardinality(Devices)
           /\ lock' = Release(t) /\ End(t, "discovery")
  <2>1. /\ ControlTypes' /\ pc'[t] = "idle" /\ call'[t] = NoCall
        /\ ended'[t] = [op |-> call[t].op, dev |-> d, how |-> "discovery"]
        /\ \A s \in Threads : s # t => pc'[s] = pc[s] /\ call'[s] = call[s] /\ ended'[s] = ended[s]
    BY <1>8, EndEffect
  <2>2. TypeOK'
    <3>1. lock' = "free" /\ \A s \in Threads : pc'[s] \notin {"discover", "assign"}
      BY <1>7, <1>8, <2>1 DEF Release, SharedTypes
    <3>2. SharedTypes'
      BY <1>1, <3>1, TransportAssumption DEF SharedTypes
    <3>. QED  BY <1>6, <2>1, <3>2, TypesByKind, PTL
  <2>3. OthersSame(t)
    BY <1>1, <1>3, <2>1 DEF OthersSame, world
  <2>4. topology # Devices
    BY <1>8
  <2>5. EndedOK(t)'
    BY <1>3, <2>1, <2>4 DEF EndedOK, SigbusOK, FoundOK, RecoveredOK
  <2>6. CallOK(t)' /\ AssignOK(t)' /\ ExcusedOK(t)' /\ SearchOK(t)'
    BY <2>1 DEF CallOK, AssignOK, ExcusedOK, SearchOK
  <2>7. RepeatOK(t)'
    BY <1>1, <1>3, <2>1 DEF RepeatOK, ThreadOK, world
  <2>. QED  BY <1>5, <2>2, <2>3, <2>5, <2>6, <2>7 DEF StepOK, ThreadOK
<1>9. CASE /\ Cardinality(topology) = Cardinality(Devices)
           /\ Goto(t, "assign", newcall) /\ UNCHANGED lock
  <2>1. /\ ControlTypes' /\ pc'[t] = "assign" /\ call'[t] = newcall /\ ended'[t] = Nothing
        /\ \A s \in Threads : s # t => pc'[s] = pc[s] /\ call'[s] = call[s] /\ ended'[s] = ended[s]
    BY <1>1, <1>4, <1>9, GotoEffect
  <2>2. TypeOK'
    <3>1. SharedTypes'
      BY <1>1, <1>9, <2>1 DEF SharedTypes
    <3>. QED  BY <1>6, <2>1, <3>1, TypesByKind, PTL
  <2>3. OthersSame(t)
    BY <1>1, <1>3, <2>1 DEF OthersSame, world
  <2>4. topology = Devices \/ Stranger \in topology
    BY <1>9, TopologyOK
  <2>5. AssignOK(t)'
    <3>1. \A e \in Devices : renewed[e] <= epoch
      BY DEF IInv, HandlesOK
    <3>2. note[t].since <= epoch /\ epoch <= epoch
      BY <1>1 DEF ThreadOK, RepeatOK
    <3>. QED  BY <1>1, <1>3, <1>4, <2>1, <2>4, <3>1, <3>2 DEF AssignOK, world
  <2>6. CallOK(t)' /\ SearchOK(t)' /\ EndedOK(t)'
    BY <1>1, <1>4, <2>1 DEF CallOK, SearchOK, EndedOK, SigbusOK, FoundOK, RecoveredOK, Nothing
  <2>7. ExcusedOK(t)'
    BY <1>3, <1>4, <2>1, TransportAssumption DEF ExcusedOK
  <2>8. RepeatOK(t)'
    BY <1>1, <1>3, <1>4, <2>1 DEF RepeatOK, ThreadOK, world
  <2>. QED  BY <1>5, <2>2, <2>3, <2>5, <2>6, <2>7, <2>8 DEF StepOK, ThreadOK
<1>. QED  BY <1>2, <1>8, <1>9 DEF newcall

\* Only the holder of the lock discovers and assigns.
LEMMA HolderAlone ==
  ASSUME IInv, NEW t \in Threads, pc[t] \in {"discover", "assign"}
  PROVE  lock = t /\ \A s \in Threads \ {t} : pc[s] \notin {"discover", "assign"}
BY Ranges DEF SharedTypes

\* One chip after the other gets its new handle.
LEMMA AssignStepOK ==
  ASSUME IInv, NEW t \in Threads, NEW d \in Devices \cup {Stranger}, Assign(t, d)
  PROVE  StepOK(t)
<1>. USE Ranges
<1>. DEFINE c == call[t]
<1>1. /\ pc[t] = "assign" /\ d \in c.found /\ UNCHANGED <<world, renewed>> /\ ThreadOK(t)
      /\ ended[t] = Nothing /\ c \in Calls /\ note[t] \in Notes /\ c.dev \in Devices
      /\ c.op \in Operations /\ HandlesOK /\ HistoryTypeOK
  BY DEF Assign, ThreadOK, EndedOK, IInv
<1>2. lock = t /\ \A s \in Threads \ {t} : pc[s] \notin {"discover", "assign"}
  BY <1>1, HolderAlone
<1>3. WorldTypes'
  BY <1>1 DEF WorldTypes, world
<1>4. CASE d = Stranger /\ lock' = Release(t) /\ End(t, "discovery") /\ UNCHANGED <<handle, eth, note>>
  <2>1. /\ ControlTypes' /\ pc'[t] = "idle" /\ call'[t] = NoCall
        /\ ended'[t] = [op |-> c.op, dev |-> c.dev, how |-> "discovery"]
        /\ \A s \in Threads : s # t => pc'[s] = pc[s] /\ call'[s] = call[s] /\ ended'[s] = ended[s]
    BY <1>4, EndEffect
  <2>2. TypeOK'
    <3>1. lock' = "free" /\ \A s \in Threads : pc'[s] \notin {"discover", "assign"}
      BY <1>2, <1>4, <2>1 DEF Release
    <3>2. SharedTypes'
      BY <1>4, <3>1, TransportAssumption DEF SharedTypes
    <3>. QED  BY <1>3, <2>1, <3>2, TypesByKind, PTL
  <2>3. HistoryTypeOK' /\ HandlesOK' /\ OthersSame(t)
    BY <1>1, <1>4, <2>1 DEF HistoryTypeOK, HandlesOK, OthersSame, world
  <2>4. EndedOK(t)'
    BY <1>1, <1>4, <2>1 DEF EndedOK, SigbusOK, FoundOK, RecoveredOK, ThreadOK, ExcusedOK
  <2>5. CallOK(t)' /\ AssignOK(t)' /\ ExcusedOK(t)' /\ SearchOK(t)'
    BY <2>1 DEF CallOK, AssignOK, ExcusedOK, SearchOK
  <2>6. RepeatOK(t)'
    BY <1>1, <1>4, <2>1 DEF RepeatOK, ThreadOK, world
  <2>. QED  BY <2>2, <2>3, <2>4, <2>5, <2>6 DEF StepOK, ThreadOK
<1>5. CASE /\ d \in Devices
           /\ handle' = [handle EXCEPT ![d] = Renew(t, d)]
           /\ IF d \in Remote THEN \E e \in Eths : eth' = [eth EXCEPT ![d] = e]
                              ELSE UNCHANGED eth
           /\ note' = Disturb(t, d)
           /\ Goto(t, "assign", [call[t] EXCEPT !.found = @ \ {d}])
           /\ UNCHANGED lock
  <2>. DEFINE newcall == [call[t] EXCEPT !.found = @ \ {d}]
  <2>1. /\ newcall \in Calls /\ newcall.op = c.op /\ newcall.dev = c.dev /\ newcall.again = c.again
        /\ newcall.found = c.found \ {d} /\ newcall.found_epoch = c.found_epoch
    BY ONLY <1>1 DEF Calls
  <2>. HIDE DEF newcall
  <2>2. /\ ControlTypes' /\ pc'[t] = "assign" /\ call'[t] = newcall /\ ended'[t] = Nothing
        /\ \A s \in Threads : s # t => pc'[s] = pc[s] /\ call'[s] = call[s] /\ ended'[s] = ended[s]
    <3>1. Goto(t, "assign", newcall)
      BY <1>5 DEF newcall
    <3>. QED  BY <1>1, <2>1, <3>1, GotoEffect
  <2>3. c.found_epoch \in 0 .. MaxResets /\ note[t].since <= c.found_epoch /\ c.found_epoch <= epoch
        /\ \A e \in Devices :
             /\ renewed[e] <= c.found_epoch
             /\ Stranger \notin c.found /\ e \notin c.found => handle[e] = c.found_epoch
    BY <1>1 DEF ThreadOK, AssignOK, Calls
  <2>4. /\ handle' \in [Devices -> 0 .. MaxResets] /\ handle'[d] = c.found_epoch
        /\ \A e \in Devices : e # d => handle'[e] = handle[e]
    BY <1>5, <2>3 DEF Renew, SharedTypes
  <2>5. eth' \in [Remote -> Eths] /\ \A e \in Remote : e # d => eth'[e] = eth[e]
    BY <1>5 DEF SharedTypes
  <2>6. TypeOK'
    <3>1. SharedTypes'
      BY <1>1, <1>5, <2>2, <2>4, <2>5 DEF SharedTypes
    <3>. QED  BY <1>3, <2>2, <3>1, TypesByKind, PTL
  <2>7. /\ note' \in [Threads -> Notes] /\ note'[t] = note[t]
        /\ \A s \in Threads :
              /\ note'[s].since = note[s].since /\ note'[s].good = note[s].good
              /\ note'[s].excused = note[s].excused
              /\ note[s].disturbed => note'[s].disturbed
              /\ s # t /\ call[s].dev = d /\ pc[s] \in {"search", "probe"} => note'[s].disturbed
    BY <1>1, <1>5, DisturbEffect
  <2>8. HistoryTypeOK' /\ HandlesOK'
    <3>1. \A e \in Devices : handle'[e] <= epoch /\ renewed[e] <= handle'[e]
      BY <1>1, <2>3, <2>4 DEF HandlesOK
    <3>. QED  BY <1>1, <2>7, <3>1 DEF HistoryTypeOK, HandlesOK, world
  <2>9. OthersSame(t)
    <3>1. \A s \in Threads \ {t} :
             pc[s] \in {"search", "probe"} /\ call[s].dev \in Remote /\ ~note'[s].disturbed =>
               handle'[call[s].dev] = handle[call[s].dev] /\ eth'[call[s].dev] = eth[call[s].dev]
      BY <2>4, <2>5, <2>7 DEF Devices
    <3>. QED  BY <1>1, <1>2, <2>2, <2>7, <3>1 DEF OthersSame, world
  <2>10. AssignOK(t)'
    <3>1. ASSUME NEW e \in Devices, Stranger \notin c.found \ {d}, e \notin c.found \ {d}
          PROVE  handle'[e] = c.found_epoch
      BY <1>5, <2>3, <2>4, <3>1, TransportAssumption
    <3>. QED  BY <1>1, <2>1, <2>2, <2>3, <2>7, <3>1 DEF AssignOK, world
  <2>11. CallOK(t)' /\ SearchOK(t)' /\ EndedOK(t)'
    BY <1>1, <2>1, <2>2 DEF CallOK, SearchOK, EndedOK, SigbusOK, FoundOK, RecoveredOK, Nothing
  <2>12. ExcusedOK(t)'
    BY <1>1, <2>1, <2>2, <2>7 DEF ExcusedOK, ThreadOK
  <2>13. RepeatOK(t)'
    BY <1>1, <2>1, <2>2, <2>7 DEF RepeatOK, ThreadOK, world
  <2>. QED  BY <2>6, <2>8, <2>9, <2>10, <2>11, <2>12, <2>13 DEF StepOK, ThreadOK
<1>. QED  BY ONLY Assign(t, d), <1>4, <1>5, Zenon DEF Assign

\* The re-initialization has succeeded: the call is made again.
LEMMA ReinitializedOK == ASSUME IInv, NEW t \in Threads, Reinitialized(t) PROVE StepOK(t)
<1>. USE Ranges
<1>. DEFINE c == call[t]
            bar0 == c.op = "bar0"
            newcall == [NoCall EXCEPT !.op = c.op, !.dev = c.dev, !.again = bar0]
<1>1. /\ pc[t] = "assign" /\ c.found = {} /\ lock' = Release(t)
      /\ renewed' = [d \in Devices |-> c.found_epoch] /\ UNCHANGED <<world, handle, eth, note>>
      /\ ThreadOK(t) /\ ended[t] = Nothing /\ c \in Calls /\ note[t] \in Notes
      /\ c.dev \in Devices /\ c.op \in Operations /\ HandlesOK /\ HistoryTypeOK
  BY DEF Reinitialized, ThreadOK, EndedOK, IInv
<1>2. lock = t /\ \A s \in Threads \ {t} : pc[s] \notin {"discover", "assign"}
  BY <1>1, HolderAlone
<1>3. /\ newcall \in Calls /\ newcall.op = c.op /\ newcall.dev = c.dev /\ newcall.found = {}
      /\ newcall.again => c.op = "bar0"
  <2>1. c.op \in Operations /\ c.dev \in Devices /\ 1 \in 1 .. Len(EthCores) + 1 /\ 0 \in 0 .. MaxResets
    BY <1>1, LenEth
  <2>2. bar0 \in BOOLEAN /\ (bar0 <=> c.op = "bar0")
    OBVIOUS
  <2>. HIDE DEF bar0, c
  <2>. QED  BY <2>1, <2>2 DEF NoCall, Calls
<1>4. Goto(t, "access", newcall)
  BY ONLY Reinitialized(t), Zenon DEF Reinitialized
<1>. HIDE DEF newcall, bar0
<1>5. /\ ControlTypes' /\ pc'[t] = "access" /\ call'[t] = newcall /\ ended'[t] = Nothing
      /\ \A s \in Threads : s # t => pc'[s] = pc[s] /\ call'[s] = call[s] /\ ended'[s] = ended[s]
  BY <1>1, <1>3, <1>4, GotoEffect
<1>6. /\ c.found_epoch \in 0 .. MaxResets /\ note[t].since <= c.found_epoch
      /\ \A e \in Devices : renewed[e] <= c.found_epoch /\ handle[e] = c.found_epoch
  BY <1>1 DEF ThreadOK, AssignOK, Calls
<1>7. TypeOK'
  <2>1. WorldTypes'
    BY <1>1 DEF WorldTypes, world
  <2>2. lock' = "free" /\ \A s \in Threads : pc'[s] \notin {"discover", "assign"}
    BY <1>1, <1>2, <1>5 DEF Release
  <2>3. SharedTypes'
    BY <1>1, <2>2, TransportAssumption DEF SharedTypes
  <2>. QED  BY <1>5, <2>1, <2>3, TypesByKind, PTL
<1>8. HistoryTypeOK'
  BY <1>1, <1>6 DEF HistoryTypeOK
<1>9. HandlesOK'
  BY <1>1, <1>6 DEF HandlesOK, world
<1>10. OthersSame(t)
  BY <1>1, <1>2, <1>5, <1>6 DEF OthersSame, world
<1>11. CallOK(t)' /\ AssignOK(t)' /\ ExcusedOK(t)' /\ SearchOK(t)'
  BY <1>1, <1>3, <1>5 DEF CallOK, AssignOK, ExcusedOK, SearchOK
<1>12. EndedOK(t)'
  BY <1>5 DEF EndedOK, SigbusOK, FoundOK, RecoveredOK, Nothing
<1>13. RepeatOK(t)'
  BY <1>1, <1>3, <1>5, <1>6 DEF RepeatOK, ThreadOK, world
<1>. QED  BY <1>7, <1>8, <1>9, <1>10, <1>11, <1>12, <1>13 DEF StepOK, ThreadOK

\* A call enters.
LEMMA CallStepOK ==
  ASSUME IInv, NEW t \in Threads, NEW kind \in Operations, NEW d \in Devices, Call(t, kind, d)
  PROVE  StepOK(t)
<1>. USE Ranges
<1>1. /\ pc[t] = "idle" /\ calls < MaxCalls /\ calls' = calls + 1
      /\ UNCHANGED <<epoch, working, faults, link_changes, shared, renewed>>
      /\ ThreadOK(t) /\ HandlesOK /\ HistoryTypeOK
  <2>1. /\ pc[t] = "idle" /\ calls < MaxCalls /\ calls' = calls + 1
        /\ UNCHANGED <<epoch, working, faults, link_changes, shared, renewed>>
    BY ONLY Call(t, kind, d), Zenon DEF Call
  <2>. QED  BY <2>1 DEF IInv
<1>2. WorldTypes'
  BY <1>1, TransportAssumption DEF WorldTypes
<1>. DEFINE newended == [op |-> kind, dev |-> d, how |-> "not_mmio"]
            newcall == [NoCall EXCEPT !.op = kind, !.dev = d]
            since == IF kind = "bar0" THEN epoch ELSE 0
            newnote == [NoNote EXCEPT !.since = since]
<1>3. /\ newended \in Endings /\ newended.how = "not_mmio"
      /\ newcall \in Calls /\ newcall.op = kind /\ newcall.dev = d /\ ~newcall.again
  BY NoCallType DEF Endings, Calls, NoCall
<1>4. newnote \in Notes /\ newnote.since <= epoch
  <2>1. since \in 0 .. MaxResets /\ since <= epoch
    BY DEF WorldTypes
  <2>. HIDE DEF since
  <2>. QED  BY <2>1, NoCallType DEF Notes, NoNote
<1>5. \/ /\ ended' = [ended EXCEPT ![t] = newended]
         /\ note' = [note EXCEPT ![t] = NoNote]
         /\ UNCHANGED <<pc, call>>
      \/ /\ pc' = [pc EXCEPT ![t] = "access"]
         /\ call' = [call EXCEPT ![t] = newcall]
         /\ note' = [note EXCEPT ![t] = newnote]
         /\ ended' = [ended EXCEPT ![t] = Nothing]
  BY ONLY Call(t, kind, d), Zenon DEF Call
<1>. HIDE DEF newended, newcall, newnote, since
<1>6. CASE /\ ended' = [ended EXCEPT ![t] = newended]
           /\ note' = [note EXCEPT ![t] = NoNote]
           /\ UNCHANGED <<pc, call>>
  <2>1. ControlTypes' /\ ended'[t] = newended /\ \A s \in Threads : s # t => ended'[s] = ended[s]
    BY <1>3, <1>6 DEF ControlTypes
  <2>2. HistoryTypeOK' /\ note'[t] = NoNote /\ \A s \in Threads : s # t => note'[s] = note[s]
    BY <1>1, <1>6, NoCallType DEF HistoryTypeOK
  <2>3. TypeOK'
    <3>1. SharedTypes'
      BY <1>1, <1>6 DEF SharedTypes, shared
    <3>. QED  BY <1>2, <2>1, <3>1, TypesByKind, PTL
  <2>4. HandlesOK' /\ OthersSame(t)
    BY <1>1, <1>6, <2>1, <2>2 DEF HandlesOK, OthersSame, shared
  <2>5. EndedOK(t)'
    BY <1>1, <1>3, <1>6, <2>1 DEF EndedOK, SigbusOK, FoundOK, RecoveredOK
  <2>6. CallOK(t)' /\ AssignOK(t)' /\ ExcusedOK(t)' /\ SearchOK(t)'
    BY <1>1, <1>6 DEF CallOK, AssignOK, ExcusedOK, SearchOK
  <2>7. RepeatOK(t)'
    BY <1>1, <1>6, <2>2 DEF RepeatOK, NoNote
  <2>. QED  BY <2>2, <2>3, <2>4, <2>5, <2>6, <2>7 DEF StepOK, ThreadOK
<1>7. CASE /\ pc' = [pc EXCEPT ![t] = "access"]
           /\ call' = [call EXCEPT ![t] = newcall]
           /\ note' = [note EXCEPT ![t] = newnote]
           /\ ended' = [ended EXCEPT ![t] = Nothing]
  <2>1. /\ ControlTypes' /\ pc'[t] = "access" /\ call'[t] = newcall /\ ended'[t] = Nothing
        /\ \A s \in Threads : s # t => pc'[s] = pc[s] /\ call'[s] = call[s] /\ ended'[s] = ended[s]
    BY <1>3, <1>7, NoCallType DEF ControlTypes
  <2>2. HistoryTypeOK' /\ note'[t] = newnote /\ \A s \in Threads : s # t => note'[s] = note[s]
    BY <1>1, <1>4, <1>7 DEF HistoryTypeOK
  <2>3. TypeOK'
    <3>1. SharedTypes'
      BY <1>1, <2>1 DEF SharedTypes, shared
    <3>. QED  BY <1>2, <2>1, <3>1, TypesByKind, PTL
  <2>4. HandlesOK' /\ OthersSame(t)
    BY <1>1, <2>1, <2>2 DEF HandlesOK, OthersSame, shared
  <2>5. EndedOK(t)'
    BY <2>1 DEF EndedOK, SigbusOK, FoundOK, RecoveredOK, Nothing
  <2>6. CallOK(t)' /\ AssignOK(t)' /\ ExcusedOK(t)' /\ SearchOK(t)'
    BY <1>3, <2>1 DEF CallOK, AssignOK, ExcusedOK, SearchOK
  <2>7. RepeatOK(t)'
    BY <1>1, <1>3, <1>4, <2>1, <2>2 DEF RepeatOK
  <2>. QED  BY <2>2, <2>3, <2>4, <2>5, <2>6, <2>7 DEF StepOK, ThreadOK
<1>. QED  BY <1>6, <1>7, <1>5
---------------------------------------------------------------------------
(* The steps of the system around the process.                             *)

\* A reset makes every handle old and every search disturbed.
LEMMA ResetOK == ASSUME IInv, Reset PROVE IInv'
<1>. USE Ranges
<1>1. /\ epoch < MaxResets /\ epoch' = epoch + 1
      /\ UNCHANGED <<working, faults, link_changes, calls, shared, pc, call, ended, renewed>>
      /\ HandlesOK /\ HistoryTypeOK
  BY DEF Reset, IInv
<1>2. /\ note' \in [Threads -> Notes]
      /\ \A s \in Threads :
            /\ note'[s].since = note[s].since /\ note'[s].good = note[s].good
            /\ note'[s].excused = note[s].excused
            /\ note[s].disturbed \/ pc[s] \in {"search", "probe"} => note'[s].disturbed
  <2>. DEFINE mark(s) == note[s].disturbed \/ pc[s] \in {"search", "probe"}
  <2>1. note' = [s \in Threads |-> [note[s] EXCEPT !.disturbed = mark(s)]]
    BY ONLY Reset, Zenon DEF Reset
  <2>2. \A s \in Threads : mark(s) \in BOOLEAN
    BY DEF Notes
  <2>3. ASSUME NEW s \in Threads
        PROVE  /\ note'[s] \in Notes /\ note'[s].since = note[s].since
               /\ note'[s].good = note[s].good /\ note'[s].excused = note[s].excused
               /\ mark(s) => note'[s].disturbed
    <3>. HIDE DEF mark
    <3>. QED  BY <2>1, <2>2 DEF Notes
  <2>. QED  BY <2>1, <2>3
<1>3. TypeOK'
  <2>1. WorldTypes' /\ SharedTypes' /\ ControlTypes'
    BY <1>1 DEF WorldTypes, SharedTypes, ControlTypes, shared
  <2>. QED  BY <2>1, TypesByKind, PTL
<1>4. HistoryTypeOK' /\ HandlesOK'
  BY <1>1, <1>2 DEF HistoryTypeOK, HandlesOK, shared
<1>5. ASSUME NEW t \in Threads PROVE ThreadOK(t)'
  <2>. ThreadOK(t) /\ note[t].since \in Nat /\ call[t].found_epoch \in Nat
    BY DEF Notes, Calls
  <2>1. CallOK(t)' /\ ExcusedOK(t)' /\ SearchOK(t)'
    BY <1>1, <1>2 DEF ThreadOK, CallOK, ExcusedOK, SearchOK
  <2>2. AssignOK(t)'
    BY <1>1, <1>2 DEF ThreadOK, AssignOK, shared
  <2>3. RepeatOK(t)'
    BY <1>1, <1>2 DEF ThreadOK, RepeatOK
  <2>4. EndedOK(t)'
    BY <1>1, <1>2 DEF ThreadOK, EndedOK, SigbusOK, FoundOK, RecoveredOK
  <2>. QED  BY <2>1, <2>2, <2>3, <2>4 DEF ThreadOK
<1>. QED  BY <1>3, <1>4, <1>5 DEF IInv

\* A core that stops or starts is no longer one that has worked all the time.
LEMMA LinkChangesOK == ASSUME IInv, NEW e \in Eths, LinkChanges(e) PROVE IInv'
<1>. USE Ranges
<1>1. /\ link_changes < MaxLinkChanges /\ link_changes' = link_changes + 1
      /\ working' = IF e \in working THEN working \ {e} ELSE working \cup {e}
      /\ UNCHANGED <<epoch, faults, calls, shared, pc, call, ended, renewed>>
      /\ HandlesOK /\ HistoryTypeOK
  BY DEF LinkChanges, IInv
<1>2. /\ note' \in [Threads -> Notes]
      /\ \A s \in Threads :
            /\ note'[s].since = note[s].since /\ note'[s].disturbed = note[s].disturbed
            /\ note'[s].excused = note[s].excused
            /\ note'[s].good = IF pc[s] = "idle" THEN note[s].good ELSE note[s].good \ {e}
  <2>. DEFINE left(s) == IF pc[s] = "idle" THEN note[s].good ELSE note[s].good \ {e}
  <2>1. note' = [s \in Threads |-> [note[s] EXCEPT !.good = left(s)]]
    BY ONLY LinkChanges(e), Zenon DEF LinkChanges
  <2>2. \A s \in Threads : left(s) \in SUBSET Eths
    BY DEF Notes
  <2>3. ASSUME NEW s \in Threads
        PROVE  /\ note'[s] \in Notes /\ note'[s].since = note[s].since
               /\ note'[s].disturbed = note[s].disturbed /\ note'[s].excused = note[s].excused
               /\ note'[s].good = left(s)
    <3>. HIDE DEF left
    <3>. QED  BY <2>1, <2>2 DEF Notes
  <2>. QED  BY <2>1, <2>3
<1>3. TypeOK'
  <2>1. WorldTypes' /\ SharedTypes' /\ ControlTypes'
    BY <1>1, TransportAssumption DEF WorldTypes, SharedTypes, ControlTypes, shared
  <2>. QED  BY <2>1, TypesByKind, PTL
<1>4. HistoryTypeOK' /\ HandlesOK'
  BY <1>1, <1>2 DEF HistoryTypeOK, HandlesOK, shared
<1>5. ASSUME NEW t \in Threads PROVE ThreadOK(t)'
  <2>. ThreadOK(t)
    OBVIOUS
  <2>1. CallOK(t)' /\ ExcusedOK(t)' /\ AssignOK(t)' /\ RepeatOK(t)'
    BY <1>1, <1>2 DEF ThreadOK, CallOK, ExcusedOK, AssignOK, RepeatOK, shared
  <2>2. SearchOK(t)'
    <3>1. note[t].good \subseteq working => note[t].good \ {e} \subseteq working'
      BY <1>1
    <3>2. SUFFICES ASSUME pc[t] \in {"search", "probe"} PROVE SearchOK(t)'
      BY <1>1 DEF SearchOK
    <3>3. note'[t].good = note[t].good \ {e} /\ note'[t].disturbed = note[t].disturbed
      BY <1>2, <3>2
    <3>4. UNCHANGED <<epoch, handle, eth, pc, call>>
      BY <1>1 DEF shared
    <3>. QED  BY <3>1, <3>3, <3>4 DEF ThreadOK, SearchOK
  <2>3. EndedOK(t)'
    BY <1>1, <1>2 DEF ThreadOK, EndedOK, SigbusOK, FoundOK, RecoveredOK, Nothing
  <2>. QED  BY <2>1, <2>2, <2>3 DEF ThreadOK
<1>. QED  BY <1>3, <1>4, <1>5 DEF IInv
---------------------------------------------------------------------------
(* The invariant and the properties.                                       *)

LEMMA InitInv == Init => IInv
<1>. SUFFICES ASSUME Init PROVE IInv
  OBVIOUS
<1>1. /\ epoch = 0 /\ faults = 0 /\ link_changes = 0 /\ calls = 0 /\ working \in SUBSET Eths
      /\ handle = [d \in Devices |-> 0] /\ eth \in [Remote -> Eths] /\ lock = "free"
      /\ pc = [t \in Threads |-> "idle"] /\ call = [t \in Threads |-> NoCall]
      /\ ended = [t \in Threads |-> Nothing] /\ note = [t \in Threads |-> NoNote]
      /\ renewed = [d \in Devices |-> 0]
  BY DEF Init
<1>2. /\ 0 \in 0 .. MaxResets /\ 0 \in 0 .. MaxFaults /\ 0 \in 0 .. MaxLinkChanges
      /\ 0 \in 0 .. MaxCalls
  BY TransportAssumption
<1>3. TypeOK
  <2>1. WorldTypes /\ SharedTypes
    BY <1>1, <1>2, TransportAssumption DEF WorldTypes, SharedTypes
  <2>2. ControlTypes
    BY <1>1, NoCallType DEF ControlTypes
  <2>. QED  BY <2>1, <2>2, TypesByKind
<1>4. HistoryTypeOK /\ HandlesOK
  BY <1>1, <1>2, NoCallType DEF HistoryTypeOK, HandlesOK
<1>5. ASSUME NEW t \in Threads PROVE ThreadOK(t)
  <2>1. pc[t] = "idle" /\ ended[t] = Nothing /\ note[t].since = 0
    BY <1>1 DEF NoNote
  <2>2. CallOK(t) /\ AssignOK(t) /\ RepeatOK(t) /\ ExcusedOK(t) /\ SearchOK(t)
    BY <1>1, <2>1 DEF CallOK, AssignOK, RepeatOK, ExcusedOK, SearchOK
  <2>3. EndedOK(t)
    BY <2>1 DEF EndedOK, SigbusOK, FoundOK, RecoveredOK, Nothing
  <2>. QED  BY <2>2, <2>3 DEF ThreadOK
<1>. QED  BY <1>3, <1>4, <1>5 DEF IInv

\* A step of one thread keeps the invariant of all.
LEMMA ThreadStep == ASSUME IInv, NEW t \in Threads, StepOK(t) PROVE IInv'
<1>1. \A s \in Threads : ThreadOK(s)'
  BY OthersOK DEF StepOK
<1>. QED  BY <1>1 DEF StepOK, IInv

LEMMA NextInv == IInv /\ [Next]_vars => IInv'
<1>. SUFFICES ASSUME IInv, [Next]_vars PROVE IInv'
  OBVIOUS
<1>1. ASSUME NEW t \in Threads, Step(t) PROVE IInv'
  <2>1. StepOK(t)
    BY <1>1, AccessOK, SelectEthOK, ProbeEthOK, AcquireOK, DiscoverOK, ReinitializedOK,
       AssignStepOK DEF Step
  <2>. QED  BY <2>1, ThreadStep
<1>2. ASSUME NEW t \in Threads, NEW o \in Operations, NEW d \in Devices, Call(t, o, d) PROVE IInv'
  BY <1>2, CallStepOK, ThreadStep
<1>3. CASE UNCHANGED vars
  <2>1. TypeOK'
    BY <1>3 DEF IInv, TypeOK, vars, world, shared
  <2>2. HistoryTypeOK' /\ HandlesOK'
    BY <1>3 DEF IInv, HistoryTypeOK, HandlesOK, vars, world, shared
  <2>3. \A t \in Threads : ThreadOK(t)'
    BY <1>3 DEF IInv, ThreadOK, CallOK, AssignOK, RepeatOK, ExcusedOK, SearchOK, EndedOK, SigbusOK,
                FoundOK, RecoveredOK, vars, world, shared
  <2>. QED  BY <2>1, <2>2, <2>3 DEF IInv
<1>. QED  BY <1>1, <1>2, <1>3, ResetOK, LinkChangesOK DEF Next

LEMMA Invariance == Spec => []IInv
BY InitInv, NextInv, PTL DEF Spec

\* Every call is at a step of the protocol, and reset_lock is held by the one
\* thread that discovers or assigns.
THEOREM TypeCorrect == Spec => []TypeOK
BY Invariance, PTL DEF IInv

\* After a successful re-initialization no device of the registry is left with
\* a handle older than the topology that was discovered, whatever the other
\* threads do (umd_api.py 222-233).
THEOREM AllHandlesRenewed == Spec => []AllRenewed
<1>1. IInv => AllRenewed
  BY DEF IInv, HandlesOK, AllRenewed
<1>. QED  BY <1>1, Invariance, PTL

\* A SIGBUS reaches the caller of a bar0 access only, and only when a reset
\* struck during the call (umd_device.py 339-343).
THEOREM SigbusIsHandled == Spec => []SigbusHandled
<1>1. IInv => SigbusHandled
  BY DEF IInv, ThreadOK, EndedOK, SigbusOK, SigbusHandled
<1>. QED  BY <1>1, Invariance, PTL

\* An access to a device with MMIO ends in a failure only when one of its
\* accesses failed by itself or a discovery was incomplete.
THEOREM LocalDevicesRecover == Spec => []LocalRecovers
<1>1. IInv => LocalRecovers
  BY DEF IInv, ThreadOK, EndedOK, RecoveredOK, LocalRecovers
<1>. QED  BY <1>1, Invariance, PTL

\* A search that nothing has disturbed gives up only when no Ethernet core has
\* worked since it began (umd_device.py 125-136).
THEOREM WorkingEthIsFound == Spec => []WorkingEthFound
<1>1. IInv => WorkingEthFound
  BY DEF IInv, ThreadOK, EndedOK, FoundOK, WorkingEthFound
<1>. QED  BY <1>1, Invariance, PTL
=============================================================================
