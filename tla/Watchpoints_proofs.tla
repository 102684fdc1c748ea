------------------------- MODULE Watchpoints_proofs -------------------------
(***************************************************************************)
(* Theorems about Watchpoints for any number of slots, addresses and       *)
(* failing accesses: the slots hold no point twice, they hold what the     *)
(* client believes inserted, and the handlers implement WatchpointSet.     *)
(***************************************************************************)
EXTENDS Watchpoints, FiniteSetTheorems, FunctionTheorems, TLAPS

---------------------------------------------------------------------------
(* The settings of a slot.                                                 *)

\* What the server ever writes into the four bits of a slot.
Written == {0} \cup 8 .. 11

\* A slot that was written is enabled exactly when it holds a kind, and the
\* bits of the kind name it.
LEMMA KindOfWritten ==
  ASSUME NEW v \in Written
  PROVE  /\ is_enabled(v) <=> v # 0
         /\ is_enabled(v) => /\ KindOf(v) \in Kinds
                             /\ v = ENABLED_BIT + KindBits(KindOf(v))
<1>1. is_enabled(v) <=> v # 0
  BY DEF Written, is_enabled
<1>2. CASE v # 0
  <2>1. \E k \in Kinds : KindBits(k) = v % 4
    BY <1>2 DEF Written, Kinds, KindBits
  <2>2. KindOf(v) \in Kinds /\ KindBits(KindOf(v)) = v % 4
    BY <2>1 DEF KindOf
  <2>3. v = 8 + (v % 4)
    BY <1>2 DEF Written
  <2>. QED  BY <1>1, <2>2, <2>3 DEF ENABLED_BIT
<1>3. CASE v = 0
  BY <1>1, <1>3
<1>. QED  BY <1>2, <1>3

\* The kind that a setting is made of is the kind that it has.
LEMMA KindOfNew ==
  ASSUME NEW k \in Kinds
  PROVE  /\ ENABLED_BIT + KindBits(k) \in 8 .. 11
         /\ KindOf(ENABLED_BIT + KindBits(k)) = k
<1>. DEFINE v == ENABLED_BIT + KindBits(k)
<1>1. v \in 8 .. 11
  BY DEF ENABLED_BIT, KindBits, Kinds
<1>2. KindOf(v) \in Kinds /\ v = ENABLED_BIT + KindBits(KindOf(v))
  BY <1>1, KindOfWritten DEF Written, is_enabled
<1>3. KindBits(KindOf(v)) = KindBits(k)
  BY <1>2 DEF ENABLED_BIT, KindBits, Kinds
<1>. QED  BY <1>1, <1>2, <1>3 DEF KindBits, Kinds

\* The test of a handler lets through its own kind, and of the others only
\* memory watchpoints to handlers of memory watchpoints.
LEMMA TestsKind ==
  ASSUME NEW k \in Kinds, NEW v \in 8 .. 11
  PROVE  /\ KindOf(v) = k => Tests(k, v)
         /\ Tests(k, v) /\ KindOf(v) # k => "break" \notin {KindOf(v), k}
<1>1. KindOf(v) \in Kinds /\ v = ENABLED_BIT + KindBits(KindOf(v))
  BY KindOfWritten DEF Written, is_enabled
<1>2. v % 4 = v - 8 /\ v % 2 = (IF v \in {9, 11} THEN 1 ELSE 0)
  OBVIOUS
<1>3. (v \div 2) % 2 = IF v \in {10, 11} THEN 1 ELSE 0
  <2>1. v \div 2 = IF v \in {8, 9} THEN 4 ELSE 5
    OBVIOUS
  <2>. QED  BY <2>1
<1>4. ASSUME NEW j \in Kinds, v = ENABLED_BIT + KindBits(j)
      PROVE  /\ j = k => Tests(k, v)
             /\ Tests(k, v) /\ j # k => "break" \notin {j, k}
  <2>. USE <1>2, <1>3, <1>4 DEF ENABLED_BIT, KindBits, Tests, is_memory, is_read, is_write,
                                is_access
  <2>1. CASE k = "break"
    BY <2>1 DEF Kinds
  <2>2. CASE k = "write"
    BY <2>2 DEF Kinds
  <2>3. CASE k = "read"
    BY <2>3 DEF Kinds
  <2>4. CASE k = "access"
    BY <2>4 DEF Kinds
  <2>. QED  BY <2>1, <2>2, <2>3, <2>4 DEF Kinds
<1>. QED  BY <1>1, <1>4
---------------------------------------------------------------------------
\* A set of slots that is not empty has a first one.
LEMMA FirstSlot ==
  ASSUME NEW S \in SUBSET Slots, S # {}
  PROVE  Min(S) \in S
<1>. DEFINE F == {S \cap (0 .. n) : n \in S}
<1>1. S \subseteq Nat
  BY SlotsAssumption DEF Slots
<1>2. F \subseteq FiniteSubsetsOf(Nat)
  <2>1. ASSUME NEW n \in S  PROVE S \cap (0 .. n) \in FiniteSubsetsOf(Nat)
    <3>1. IsFiniteSet(0 .. n)
      BY <1>1, FS_Interval
    <3>. QED  BY <3>1, FS_Intersection, <1>1 DEF FiniteSubsetsOf
  <2>. QED  BY <2>1
<1>3. F # {}
  OBVIOUS
<1>4. IsWellFoundedOn(StrictSubsetOrdering(Nat), FiniteSubsetsOf(Nat))
  BY FS_StrictSubsetOrderingWellFounded
<1>5. PICK A \in F : \A B \in F : <<B, A>> \notin StrictSubsetOrdering(Nat)
  <2>. HIDE DEF F
  <2>. QED  BY <1>2, <1>3, <1>4, WFMin
<1>6. PICK n \in S : A = S \cap (0 .. n)
  OBVIOUS
<1>7. ASSUME NEW m \in S  PROVE n <= m
  <2>. SUFFICES ASSUME m < n  PROVE FALSE
    BY <1>1
  <2>1. S \cap (0 .. m) \in F
    OBVIOUS
  <2>2. S \cap (0 .. m) \subseteq A /\ n \in A /\ n \notin S \cap (0 .. m)
    BY <1>1, <1>6
  <2>. QED  BY <1>1, <1>5, <1>6, <2>1, <2>2 DEF StrictSubsetOrdering
<1>. QED  BY <1>7 DEF Min
---------------------------------------------------------------------------
(* The inductive invariant.                                                *)

Enabled == {i \in Slots : is_enabled(settings[i])}
PointOf(i) == <<KindOf(settings[i]), address[i]>>

\* What is in the slots: nothing, or a point of the client.
SlotsOK ==
  \A i \in Slots : /\ settings[i] \in Written
                   /\ is_enabled(settings[i]) => address[i] \in Addresses

\* The copies that a handler works on are those of the slots.
CopyOK ==
  /\ pc \in {"search", "address", "rmw_read", "rmw_write"} => watchpoints = settings
  /\ pc = "rmw_write" => old_settings = settings

\* No slot has the address of the request with another kind of watchpoint.
RequestOK == pc # "idle" => ~Conflicts(request, planted)

\* The slot that is being written is free and gets a new point, or it holds
\* the point that is to be removed.
ChosenOK ==
  /\ pc = "address" => insert
  /\ pc \in {"address", "rmw_read", "rmw_write"} =>
       IF insert
       THEN /\ ~is_enabled(settings[slot]) /\ request \notin planted
            /\ pc # "address" => address[slot] = request[2]
       ELSE is_enabled(settings[slot]) /\ PointOf(slot) = request

IInv == TypeOK /\ SlotsOK /\ CopyOK /\ RequestOK /\ ChosenOK /\ NoPointTwice /\ BelievedIsPlanted
---------------------------------------------------------------------------
(* The points that the slots hold.                                         *)

LEMMA PlantedPoints ==
  /\ planted = {PointOf(i) : i \in Enabled}
  /\ SlotsOK => planted \subseteq Points
<1>1. planted = {PointOf(i) : i \in Enabled}
  BY DEF planted, PointOf, Enabled
<1>2. ASSUME SlotsOK, NEW i \in Enabled  PROVE PointOf(i) \in Points
  BY <1>2, KindOfWritten DEF SlotsOK, Enabled, PointOf, Points
<1>. QED  BY <1>1, <1>2

\* No two slots hold one point, in terms of points.
OnePointPerSlot == \A i, j \in Enabled : PointOf(i) = PointOf(j) => i = j

LEMMA NoPointTwiceMeans == SlotsOK => (NoPointTwice <=> OnePointPerSlot)
<1>. SUFFICES ASSUME SlotsOK  PROVE NoPointTwice <=> OnePointPerSlot
  OBVIOUS
<1>1. ASSUME NEW i \in Enabled, NEW j \in Enabled
      PROVE  settings[i] = settings[j] <=> KindOf(settings[i]) = KindOf(settings[j])
  BY KindOfWritten DEF SlotsOK, Enabled
<1>. QED  BY <1>1 DEF NoPointTwice, OnePointPerSlot, Enabled, PointOf

\* The slots a handler finds are those that hold the point it is asked for.
LEMMA MatchingPoints ==
  ASSUME TypeOK, SlotsOK, ~Conflicts(request, planted)
  PROVE  Matching(settings, address, request) = {i \in Enabled : PointOf(i) = request}
<1>1. request[1] \in Kinds /\ request[2] \in Addresses /\ request = <<request[1], request[2]>>
  BY DEF TypeOK, Points
<1>2. ASSUME NEW i \in Enabled, address[i] = request[2]
      PROVE  Tests(request[1], settings[i]) <=> KindOf(settings[i]) = request[1]
  <2>1. settings[i] \in 8 .. 11
    BY KindOfWritten DEF SlotsOK, Enabled, Written
  <2>2. PointOf(i) \in planted
    BY PlantedPoints
  <2>3. ~(KindOf(settings[i]) # request[1] /\ "break" \notin {KindOf(settings[i]), request[1]})
    BY <1>2, <2>2 DEF Conflicts, PointOf
  <2>. QED  BY <1>1, <2>1, <2>3, TestsKind
<1>. QED  BY <1>1, <1>2 DEF Matching, Enabled, PointOf

\* What the write of the settings does to the points.
LEMMA WriteEffect ==
  ASSUME IInv, pc = "rmw_write", settings' = NewSettings, address' = address
  PROVE  /\ planted' = IF insert THEN planted \cup {request} ELSE planted \ {request}
         /\ settings' \in [Slots -> 0 .. 15]
         /\ SlotsOK' /\ NoPointTwice'
<1>. USE DEF IInv
<1>1. /\ settings' = [settings EXCEPT ![slot] = NewSetting]
      /\ slot \in Slots /\ settings \in [Slots -> 0 .. 15]
      /\ request = <<request[1], request[2]>> /\ request[1] \in Kinds /\ request[2] \in Addresses
  BY DEF TypeOK, CopyOK, NewSettings, Points
<1>2. settings'[slot] = NewSetting /\ \A i \in Slots \ {slot} : settings'[i] = settings[i]
  BY <1>1
<1>3. CASE insert
  <2>1. /\ NewSetting \in 8 .. 11 /\ KindOf(NewSetting) = request[1]
        /\ address[slot] = request[2] /\ slot \notin Enabled /\ request \notin planted
    BY <1>1, <1>3, KindOfNew DEF NewSetting, ChosenOK, Enabled
  <2>2. is_enabled(NewSetting) /\ NewSetting \in Written /\ NewSetting \in 0 .. 15
    BY <2>1, KindOfWritten DEF Written
  <2>3. settings' \in [Slots -> 0 .. 15] /\ SlotsOK'
    BY <1>1, <1>2, <2>1, <2>2 DEF SlotsOK
  <2>4. Enabled' = Enabled \cup {slot}
    BY <1>1, <1>2, <2>2 DEF Enabled
  <2>5. /\ \A i \in {slot} : PointOf(i)' = request
       /\ \A i \in Enabled : PointOf(i)' = PointOf(i)
    BY <1>1, <1>2, <2>1 DEF PointOf, Enabled
  <2>6. planted' = planted \cup {request}
    <3>1. planted' = {PointOf(i)' : i \in Enabled'}
      BY DEF planted, PointOf, Enabled
    <3>. QED  BY <2>4, <2>5, <3>1, PlantedPoints
  <2>7. OnePointPerSlot'
    <3>1. \A i \in Enabled : PointOf(i) # request
      BY <2>1, PlantedPoints
    <3>2. OnePointPerSlot
      BY NoPointTwiceMeans
    <3>. QED  BY <2>4, <2>5, <3>1, <3>2 DEF OnePointPerSlot
  <2>8. NoPointTwice'
    BY <2>3, <2>7, NoPointTwiceMeans, PTL
  <2>. QED  BY <1>3, <2>3, <2>6, <2>8
<1>4. CASE ~insert
  <2>1. /\ NewSetting = 0 /\ ~is_enabled(0) /\ 0 \in Written
        /\ slot \in Enabled /\ PointOf(slot) = request
    BY <1>1, <1>4, KindOfWritten DEF NewSetting, ChosenOK, Enabled, Written
  <2>2. settings' \in [Slots -> 0 .. 15] /\ SlotsOK'
    BY <1>1, <1>2, <2>1 DEF SlotsOK
  <2>3. Enabled' = Enabled \ {slot}
    BY <1>1, <1>2, <2>1 DEF Enabled
  <2>4. \A i \in Enabled' : PointOf(i)' = PointOf(i)
    BY <1>1, <1>2, <2>3 DEF PointOf, Enabled
  <2>5. OnePointPerSlot
    BY NoPointTwiceMeans
  <2>6. planted' = planted \ {request}
    <3>1. planted' = {PointOf(i)' : i \in Enabled'}
      BY DEF planted, PointOf, Enabled
    <3>. QED  BY <2>1, <2>3, <2>4, <2>5, <3>1, PlantedPoints DEF OnePointPerSlot
  <2>7. OnePointPerSlot'
    BY <2>3, <2>4, <2>5 DEF OnePointPerSlot
  <2>8. NoPointTwice'
    BY <2>2, <2>7, NoPointTwiceMeans, PTL
  <2>. QED  BY <1>4, <2>2, <2>6, <2>8
<1>. QED  BY <1>3, <1>4
---------------------------------------------------------------------------
(* The steps keep the invariant.                                           *)

LEMMA InitInv == Init => IInv
<1>. SUFFICES ASSUME Init  PROVE IInv
  OBVIOUS
<1>1. 0 \in Slots /\ 0 \in Written /\ ~is_enabled(0)
  BY SlotsAssumption, KindOfWritten DEF Slots, Written
<1>2. Enabled = {}
  BY <1>1 DEF Init, Enabled
<1>3. TypeOK
  <2>1. /\ settings \in [Slots -> 0 .. 15] /\ watchpoints \in [Slots -> 0 .. 15]
        /\ old_settings \in [Slots -> 0 .. 15]
    BY DEF Init
  <2>2. address \in [Slots -> Addresses \cup {NoAddress}] /\ faults \in 0 .. MaxFaults
    BY SlotsAssumption DEF Init
  <2>. QED  BY <1>1, <2>1, <2>2 DEF Init, TypeOK
<1>4. SlotsOK
  BY <1>1 DEF Init, SlotsOK
<1>5. NoPointTwice
  BY <1>2 DEF NoPointTwice, Enabled
<1>. QED  BY <1>3, <1>4, <1>5
          DEF Init, IInv, CopyOK, RequestOK, ChosenOK, BelievedIsPlanted

\* The slots and the points in them follow the two registers.
LEMMA SlotsKept ==
  ASSUME UNCHANGED chip, SlotsOK, NoPointTwice
  PROVE  SlotsOK' /\ NoPointTwice' /\ planted' = planted
BY DEF chip, SlotsOK, NoPointTwice, planted

LEMMA SearchStep ==
  ASSUME IInv, Search
  PROVE  IInv'
<1>. USE DEF IInv
<1>1. SlotsOK' /\ NoPointTwice' /\ planted' = planted
  BY SlotsKept DEF Search
<1>2. /\ settings' = settings /\ address' = address /\ request' = request /\ insert' = insert
      /\ watchpoints' = watchpoints /\ old_settings' = old_settings /\ faults' = faults
  BY DEF Search, chip
<1>3. watchpoints = settings /\ ~Conflicts(request, planted)
  BY DEF Search, CopyOK, RequestOK
<1>. DEFINE found == {i \in Enabled : PointOf(i) = request}
            free  == Slots \ Enabled
<1>4. Matching(watchpoints, address, request) = found /\ Free(watchpoints) = free
  BY <1>3, MatchingPoints DEF Free, Enabled
<1>5. request \in planted <=> found # {}
  BY PlantedPoints
<1>6. Conflicts(request, planted)' <=> Conflicts(request, planted)
  BY <1>1, <1>2 DEF Conflicts
<1>7. CASE found # {} /\ insert /\ Answer("OK") /\ UNCHANGED slot
  BY <1>1, <1>2, <1>5, <1>7
     DEF Answer, TypeOK, CopyOK, RequestOK, ChosenOK, BelievedIsPlanted
<1>8. CASE found # {} /\ ~insert /\ Choose(Min(found), "rmw_read")
  <2>1. slot' \in found /\ pc' = "rmw_read" /\ UNCHANGED <<reply, believed>>
    BY <1>8, FirstSlot DEF Choose, Enabled
  <2>2. ChosenOK'
    BY <1>2, <1>8, <2>1 DEF ChosenOK, Enabled, PointOf
  <2>. QED  BY <1>1, <1>2, <1>3, <1>6, <2>1, <2>2
            DEF TypeOK, CopyOK, RequestOK, BelievedIsPlanted, Enabled
<1>9. CASE found = {} /\ ~insert /\ Answer("unsupported") /\ UNCHANGED slot
  BY <1>1, <1>2, <1>9
     DEF Answer, TypeOK, CopyOK, RequestOK, ChosenOK, BelievedIsPlanted
<1>10. CASE found = {} /\ insert /\ free # {} /\ Choose(Min(free), "address")
  <2>1. slot' \in free /\ pc' = "address" /\ UNCHANGED <<reply, believed>>
    BY <1>10, FirstSlot DEF Choose, Enabled
  <2>2. ChosenOK'
    BY <1>1, <1>2, <1>5, <1>10, <2>1 DEF ChosenOK, Enabled
  <2>3. TypeOK'
    BY <1>2, <2>1 DEF TypeOK
  <2>. QED  BY <1>1, <1>2, <1>3, <1>6, <2>1, <2>2, <2>3
            DEF CopyOK, RequestOK, BelievedIsPlanted
<1>11. CASE found = {} /\ insert /\ free = {} /\ Answer("E01") /\ UNCHANGED slot
  <2>1. /\ reply' = "E01" /\ pc' = "idle" /\ believed' = believed /\ slot' = slot
    BY <1>11 DEF Answer
  <2>2. TypeOK'
    BY <1>2, <2>1 DEF TypeOK
  <2>. QED  BY <1>1, <2>1, <2>2 DEF CopyOK, RequestOK, ChosenOK, BelievedIsPlanted
<1>. QED  BY <1>4, <1>7, <1>8, <1>9, <1>10, <1>11 DEF Search

\* The address register of a free slot says nothing about the points.
LEMMA WriteAddressStep ==
  ASSUME IInv, WriteAddress
  PROVE  IInv' /\ planted' = planted
<1>. USE DEF IInv, WriteAddress, locals
<1>1. slot \in Slots /\ slot \notin Enabled /\ insert /\ request[2] \in Addresses
  BY DEF ChosenOK, TypeOK, Enabled, Points
<1>2. \A i \in Enabled : address'[i] = address[i]
  BY <1>1 DEF TypeOK, Enabled
<1>3. address' \in [Slots -> Addresses \cup {NoAddress}] /\ address'[slot] = request[2]
  BY <1>1 DEF TypeOK
<1>4. planted' = planted
  BY <1>2 DEF planted, Enabled
<1>5. SlotsOK' /\ NoPointTwice'
  BY <1>2 DEF SlotsOK, NoPointTwice, Enabled
<1>6. TypeOK'
  BY <1>3 DEF TypeOK
<1>7. ChosenOK' /\ CopyOK'
  BY <1>3, <1>4 DEF ChosenOK, CopyOK
<1>8. RequestOK' /\ BelievedIsPlanted'
  BY <1>4 DEF RequestOK, Conflicts, BelievedIsPlanted
<1>. QED  BY <1>4, <1>5, <1>6, <1>7, <1>8

LEMMA WriteSettingsStep ==
  ASSUME IInv, WriteSettings
  PROVE  IInv'
<1>. USE DEF IInv, WriteSettings, locals, Answer
<1>1. /\ planted' = IF insert THEN planted \cup {request} ELSE planted \ {request}
      /\ settings' \in [Slots -> 0 .. 15]
      /\ SlotsOK' /\ NoPointTwice'
  BY WriteEffect
<1>2. TypeOK'
  BY <1>1 DEF TypeOK
<1>3. BelievedIsPlanted'
  BY <1>1 DEF BelievedIsPlanted
<1>. QED  BY <1>1, <1>2, <1>3 DEF CopyOK, RequestOK, ChosenOK

\* A write of the settings that times out may have had its effect.
LEMMA AccessFailsStep ==
  ASSUME IInv, AccessFails
  PROVE  /\ IInv'
         /\ planted' \in {planted, planted \cup {request}, planted \ {request}}
<1>. USE DEF IInv, AccessFails, locals
<1>1. /\ SlotsOK' /\ NoPointTwice' /\ settings' \in [Slots -> 0 .. 15]
      /\ planted' \in {planted, planted \cup {request}, planted \ {request}}
  <2>1. CASE settings' = settings
    BY <2>1, SlotsKept DEF chip, TypeOK
  <2>2. CASE pc = "rmw_write" /\ settings' = NewSettings
    BY <2>2, WriteEffect
  <2>. QED  BY <2>1, <2>2
<1>2. TypeOK'
  BY <1>1, SlotsAssumption DEF TypeOK
<1>. QED  BY <1>1, <1>2 DEF CopyOK, RequestOK, ChosenOK, BelievedIsPlanted

LEMMA NextInv == IInv /\ [Next]_vars => IInv'
<1>. SUFFICES ASSUME IInv, [Next]_vars  PROVE IInv'
  OBVIOUS
<1>. USE DEF IInv
<1>1. ASSUME NEW z \in BOOLEAN, NEW w \in Points, Packet(z, w)  PROVE IInv'
  <2>1. SlotsOK' /\ NoPointTwice' /\ planted' = planted
    BY <1>1, SlotsKept DEF Packet
  <2>. QED  BY <1>1, <2>1
            DEF Packet, chip, TypeOK, CopyOK, RequestOK, Conflicts, ChosenOK, BelievedIsPlanted
<1>2. CASE ReadSettings
  <2>1. SlotsOK' /\ NoPointTwice' /\ planted' = planted
    BY <1>2, SlotsKept DEF ReadSettings
  <2>. QED  BY <1>2, <2>1
            DEF ReadSettings, chip, TypeOK, CopyOK, RequestOK, Conflicts, ChosenOK, BelievedIsPlanted
<1>3. CASE Search
  BY <1>3, SearchStep
<1>4. CASE WriteAddress
  BY <1>4, WriteAddressStep
<1>5. CASE ReadOldSettings
  <2>1. SlotsOK' /\ NoPointTwice' /\ planted' = planted
    BY <1>5, SlotsKept DEF ReadOldSettings
  <2>2. ChosenOK'
    BY <1>5, <2>1 DEF ReadOldSettings, chip, ChosenOK, PointOf
  <2>. QED  BY <1>5, <2>1, <2>2
            DEF ReadOldSettings, chip, TypeOK, CopyOK, RequestOK, Conflicts, BelievedIsPlanted
<1>6. CASE WriteSettings
  BY <1>6, WriteSettingsStep
<1>7. CASE AccessFails
  BY <1>7, AccessFailsStep
<1>8. CASE NewClient
  <2>1. SlotsOK' /\ NoPointTwice' /\ planted' = planted
    BY <1>8, SlotsKept DEF NewClient
  <2>. QED  BY <1>8, <2>1
            DEF NewClient, chip, locals, TypeOK, CopyOK, RequestOK, ChosenOK, BelievedIsPlanted
<1>9. CASE UNCHANGED vars
  <2>1. SlotsOK' /\ NoPointTwice' /\ planted' = planted
    BY <1>9, SlotsKept DEF vars
  <2>. QED  BY <1>9, <2>1
            DEF vars, chip, locals, TypeOK, CopyOK, RequestOK, Conflicts, ChosenOK, PointOf,
                BelievedIsPlanted
<1>. QED  BY <1>1, <1>2, <1>3, <1>4, <1>5, <1>6, <1>7, <1>8, <1>9 DEF Next

\* The inductive invariant holds.
LEMMA Invariance == Spec => []IInv
BY InitInv, NextInv, PTL DEF Spec
---------------------------------------------------------------------------
(* The theorems.                                                           *)

\* The variables stay in their types (gdb_server.py 1015-1216): the settings
\* of a slot fit into four bits, the slot that a handler has chosen is one of
\* the core's.
THEOREM TypeCorrect == Spec => []TypeOK
BY Invariance, PTL DEF IInv

\* No two slots hold one point, for any number of slots, sessions and failing
\* accesses (gdb_server.py 1092-1104).
THEOREM SlotsHoldNoPointTwice == Spec => []NoPointTwice
BY Invariance, PTL DEF IInv

\* What the client of the session believes inserted is watched by a slot
\* (gdb_server.py 1028, 1103).
THEOREM BelievedPointsAreWatched == Spec => []BelievedIsPlanted
BY Invariance, PTL DEF IInv
---------------------------------------------------------------------------
(* The refinement.                                                         *)

\* There are at most as many points as slots, and as many when none is free.
LEMMA CountPoints ==
  ASSUME IInv
  PROVE  /\ IsFiniteSet(planted)
         /\ Cardinality(planted) <= NumSlots
         /\ Enabled = Slots => Cardinality(planted) = NumSlots
<1>. DEFINE hold == [i \in Enabled |-> PointOf(i)]
<1>1. IsFiniteSet(Slots) /\ Cardinality(Slots) = NumSlots
  BY SlotsAssumption, FS_Interval DEF Slots
<1>2. IsFiniteSet(Enabled) /\ Cardinality(Enabled) <= NumSlots
  BY <1>1, FS_Subset DEF Enabled
<1>3. hold \in [Enabled -> planted]
  BY PlantedPoints
<1>4. hold \in Surjection(Enabled, planted)
  BY <1>3, PlantedPoints, Fun_IsSurj
<1>5. hold \in Injection(Enabled, planted)
  BY <1>3, NoPointTwiceMeans, Fun_IsInj DEF IInv, OnePointPerSlot
<1>6. IsFiniteSet(planted) /\ Cardinality(planted) = Cardinality(Enabled)
  <2>. HIDE DEF hold
  <2>. QED  BY <1>2, <1>4, <1>5, FS_Surjection
<1>. QED  BY <1>1, <1>2, <1>6

\* The set counts its points as the slots are counted.
LEMMA SameCardinality == \A S : PointSet!Cardinality(S) = Cardinality(S)
BY DEF PointSet!Cardinality, Cardinality

\* A step of the handlers is a step of the set, or leaves it and the reply.
LEMMA RefinedStep ==
  ASSUME IInv, IInv', [Next]_vars
  PROVE  [PointSet!Next]_<<planted, reply>>
<1>. USE DEF PointSet!Next, PointSet!Await
<1>1. /\ request \in Points
      /\ Cardinality(planted) <= NumSlots /\ (Cardinality(planted) <= NumSlots)'
      /\ Enabled = Slots => Cardinality(planted) = NumSlots
  <2>1. (Cardinality(planted) <= NumSlots)'
    BY CountPoints, PTL
  <2>. QED  BY <2>1, CountPoints DEF IInv, TypeOK
<1>2. ASSUME UNCHANGED chip  PROVE planted' = planted
  BY <1>2, SlotsKept DEF IInv
<1>3. ASSUME NEW z \in BOOLEAN, NEW w \in Points, Packet(z, w)  PROVE PointSet!Await
  BY <1>2, <1>3 DEF Packet
<1>4. CASE ReadSettings \/ ReadOldSettings
  BY <1>2, <1>4 DEF ReadSettings, ReadOldSettings
<1>5. CASE Search
  <2>1. planted' = planted
    BY <1>2, <1>5 DEF Search
  <2>. DEFINE found == {i \in Enabled : PointOf(i) = request}
  <2>2. /\ Matching(watchpoints, address, request) = found
        /\ Free(watchpoints) = Slots \ Enabled
    BY <1>5, MatchingPoints DEF Search, IInv, CopyOK, RequestOK, Free, Enabled
  <2>3. request \in planted <=> found # {}
    BY PlantedPoints
  <2>4. CASE found # {} /\ insert /\ Answer("OK")
    <3>1. planted \cup {request} = planted
      BY <2>3, <2>4
    <3>2. PointSet!Insert(request)
      BY <1>1, <2>1, <2>4, <3>1, SameCardinality DEF Answer, PointSet!Insert
    <3>. QED  BY <1>1, <3>2
  <2>5. CASE UNCHANGED reply
    BY <2>1, <2>5
  <2>6. CASE found = {} /\ ~insert /\ Answer("unsupported")
    <3>1. planted' = planted \ {request} /\ reply' = "unsupported" /\ request \notin planted
      BY <2>1, <2>3, <2>6 DEF Answer
    <3>2. PointSet!Remove(request)
      BY <3>1 DEF PointSet!Remove
    <3>. QED  BY <1>1, <3>2
  <2>7. CASE found = {} /\ Slots \ Enabled = {} /\ Answer("E01")
    <3>1. Enabled = Slots
      BY <2>7 DEF Enabled
    <3>2. PointSet!Insert(request)
      BY <1>1, <2>1, <2>3, <2>7, <3>1, SameCardinality DEF Answer, PointSet!Insert
    <3>. QED  BY <1>1, <3>2
  <2>. QED  BY <1>5, <2>2, <2>4, <2>5, <2>6, <2>7 DEF Search, Choose
<1>6. CASE WriteAddress
  BY <1>6, WriteAddressStep DEF WriteAddress
<1>7. CASE WriteSettings
  <2>1. planted' = IF insert THEN planted \cup {request} ELSE planted \ {request}
    BY <1>7, WriteEffect DEF WriteSettings
  <2>2. reply' = "OK"
    BY <1>7 DEF WriteSettings, Answer
  <2>3. ~insert => request \in planted
    BY <1>7, PlantedPoints DEF WriteSettings, IInv, TypeOK, ChosenOK, Enabled
  <2>4. CASE insert
    <3>1. Cardinality(planted \cup {request}) <= NumSlots
      BY <1>1, <2>1, <2>4
    <3>2. PointSet!Insert(request)
      BY <2>1, <2>2, <2>4, <3>1, SameCardinality DEF PointSet!Insert
    <3>. QED  BY <1>1, <3>2
  <2>5. CASE ~insert
    <3>1. PointSet!Remove(request)
      BY <2>1, <2>2, <2>3, <2>5 DEF PointSet!Remove
    <3>. QED  BY <1>1, <3>1
  <2>. QED  BY <2>4, <2>5
<1>8. CASE AccessFails
  <2>1. planted' \in {planted, planted \ {request}, planted \cup {request}}
    BY <1>8, AccessFailsStep
  <2>2. reply' = "none" /\ Cardinality(planted') <= NumSlots
    BY <1>1, <1>8 DEF AccessFails
  <2>3. PointSet!Abandon(request)
    BY <2>1, <2>2, SameCardinality DEF PointSet!Abandon
  <2>. QED  BY <1>1, <2>3
<1>9. CASE NewClient
  BY <1>2, <1>9 DEF NewClient
<1>10. CASE UNCHANGED vars
  BY <1>2, <1>10 DEF vars
<1>. QED  BY <1>3, <1>4, <1>5, <1>6, <1>7, <1>8, <1>9, <1>10 DEF Next

\* The handlers of Z and z packets implement a set of at most NumSlots points
\* (gdb_server.py 1015-1216), for any number of slots, addresses, sessions and
\* accesses that fail.
THEOREM HandlersImplementSet == Spec => ImplementsSet
<1>1. Init => PointSet!Init
  <2>1. Init => Enabled = {} /\ reply = "none"
    BY KindOfWritten DEF Init, Enabled, Written
  <2>. QED  BY <2>1, PlantedPoints DEF PointSet!Init
<1>2. IInv /\ IInv' /\ [Next]_vars => [PointSet!Next]_<<planted, reply>>
  BY RefinedStep
<1>. QED  BY <1>1, <1>2, Invariance, PTL DEF Spec, ImplementsSet, PointSet!Spec
===========================================================================
