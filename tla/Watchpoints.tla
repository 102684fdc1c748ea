---------------------------- MODULE Watchpoints ----------------------------
(***************************************************************************)
(* The watchpoint slots of one core as the GDB server uses them: the       *)
(* handlers of Z0, Z2, Z3, Z4 and z0, z2, z3, z4 (gdb/gdb_server.py) over  *)
(* the slot registers (hardware/baby_risc_debug.py).  The core keeps one   *)
(* address register per slot and one settings register with four bits for  *)
(* each; the server keeps nothing and finds a point again by its kind and  *)
(* address.  An access may time out, which ends the server and the session *)
(* and leaves the slots as they are.                                       *)
(***************************************************************************)
EXTENDS Integers, FiniteSets, FiniteSetsExt

CONSTANTS
  NumSlots,     \* max_watchpoints of the core
  Addresses,    \* addresses the client asks for
  NoAddress,    \* what an address register holds that was never written
  MaxFaults     \* bound on accesses that time out

ASSUME SlotsAssumption ==
  /\ NumSlots \in Nat \ {0}
  /\ MaxFaults \in Nat
  /\ NoAddress \notin Addresses

Slots == 0 .. NumSlots - 1
Kinds == {"break", "write", "read", "access"}
Points == Kinds \X Addresses

VARIABLES
  settings,     \* REG_HW_WATCHPOINT_SETTINGS, four bits a slot
  address,      \* REG_HW_WATCHPOINT_0 + slot
  pc,           \* next step of the handler
  insert,       \* the request is a Z packet, not a z packet
  request,      \* kind and address it names
  watchpoints,  \* the handler's copy of the settings
  slot,         \* the slot it has chosen
  old_settings, \* old_wp_settings of __update_watchpoint_setting
  reply,        \* the answer to the last request, "none" before it
  believed,     \* the points the client of this session believes inserted
  faults

chip == <<settings, address>>
locals == <<insert, request, watchpoints, slot, old_settings>>
vars == <<chip, pc, locals, reply, believed, faults>>
---------------------------------------------------------------------------
(* BabyRiscDebugWatchpointState.from_value and is_access.                  *)

ENABLED_BIT == 8
KindBits(kind) == CASE kind = "break"  -> 0
                    [] kind = "read"   -> 1
                    [] kind = "write"  -> 2
                    [] kind = "access" -> 3
is_enabled(v) == v \div 8 = 1
is_memory(v)  == v % 4 # 0
is_read(v)    == v % 2 = 1
is_write(v)   == (v \div 2) % 2 = 1
is_access(v)  == is_memory(v) /\ is_read(v) /\ is_write(v)

\* The test of each handler: an access slot passes all three memory tests.
Tests(kind, v) ==
  CASE kind = "break"  -> ~is_memory(v)
    [] kind = "write"  -> is_memory(v) /\ is_write(v)
    [] kind = "read"   -> is_memory(v) /\ is_read(v)
    [] kind = "access" -> is_memory(v) /\ is_access(v)

\* Mutants of Matching: a slot that is switched off is found again; the search
\* ends at the first free slot.
MatchingDisabledToo(v, adr, w) ==
  {i \in Slots : Tests(w[1], v[i]) /\ adr[i] = w[2]}

MatchingBeforeHole(v, adr, w) ==
  {i \in Slots : /\ \A j \in 0 .. i : is_enabled(v[j])
                 /\ Tests(w[1], v[i]) /\ adr[i] = w[2]}

\* Slots whose kind and address the handler finds to be those of the request.
Matching(v, adr, w) ==
  {i \in Slots : is_enabled(v[i]) /\ Tests(w[1], v[i]) /\ adr[i] = w[2]}

Free(v) == {i \in Slots : ~is_enabled(v[i])}

\* The kind of an enabled slot and the points that the slots hold.
KindOf(v) == CHOOSE k \in Kinds : KindBits(k) = v % 4
planted == {<<KindOf(settings[i]), address[i]>> : i \in {j \in Slots : is_enabled(settings[j])}}

\* Two memory watchpoints of different kinds at one address.
Conflicts(w, points) ==
  \E p \in points : p[2] = w[2] /\ p[1] # w[1] /\ "break" \notin {p[1], w[1]}
---------------------------------------------------------------------------
Init ==
  /\ settings = [i \in Slots |-> 0]
  /\ address = [i \in Slots |-> NoAddress]
  /\ pc = "idle"
  /\ insert = FALSE
  /\ request \in Points
  /\ watchpoints = settings
  /\ slot = 0
  /\ old_settings = settings
  /\ reply = "none"
  /\ believed = {}
  /\ faults = 0

\* A Z or z packet arrives.  The client plants no two kinds of watchpoint at
\* one address, not even over what an earlier session has left planted: the
\* tests of the handlers would take one for the other.
Packet(z, w) ==
  /\ pc = "idle"
  /\ ~Conflicts(w, planted)
  /\ pc' = "settings"
  /\ insert' = z
  /\ request' = w
  /\ reply' = "none"
  /\ UNCHANGED <<chip, watchpoints, slot, old_settings, believed, faults>>

\* watchpoints = read_watchpoints_state()
ReadSettings ==
  /\ pc = "settings"
  /\ watchpoints' = settings
  /\ pc' = "search"
  /\ UNCHANGED <<chip, insert, request, slot, old_settings, reply, believed, faults>>

Answer(text) ==
  /\ reply' = text
  /\ pc' = "idle"
  /\ believed' = CASE text # "OK"             -> believed
                   [] text = "OK" /\ insert  -> believed \cup {request}
                   [] text = "OK" /\ ~insert -> believed \ {request}

Choose(i, step) == slot' = i /\ pc' = step /\ UNCHANGED <<reply, believed>>

\* The loops over the copy: the first slot with the point, else, for an
\* insertion, the first free one.
Search ==
  /\ pc = "search"
  /\ LET found == Matching(watchpoints, address, request)
         free  == Free(watchpoints)
     IN \/ found # {} /\ insert  /\ Answer("OK") /\ UNCHANGED slot
        \/ found # {} /\ ~insert /\ Choose(Min(found), "rmw_read")
        \/ found = {} /\ ~insert /\ Answer("unsupported") /\ UNCHANGED slot
        \/ found = {} /\ insert /\ free # {} /\ Choose(Min(free), "address")
        \/ found = {} /\ insert /\ free = {} /\ Answer("E01") /\ UNCHANGED slot
  /\ UNCHANGED <<chip, insert, request, watchpoints, old_settings, faults>>

\* The first half of __set_watchpoint.
WriteAddress ==
  /\ pc = "address"
  /\ address' = [address EXCEPT ![slot] = request[2]]
  /\ pc' = "rmw_read"
  /\ UNCHANGED <<settings, locals, reply, believed, faults>>

\* __update_watchpoint_setting, which disable_watchpoint calls with 0.
ReadOldSettings ==
  /\ pc = "rmw_read"
  /\ old_settings' = settings
  /\ pc' = "rmw_write"
  /\ UNCHANGED <<chip, insert, request, watchpoints, slot, reply, believed, faults>>

NewSetting == IF insert THEN ENABLED_BIT + KindBits(request[1]) ELSE 0

\* Mutant of NewSettings: the mask spares too little.
NewSettingsUnmasked ==
  [i \in Slots |-> IF i = slot THEN NewSetting ELSE 0]

NewSettings == [old_settings EXCEPT ![slot] = NewSetting]

WriteSettings ==
  /\ pc = "rmw_write"
  /\ settings' = NewSettings
  /\ Answer("OK")
  /\ UNCHANGED <<address, locals, faults>>

\* An access of the handler times out.  The HardwareError ends the server
\* thread; gdb start begins another one, with a client that believes nothing.
AccessFails ==
  /\ pc # "idle"
  /\ faults < MaxFaults
  /\ faults' = faults + 1
  /\ pc' = "idle"
  /\ reply' = "none"
  /\ believed' = {}
  /\ UNCHANGED <<locals, address>>
  /\ settings' \in {settings} \cup (IF pc = "rmw_write" THEN {NewSettings} ELSE {})

\* The client goes away between two packets and another one connects.
NewClient ==
  /\ pc = "idle"
  /\ believed # {}
  /\ believed' = {}
  /\ reply' = "none"
  /\ UNCHANGED <<chip, pc, locals, faults>>

Next ==
  \/ \E z \in BOOLEAN, w \in Points : Packet(z, w)
  \/ ReadSettings
  \/ Search
  \/ WriteAddress
  \/ ReadOldSettings
  \/ WriteSettings
  \/ AccessFails
  \/ NewClient

Spec == Init /\ [][Next]_vars
---------------------------------------------------------------------------
(* Properties.                                                             *)

TypeOK ==
  /\ settings \in [Slots -> 0 .. 15]
  /\ address \in [Slots -> Addresses \cup {NoAddress}]
  /\ pc \in {"idle", "settings", "search", "address", "rmw_read", "rmw_write"}
  /\ insert \in BOOLEAN
  /\ request \in Points
  /\ watchpoints \in [Slots -> 0 .. 15]
  /\ slot \in Slots
  /\ old_settings \in [Slots -> 0 .. 15]
  /\ reply \in {"none", "OK", "E01", "unsupported"}
  /\ believed \in SUBSET Points
  /\ faults \in 0 .. MaxFaults

\* The handlers of gdb_server.py 1015-1216 implement a bounded set: a point
\* that is asked for is planted or the slots are full, one that is taken back
\* is gone, and no request disturbs another point, as long as the client does
\* not mix kinds at one address.  Slots left by an earlier session or a request
\* that failed halfway count as planted.
PointSet == INSTANCE WatchpointSet WITH Limit <- NumSlots
ImplementsSet == PointSet!Spec

\* No two slots hold one point, whatever was left behind by earlier sessions
\* and failed requests: a slot is taken only when the search finds none
\* (gdb_server.py 1092-1104).
NoPointTwice ==
  \A i, j \in Slots :
    /\ i # j
    /\ is_enabled(settings[i]) /\ is_enabled(settings[j])
    /\ settings[i] = settings[j]
    => address[i] # address[j]

\* What the client believes inserted is watched by a slot
\* (gdb_server.py 1103, 1028: OK is answered after the slot has changed).
BelievedIsPlanted == believed \subseteq planted

===========================================================================
