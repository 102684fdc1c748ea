------------------------- MODULE RocketDebug_proofs -------------------------
(***************************************************************************)
(* Theorems about RocketDebug for any values of the registers and any       *)
(* number of calls and of failing accesses: the types for every cluster,    *)
(* and for a cluster of one hart that a read or a write keeps the other     *)
(* registers, gives the hart back, and that a step is one instruction.      *)
(***************************************************************************)
EXTENDS RocketDebug, SequenceTheorems, TLAPS

---------------------------------------------------------------------------
(* Sequences that are consumed from the front.                             *)

LEMMA First1 ==
  ASSUME NEW T, NEW a \in T, NEW s \in Seq(T)
  PROVE  LET q == <<a>> \o s IN
         /\ q \in Seq(T) /\ q # <<>> /\ Head(q) = a /\ Tail(q) = s
         /\ Len(q) = Len(s) + 1 /\ \A i \in 1..Len(s) : q[i + 1] = s[i]
<1>. DEFINE q == <<a>> \o s
<1>1. <<a>> \in Seq(T) /\ Len(<<a>>) = 1 /\ <<a>>[1] = a /\ Len(s) \in Nat
  OBVIOUS
<1>2. /\ q \in Seq(T) /\ Len(q) = 1 + Len(s)
      /\ \A i \in 1..(1 + Len(s)) : q[i] = IF i <= 1 THEN <<a>>[i] ELSE s[i - 1]
  BY <1>1, ConcatProperties
<1>. HIDE DEF q
<1>3. q # <<>> /\ Head(q) = q[1] /\ q[1] = a /\ Len(q) = Len(s) + 1
  BY <1>1, <1>2
<1>4. ASSUME NEW i \in 1..Len(s)  PROVE q[i + 1] = s[i]
  <2>1. i + 1 \in 1..(1 + Len(s)) /\ ~(i + 1 <= 1) /\ (i + 1) - 1 = i
    BY <1>1
  <2>. QED  BY ONLY <1>2, <2>1
<1>5. Tail(q) \in Seq(T) /\ Len(Tail(q)) = Len(s) /\ \A i \in 1..Len(s) : Tail(q)[i] = q[i + 1]
  BY <1>1, <1>2, <1>3
<1>6. Tail(q) = s
  BY <1>4, <1>5, SeqEqual
<1>. QED  BY <1>2, <1>3, <1>4, <1>6 DEF q

\* What is left after three.
LEMMA First3 ==
  ASSUME NEW T, NEW a \in T, NEW b \in T, NEW c \in T, NEW s \in Seq(T)
  PROVE  LET q == <<a>> \o (<<b>> \o (<<c>> \o s)) IN SubSeq(q, 4, Len(q)) = s
<1>. DEFINE r == <<c>> \o s
            p == <<b>> \o r
            q == <<a>> \o p
<1>1. /\ Len(s) \in Nat
      /\ r \in Seq(T) /\ Len(r) = Len(s) + 1 /\ \A i \in 1..Len(s) : r[i + 1] = s[i]
  BY First1
<1>. HIDE DEF r
<1>2. p \in Seq(T) /\ Len(p) = Len(r) + 1 /\ \A i \in 1..Len(r) : p[i + 1] = r[i]
  BY <1>1, First1
<1>. HIDE DEF p
<1>3. q \in Seq(T) /\ Len(q) = Len(p) + 1 /\ \A i \in 1..Len(p) : q[i + 1] = p[i]
  BY <1>2, First1
<1>. HIDE DEF q
<1>4. Len(q) = Len(s) + 3
  BY <1>1, <1>2, <1>3
<1>5. ASSUME NEW i \in 1..Len(s)  PROVE q[i + 3] = s[i]
  <2>1. /\ i + 1 \in 1..Len(r) /\ i + 2 \in 1..Len(p) /\ (i + 1) + 1 = i + 2
        /\ (i + 2) + 1 = i + 3
    BY <1>1, <1>2, <1>3
  <2>2. q[(i + 2) + 1] = p[i + 2] /\ p[(i + 1) + 1] = r[i + 1] /\ r[i + 1] = s[i]
    BY ONLY <1>1, <1>2, <1>3, <1>5, <2>1
  <2>. QED  BY ONLY <2>1, <2>2
<1>. DEFINE t == SubSeq(q, 4, Len(q))
<1>6. /\ t \in Seq(T) /\ Len(t) = Len(s)
      /\ \A i \in 1..Len(s) : t[i] = q[i + 3]
  <2>1. \A i \in 4..Len(q) : q[i] \in T
    BY <1>1, <1>3, <1>4, ElementOfSeq
  <2>2. 4 \in 1..(Len(q) + 1) /\ Len(q) \in 4-1..Len(q)
    BY <1>1, <1>4
  <2>3. /\ t \in Seq(T)
        /\ Len(t) = IF 4 <= Len(q) THEN (Len(q) - 4) + 1 ELSE 0
        /\ \A i \in 1 .. (Len(q) - 4) + 1 : t[i] = q[4 + i - 1]
    BY <1>3, <1>4, <2>1, SubSeqProperties
  <2>4. Len(t) = Len(s)
    BY <1>1, <1>4, <2>3
  <2>5. ASSUME NEW i \in 1..Len(s)  PROVE i \in 1 .. (Len(q) - 4) + 1 /\ 4 + i - 1 = i + 3
    BY <1>1, <1>4
  <2>. QED  BY <2>3, <2>4, <2>5
<1>7. t = s
  BY <1>5, <1>6, SeqEqual
<1>. QED  BY <1>7 DEF t, q, p, r
LEMMA Three ==
  ASSUME NEW T, NEW a \in T, NEW b \in T, NEW c \in T
  PROVE  <<a, b, c>> = <<a>> \o (<<b>> \o <<c>>)
<1>. DEFINE C == <<c>>
            s == <<b>> \o C
            q == <<a>> \o s
            H == <<a, b, c>>
<1>1. C \in Seq(T) /\ Len(C) = 1 /\ C[1] = c
  OBVIOUS
<1>2. H \in Seq(T) /\ Len(H) = 3 /\ H[1] = a /\ H[2] = b /\ H[3] = c
  OBVIOUS
<1>. HIDE DEF C, H
<1>3. /\ s \in Seq(T) /\ s # <<>> /\ Head(s) = b /\ Len(s) = Len(C) + 1
      /\ \A i \in 1..Len(C) : s[i + 1] = C[i]
  BY <1>1, First1, SMTT(20)
<1>. HIDE DEF s
<1>4. /\ q \in Seq(T) /\ q # <<>> /\ Head(q) = a /\ Len(q) = Len(s) + 1
      /\ \A i \in 1..Len(s) : q[i + 1] = s[i]
  BY <1>3, First1
<1>. HIDE DEF q
<1>5. Len(s) = 2 /\ s[1] = b /\ s[2] = c
  <2>1. 1 \in 1..Len(C) /\ 1 + 1 = 2
    BY <1>1
  <2>2. s[1 + 1] = C[1]
    BY ONLY <1>3, <2>1
  <2>3. s[1] = b
    BY ONLY <1>3
  <2>. QED  BY ONLY <1>1, <1>3, <2>1, <2>2, <2>3
<1>6. Len(q) = 3 /\ q[1] = a /\ q[2] = b /\ q[3] = c
  <2>1. 1 \in 1..Len(s) /\ 2 \in 1..Len(s) /\ 1 + 1 = 2 /\ 2 + 1 = 3
    BY <1>5
  <2>2. q[1 + 1] = s[1] /\ q[2 + 1] = s[2]
    BY ONLY <1>4, <2>1
  <2>3. q[1] = a
    BY ONLY <1>4
  <2>. QED  BY ONLY <1>4, <1>5, <2>1, <2>2, <2>3
<1>7. H = q
  <2>1. \A i \in 1..3 : H[i] = q[i]
    BY <1>2, <1>6
  <2>. QED  BY <1>2, <1>4, <1>6, <2>1, SeqEqual
<1>. QED  BY <1>7 DEF H, q, s, C

\* A context with its body, as it is written and, with what follows it, access
\* by access.
Context(a, b, c, d, p, e, f) == <<a, b, c>> \o (<<d>> \o p \o <<e>>) \o <<f>>
Followed(s, r) == s \o r
Then(a, r) == <<a>> \o r
Chain(a, b, c, d, p, e, f, r) ==
  Then(a, Then(b, Then(c, Then(d, Followed(p, Then(e, Then(f, r)))))))

LEMMA InOrder ==
  ASSUME NEW T, NEW a \in T, NEW b \in T, NEW c \in T, NEW d \in T, NEW e \in T, NEW f \in T,
         NEW p \in Seq(T), NEW r \in Seq(T)
  PROVE  /\ Context(a, b, c, d, p, e, f) \in Seq(T)
         /\ Followed(Context(a, b, c, d, p, e, f), r) = Chain(a, b, c, d, p, e, f, r)
<1>. DEFINE cat(x, y) == x \o y
            one(x) == <<x>>
            body == cat(cat(one(d), p), one(e))
            H == cat(one(a), cat(one(b), one(c)))
            q == cat(cat(H, body), one(f))
<1>1. \A x \in T : one(x) \in Seq(T)
  OBVIOUS
<1>2. \A s \in Seq(T) : \A t \in Seq(T) : cat(s, t) \in Seq(T)
  BY ConcatProperties
<1>3. ASSUME NEW s \in Seq(T), NEW t \in Seq(T), NEW u \in Seq(T)
      PROVE  cat(cat(s, t), u) = cat(s, cat(t, u))
  BY ONLY ConcatAssociative, <1>3, SMTT(60)
<1>4. <<a, b, c>> = H
  BY Three, Zenon
<1>. HIDE DEF cat, one
<1>5. body \in Seq(T) /\ q \in Seq(T) /\ H \in Seq(T)
  BY ONLY <1>1, <1>2
<1>6. cat(q, r) = cat(H, cat(body, cat(one(f), r)))
  <2>1. cat(one(f), r) \in Seq(T) /\ cat(H, body) \in Seq(T) /\ one(f) \in Seq(T)
    BY ONLY <1>1, <1>2, <1>5
  <2>2. cat(q, r) = cat(cat(H, body), cat(one(f), r))
    BY ONLY <1>3, <2>1
  <2>3. cat(cat(H, body), cat(one(f), r)) = cat(H, cat(body, cat(one(f), r)))
    BY ONLY <1>3, <1>5, <2>1
  <2>. QED  BY ONLY <2>2, <2>3
<1>7. cat(body, cat(one(f), r)) = cat(one(d), cat(p, cat(one(e), cat(one(f), r))))
  <2>. DEFINE w == cat(one(f), r)
  <2>1. w \in Seq(T) /\ one(d) \in Seq(T) /\ one(e) \in Seq(T)
    BY ONLY <1>1, <1>2
  <2>. HIDE DEF w
  <2>2. cat(one(d), p) \in Seq(T) /\ cat(one(e), w) \in Seq(T)
    BY ONLY <1>2, <2>1
  <2>3. cat(body, w) = cat(cat(one(d), p), cat(one(e), w))
    BY ONLY <1>3, <2>1, <2>2
  <2>4. cat(cat(one(d), p), cat(one(e), w)) = cat(one(d), cat(p, cat(one(e), w)))
    BY ONLY <1>3, <2>1, <2>2
  <2>. QED  BY <2>3, <2>4 DEF w
<1>. DEFINE z == cat(one(d), cat(p, cat(one(e), cat(one(f), r))))
<1>8. z \in Seq(T)
  BY ONLY <1>1, <1>2
<1>. HIDE DEF z
<1>9. cat(H, z) = cat(one(a), cat(one(b), cat(one(c), z)))
  BY ONLY <1>1, <1>2, <1>3, <1>8
<1>10. cat(q, r) = cat(one(a), cat(one(b), cat(one(c), z)))
  BY <1>6, <1>7, <1>9 DEF z
<1>11. q = cat(cat(<<a, b, c>>, body), one(f))
  BY <1>4
<1>. QED  BY <1>5, <1>10, <1>11, Zenon DEF cat, one, z, Context, Chain, Then, Followed
---------------------------------------------------------------------------
(* Types.                                                                  *)

Insns == {"csrsi_step", "csrci_step", "csrr_x5_dpc", "csrw_dpc_x5"}
Commands == [kind : {"read", "write"}, reg : {"x1", "x5"}] \cup {Exec}
Failures == {"raised", "command_error", "not_halted", "timeout", "assertion"}

Accesses ==
  [do : {"check", "request", "verify", "clear", "fetch", "assert_halted", "resume", "wait",
         "cont", "pc", "set_reset", "clear_reset", "exit"}, arg : {"none"}]
  \cup [do : {"exit"}, arg : Failures] \cup [do : {"command"}, arg : Commands]
  \cup [do : {"progbuf"}, arg : Insns] \cup [do : {"data"}, arg : Values]

States == {"reset", "running", "halted"}
Banks == [Harts -> [Registers -> Values]]

HardwareOK ==
  /\ dm \in BOOLEAN /\ hartsel \in Harts
  /\ state \in [Harts -> States] /\ reg \in Banks /\ single \in [Harts -> BOOLEAN]
  /\ progbuf \in Insns \cup {"none"} /\ data \in Values /\ cmderr \in BOOLEAN

HostOK ==
  /\ inside \in BOOLEAN /\ was_halted \in BOOLEAN /\ outcome \in Failures \cup {"busy", "ok"}
  /\ op \in Ops \cup [method : {"none"}, hart : Harts, reg : {"none"}, value : {"none"}]
  /\ outcome = "busy" => op \in Ops
  /\ script \in Seq(Accesses) /\ (outcome = "busy" <=> script # <<>>)

HistoryOK ==
  /\ calls \in 0..MaxCalls /\ faults \in 0..MaxFaults
  /\ before \in [state : [Harts -> States], reg : Banks]
  /\ retired \in [Harts -> 0..2] /\ own \in BOOLEAN /\ lost \in BOOLEAN

TypeOK == HardwareOK /\ HostOK /\ HistoryOK
---------------------------------------------------------------------------
(* What the scripts are made of.                                           *)

LEMMA AccessTypes ==
  /\ \A w \in {"check", "request", "verify", "clear", "fetch", "assert_halted", "resume", "wait",
               "cont", "pc", "set_reset", "clear_reset", "exit"} : Do(w) \in Accesses
  /\ \A how \in Failures : With("exit", how) \in Accesses
  /\ \A c \in Commands : With("command", c) \in Accesses
  /\ \A i \in Insns : With("progbuf", i) \in Accesses
  /\ \A v \in Values : With("data", v) \in Accesses
  /\ Exec \in Commands
  /\ \A k \in {"read", "write"}, r \in {"x1", "x5"} : Access(k, r) \in Commands
BY DEF Accesses, Do, With, Commands, Access, Exec

LEMMA Thens ==
  ASSUME NEW a \in Accesses, NEW r \in Seq(Accesses)
  PROVE  /\ Then(a, r) \in Seq(Accesses) /\ Then(a, r) # <<>>
         /\ Head(Then(a, r)) = a /\ Tail(Then(a, r)) = r
BY First1 DEF Then

LEMMA FourthOn ==
  ASSUME NEW a \in Accesses, NEW b \in Accesses, NEW c \in Accesses, NEW r \in Seq(Accesses)
  PROVE  LET q == Then(a, Then(b, Then(c, r))) IN SubSeq(q, 4, Len(q)) = r
BY First3 DEF Then

\* _execute_abstract_command, access by access.
LEMMA Unfolded ==
  ASSUME NEW prepare \in Seq(Accesses), NEW c \in Commands, NEW rest \in Seq(Accesses)
  PROVE  /\ Abstract(prepare, c) \in Seq(Accesses)
         /\ Followed(Abstract(prepare, c), rest) =
              Chain(Do("check"), Do("request"), Do("verify"), Do("clear"), prepare,
                    With("command", c), Do("exit"), rest)
<1>. DEFINE a == Do("check")
            b == Do("request")
            d == Do("verify")
            e == Do("clear")
            f == With("command", c)
            g == Do("exit")
<1>1. Abstract(prepare, c) = Context(a, b, d, e, prepare, f, g)
  BY Zenon DEF Abstract, EnsureHalted, Context
<1>2. /\ a \in Accesses /\ b \in Accesses /\ d \in Accesses /\ e \in Accesses
      /\ f \in Accesses /\ g \in Accesses
  BY AccessTypes
<1>. HIDE DEF a, b, d, e, f, g
<1>3. /\ Context(a, b, d, e, prepare, f, g) \in Seq(Accesses)
      /\ Followed(Context(a, b, d, e, prepare, f, g), rest)
           = Chain(a, b, d, e, prepare, f, g, rest)
  BY <1>2, InOrder, SMTT(20)
<1>. QED  BY <1>1, <1>3 DEF a, b, d, e, f, g
---------------------------------------------------------------------------
(* Where a call is.  A stage is one abstract command in its context; a read *)
(* and a write are one or two, a step is two with the resume in between.    *)

Stages == {"read", "dpc_to_x5", "write", "x5_to_dpc", "set_step", "clear_step"}

StagesOf(o) ==
  CASE o.method = "read" -> IF o.reg = "pc" THEN {"dpc_to_x5", "read"} ELSE {"read"}
    [] o.method = "write" -> IF o.reg = "pc" THEN {"write", "x5_to_dpc"} ELSE {"write"}
    [] o.method = "step" -> {"set_step", "clear_step"}
    [] OTHER -> {}

Target(o) == IF o.reg = "pc" THEN "x5" ELSE o.reg

Insn(g) ==
  CASE g = "dpc_to_x5" -> "csrr_x5_dpc"
    [] g = "x5_to_dpc" -> "csrw_dpc_x5"
    [] g = "set_step" -> "csrsi_step"
    [] OTHER -> "csrci_step"

Prepared(g, o) == IF g = "write" THEN With("data", o.value) ELSE With("progbuf", Insn(g))
Issued(g, o) == IF g \in {"read", "write"} THEN Access(g, Target(o)) ELSE Exec

\* What follows the stage.
Rest(g, o) ==
  CASE g = "read" -> <<Do("fetch")>>
    [] g = "dpc_to_x5" -> ReadRegister("x5")
    [] g = "write" /\ o.reg = "pc" -> ProgramBuffer("csrw_dpc_x5")
    [] g = "set_step" -> Then(Do("resume"), Then(Do("wait"), ProgramBuffer("csrci_step")))
    [] OTHER -> <<>>

AtExit(g, o) == Then(Do("exit"), Rest(g, o))
AtCommand(g, o) == Then(With("command", Issued(g, o)), AtExit(g, o))
AtPrepare(g, o) == Then(Prepared(g, o), AtCommand(g, o))
AtClear(g, o) == Then(Do("clear"), IF g = "read" THEN AtCommand(g, o) ELSE AtPrepare(g, o))
AtVerify(g, o) == Then(Do("verify"), AtClear(g, o))
AtRequest(g, o) == Then(Do("request"), AtVerify(g, o))
AtCheck(g, o) == Then(Do("check"), AtRequest(g, o))

LEMMA EmptyRest ==
  ASSUME NEW s \in Seq(Accesses)
  PROVE  Followed(s, <<>>) = s /\ Followed(<<>>, s) = s /\ <<>> \in Seq(Accesses)
BY ConcatEmptySeq, EmptySeq DEF Followed

LEMMA OneFirst ==
  ASSUME NEW a \in Accesses, NEW s \in Seq(Accesses)
  PROVE  Followed(<<a>>, s) = Then(a, s) /\ Then(a, <<>>) = <<a>>
<1>1. <<a>> \in Seq(Accesses)
  OBVIOUS
<1>. QED  BY <1>1, ConcatEmptySeq DEF Followed, Then

Preparation(g, o) == IF g = "read" THEN <<>> ELSE <<Prepared(g, o)>>

LEMMA OpCases ==
  ASSUME NEW o \in Ops
  PROVE  /\ o.hart \in Harts
         /\ o.method \in {"halt", "cont", "step", "set_reset", "clear_reset", "read", "write"}
         /\ o.method \in {"read", "write"} => o.reg \in Registers
         /\ o.method = "write" => o.value \in Values
BY DEF Ops

LEMMA PartTypes ==
  ASSUME NEW o \in Ops, NEW g \in StagesOf(o)
  PROVE  /\ g \in Stages /\ (g # "read" => Prepared(g, o) \in Accesses)
         /\ Issued(g, o) \in Commands
         /\ Preparation(g, o) \in Seq(Accesses)
<1>1. /\ g \in Stages /\ (g = "write" => o.method = "write")
      /\ g \in {"read", "write"} => o.method \in {"read", "write"}
  BY OpCases DEF StagesOf, Stages
<1>2. g = "write" => Prepared(g, o) \in Accesses
  BY <1>1, OpCases, AccessTypes DEF Prepared
<1>3. g \notin {"read", "write"} => Prepared(g, o) \in Accesses
  <2>1. Insn(g) \in Insns
    BY DEF Insn, Insns
  <2>. QED  BY <2>1, AccessTypes DEF Prepared
<1>4. Issued(g, o) \in Commands
  <2>1. g \in {"read", "write"} => Target(o) \in {"x1", "x5"}
    BY <1>1, OpCases DEF Target, Registers
  <2>. QED  BY <2>1, AccessTypes DEF Issued
<1>5. Preparation(g, o) \in Seq(Accesses)
  <2>. DEFINE a == Prepared(g, o)
  <2>1. g # "read" => a \in Accesses
    BY <1>2, <1>3
  <2>. HIDE DEF a
  <2>. QED  BY <2>1, EmptySeq DEF Preparation, a
<1>. QED  BY <1>1, <1>2, <1>3, <1>4, <1>5

\* The commands that the methods are made of.
LEMMA PartScripts ==
  /\ \A i \in Insns : ProgramBuffer(i) \in Seq(Accesses)
  /\ \A r \in {"x1", "x5"} : ReadRegister(r) \in Seq(Accesses)
  /\ \A r \in {"x1", "x5"}, v \in Values : WriteRegister(r, v) \in Seq(Accesses)
<1>1. ASSUME NEW a \in Accesses  PROVE <<a>> \in Seq(Accesses)
  OBVIOUS
<1>2. ASSUME NEW i \in Insns  PROVE ProgramBuffer(i) \in Seq(Accesses)
  <2>1. With("progbuf", i) \in Accesses /\ Exec \in Commands
    BY AccessTypes
  <2>2. <<With("progbuf", i)>> \in Seq(Accesses)
    BY <1>1, <2>1
  <2>. QED  BY <2>1, <2>2, Unfolded, EmptySeq DEF ProgramBuffer
<1>3. ASSUME NEW r \in {"x1", "x5"}  PROVE ReadRegister(r) \in Seq(Accesses)
  <2>1. Access("read", r) \in Commands /\ Do("fetch") \in Accesses
    BY AccessTypes
  <2>2. Abstract(<<>>, Access("read", r)) \in Seq(Accesses) /\ <<Do("fetch")>> \in Seq(Accesses)
    BY <1>1, <2>1, Unfolded, EmptySeq
  <2>. QED  BY ONLY <2>2, ConcatProperties DEF ReadRegister
<1>4. ASSUME NEW r \in {"x1", "x5"}, NEW v \in Values  PROVE WriteRegister(r, v) \in Seq(Accesses)
  <2>1. With("data", v) \in Accesses /\ Access("write", r) \in Commands
    BY AccessTypes
  <2>2. <<With("data", v)>> \in Seq(Accesses)
    BY <1>1, <2>1
  <2>. QED  BY <2>1, <2>2, Unfolded, EmptySeq DEF WriteRegister
<1>. QED  BY <1>2, <1>3, <1>4

LEMMA StageTypes ==
  ASSUME NEW o \in Ops, NEW g \in StagesOf(o)
  PROVE  /\ Rest(g, o) \in Seq(Accesses)
         /\ AtExit(g, o) \in Seq(Accesses) /\ AtCommand(g, o) \in Seq(Accesses)
         /\ g # "read" => AtPrepare(g, o) \in Seq(Accesses)
         /\ AtClear(g, o) \in Seq(Accesses) /\ AtVerify(g, o) \in Seq(Accesses)
         /\ AtRequest(g, o) \in Seq(Accesses) /\ AtCheck(g, o) \in Seq(Accesses)
<1>1. Rest(g, o) \in Seq(Accesses)
  <2>1. /\ ReadRegister("x5") \in Seq(Accesses)
        /\ ProgramBuffer("csrw_dpc_x5") \in Seq(Accesses)
        /\ ProgramBuffer("csrci_step") \in Seq(Accesses)
    BY PartScripts DEF Insns
  <2>2. /\ Do("fetch") \in Accesses /\ Do("resume") \in Accesses /\ Do("wait") \in Accesses
    BY AccessTypes
  <2>3. Then(Do("resume"), Then(Do("wait"), ProgramBuffer("csrci_step"))) \in Seq(Accesses)
    BY <2>1, <2>2, Thens
  <2>4. <<Do("fetch")>> \in Seq(Accesses) /\ <<>> \in Seq(Accesses)
    BY <2>2, EmptySeq
  <2>. QED  BY ONLY <2>1, <2>3, <2>4 DEF Rest
<1>2. /\ Do("exit") \in Accesses /\ Do("clear") \in Accesses /\ Do("verify") \in Accesses
      /\ Do("request") \in Accesses /\ Do("check") \in Accesses
      /\ With("command", Issued(g, o)) \in Accesses /\ (g # "read" => Prepared(g, o) \in Accesses)
  BY AccessTypes, PartTypes
<1>3. AtExit(g, o) \in Seq(Accesses)
  BY <1>1, <1>2, Thens DEF AtExit
<1>4. AtCommand(g, o) \in Seq(Accesses)
  BY <1>2, <1>3, Thens DEF AtCommand
<1>5. g # "read" => AtPrepare(g, o) \in Seq(Accesses)
  BY <1>2, <1>4, Thens DEF AtPrepare
<1>6. AtClear(g, o) \in Seq(Accesses)
  BY <1>2, <1>4, <1>5, Thens DEF AtClear
<1>7. AtVerify(g, o) \in Seq(Accesses)
  BY <1>2, <1>6, Thens DEF AtVerify
<1>8. AtRequest(g, o) \in Seq(Accesses)
  BY <1>2, <1>7, Thens DEF AtRequest
<1>9. AtCheck(g, o) \in Seq(Accesses)
  BY <1>2, <1>8, Thens DEF AtCheck
<1>. QED  BY <1>1, <1>3, <1>4, <1>5, <1>6, <1>7, <1>8, <1>9

\* A stage is an abstract command, and what follows it.
LEMMA StageScript ==
  ASSUME NEW o \in Ops, NEW g \in StagesOf(o)
  PROVE  AtCheck(g, o) = Followed(Abstract(Preparation(g, o), Issued(g, o)), Rest(g, o))
<1>. DEFINE p == Preparation(g, o)
            t == AtCommand(g, o)
<1>1. p \in Seq(Accesses) /\ Issued(g, o) \in Commands /\ Rest(g, o) \in Seq(Accesses)
  BY PartTypes, StageTypes
<1>2. Followed(Abstract(p, Issued(g, o)), Rest(g, o))
        = Chain(Do("check"), Do("request"), Do("verify"), Do("clear"), p,
                With("command", Issued(g, o)), Do("exit"), Rest(g, o))
  BY <1>1, Unfolded
<1>3. Followed(p, t) = (IF g = "read" THEN t ELSE AtPrepare(g, o))
  <2>1. t \in Seq(Accesses) /\ (g # "read" => Prepared(g, o) \in Accesses)
    BY StageTypes, PartTypes
  <2>. DEFINE a == Prepared(g, o)
  <2>. HIDE DEF t, a
  <2>2. CASE g = "read"
    BY <2>1, <2>2, EmptyRest DEF Preparation
  <2>3. CASE g # "read"
    <3>1. p = <<a>> /\ a \in Accesses
      BY <2>1, <2>3 DEF Preparation, a
    <3>2. Followed(<<a>>, t) = Then(a, t)
      BY <2>1, <3>1, OneFirst
    <3>. QED  BY <2>3, <3>1, <3>2 DEF AtPrepare, a, t
  <2>4. /\ g = "read" => Followed(p, t) = t
        /\ g # "read" => Followed(p, t) = AtPrepare(g, o)
    BY <2>2, <2>3
  <2>. HIDE DEF p
  <2>. QED  BY ONLY <2>4
<1>. QED  BY <1>2, <1>3, Zenon DEF Chain, AtCheck, AtRequest, AtVerify, AtClear, AtCommand, AtExit

\* The scripts, stage by stage.
LEMMA ReadScripts ==
  ASSUME NEW o \in Ops, o.method = "read"
  PROVE  /\ Rest("read", o) = Then(Do("fetch"), <<>>)
         /\ o.reg # "pc" => Script(o) = AtCheck("read", o)
         /\ o.reg = "pc" =>
              /\ Script(o) = Then(Do("pc"), <<>>)
              /\ ProgramBuffer("csrr_x5_dpc") \o ReadRegister("x5") = AtCheck("dpc_to_x5", o)
              /\ Rest("dpc_to_x5", o) = AtCheck("read", o)
<1>1. Do("fetch") \in Accesses /\ Do("pc") \in Accesses
  BY AccessTypes
<1>2. Then(Do("fetch"), <<>>) = <<Do("fetch")>> /\ Then(Do("pc"), <<>>) = <<Do("pc")>>
  BY <1>1, OneFirst, EmptySeq
<1>3. Rest("read", o) = Then(Do("fetch"), <<>>)
  BY <1>2 DEF Rest
<1>4. "read" \in StagesOf(o) /\ (o.reg = "pc" => "dpc_to_x5" \in StagesOf(o))
  BY DEF StagesOf
<1>5. AtCheck("read", o) = ReadRegister(Target(o))
  <2>1. AtCheck("read", o) = Followed(Abstract(<<>>, Access("read", Target(o))), <<Do("fetch")>>)
    BY <1>2, <1>3, <1>4, StageScript DEF Preparation, Issued
  <2>. QED  BY <2>1, Zenon DEF Followed, ReadRegister
<1>6. CASE o.reg # "pc"
  <2>1. Script(o) = ReadRegister(o.reg)
    BY <1>6 DEF Script
  <2>. QED  BY <1>3, <1>5, <1>6, <2>1 DEF Target
<1>7. CASE o.reg = "pc"
  <2>1. Script(o) = <<Do("pc")>>
    BY <1>7 DEF Script
  <2>2. Rest("dpc_to_x5", o) = ReadRegister("x5")
    BY DEF Rest
  <2>3. AtCheck("dpc_to_x5", o)
          = Followed(Abstract(<<With("progbuf", "csrr_x5_dpc")>>, Exec), ReadRegister("x5"))
    BY <1>4, <1>7, <2>2, StageScript DEF Preparation, Issued, Prepared, Insn
  <2>4. AtCheck("dpc_to_x5", o) = ProgramBuffer("csrr_x5_dpc") \o ReadRegister("x5")
    BY <2>3, Zenon DEF Followed, ProgramBuffer
  <2>5. Target(o) = "x5"
    BY <1>7 DEF Target
  <2>. QED  BY <1>2, <1>3, <1>5, <1>7, <2>1, <2>2, <2>4, <2>5
<1>. QED  BY <1>6, <1>7

LEMMA WriteScripts ==
  ASSUME NEW o \in Ops, o.method = "write"
  PROVE  /\ Script(o) = AtCheck("write", o)
         /\ Rest("write", o) = IF o.reg = "pc" THEN AtCheck("x5_to_dpc", o) ELSE <<>>
         /\ Rest("x5_to_dpc", o) = <<>>
<1>1. Rest("x5_to_dpc", o) = <<>>
  BY DEF Rest
<1>2. "write" \in StagesOf(o) /\ (o.reg = "pc" => "x5_to_dpc" \in StagesOf(o))
  BY DEF StagesOf
<1>3. o.value \in Values /\ Target(o) \in {"x1", "x5"}
  BY OpCases DEF Target, Registers
<1>4. AtCheck("write", o) = Followed(WriteRegister(Target(o), o.value), Rest("write", o))
  <2>1. AtCheck("write", o)
          = Followed(Abstract(<<With("data", o.value)>>, Access("write", Target(o))),
                     Rest("write", o))
    BY <1>2, StageScript DEF Preparation, Issued, Prepared
  <2>. QED  BY <2>1, Zenon DEF WriteRegister
<1>5. CASE o.reg # "pc"
  <2>1. Rest("write", o) = <<>> /\ Script(o) = WriteRegister(Target(o), o.value)
    BY <1>5 DEF Rest, Script, Target
  <2>2. WriteRegister(Target(o), o.value) \in Seq(Accesses)
    BY <1>3, PartScripts
  <2>3. Followed(WriteRegister(Target(o), o.value), <<>>) = WriteRegister(Target(o), o.value)
    BY <2>2, EmptyRest
  <2>. QED  BY <1>1, <1>4, <1>5, <2>1, <2>3
<1>6. CASE o.reg = "pc"
  <2>1. /\ Rest("write", o) = ProgramBuffer("csrw_dpc_x5") /\ Target(o) = "x5"
        /\ Script(o) = WriteRegister("x5", o.value) \o ProgramBuffer("csrw_dpc_x5")
    BY <1>6 DEF Rest, Script, Target
  <2>2. Script(o) = AtCheck("write", o)
    BY <1>4, <2>1, Zenon DEF Followed
  <2>3. AtCheck("x5_to_dpc", o)
          = Followed(Abstract(<<With("progbuf", "csrw_dpc_x5")>>, Exec), <<>>)
    BY <1>1, <1>2, <1>6, StageScript DEF Preparation, Issued, Prepared, Insn
  <2>4. AtCheck("x5_to_dpc", o) = Followed(ProgramBuffer("csrw_dpc_x5"), <<>>)
    BY <2>3, Zenon DEF ProgramBuffer
  <2>5. ProgramBuffer("csrw_dpc_x5") \in Seq(Accesses)
    BY PartScripts DEF Insns
  <2>6. AtCheck("x5_to_dpc", o) = ProgramBuffer("csrw_dpc_x5")
    BY <2>4, <2>5, EmptyRest
  <2>. QED  BY <1>1, <1>6, <2>1, <2>2, <2>6
<1>. QED  BY <1>5, <1>6

LEMMA StepScripts ==
  ASSUME NEW o \in Ops, o.method = "step"
  PROVE  /\ Script(o) = Then(Do("assert_halted"), AtCheck("set_step", o))
         /\ Rest("set_step", o) = Then(Do("resume"), Then(Do("wait"), AtCheck("clear_step", o)))
         /\ Rest("clear_step", o) = <<>>
<1>. DEFINE p == ProgramBuffer("csrsi_step")
            q == ProgramBuffer("csrci_step")
<1>1. p \in Seq(Accesses) /\ q \in Seq(Accesses)
  BY PartScripts DEF Insns
<1>2. "set_step" \in StagesOf(o) /\ "clear_step" \in StagesOf(o)
  BY DEF StagesOf
<1>3. /\ Rest("clear_step", o) = <<>>
      /\ Rest("set_step", o) = Then(Do("resume"), Then(Do("wait"), q))
  BY DEF Rest
<1>4. AtCheck("clear_step", o) = q
  <2>1. AtCheck("clear_step", o)
          = Followed(Abstract(<<With("progbuf", "csrci_step")>>, Exec), <<>>)
    BY <1>2, <1>3, StageScript DEF Preparation, Issued, Prepared, Insn
  <2>2. AtCheck("clear_step", o) = Followed(q, <<>>)
    BY <2>1, Zenon DEF ProgramBuffer
  <2>. QED  BY <1>1, <2>2, EmptyRest
<1>5. AtCheck("set_step", o) = Followed(p, Rest("set_step", o))
  <2>1. AtCheck("set_step", o)
          = Followed(Abstract(<<With("progbuf", "csrsi_step")>>, Exec), Rest("set_step", o))
    BY <1>2, StageScript DEF Preparation, Issued, Prepared, Insn
  <2>. QED  BY <2>1, Zenon DEF ProgramBuffer
<1>6. Script(o) = ((<<Do("assert_halted")>> \o p) \o <<Do("resume"), Do("wait")>>) \o q
  BY DEF Script, Step
<1>7. ((<<Do("assert_halted")>> \o p) \o <<Do("resume"), Do("wait")>>) \o q
        = Then(Do("assert_halted"), Followed(p, Then(Do("resume"), Then(Do("wait"), q))))
  <2>. DEFINE A == <<Do("assert_halted")>>
              B == <<Do("resume")>>
              C == <<Do("wait")>>
              BC == <<Do("resume"), Do("wait")>>
  <2>1. A \in Seq(Accesses) /\ B \in Seq(Accesses) /\ C \in Seq(Accesses) /\ BC \in Seq(Accesses)
    <3>1. Do("assert_halted") \in Accesses /\ Do("resume") \in Accesses /\ Do("wait") \in Accesses
      BY AccessTypes
    <3>. QED  BY <3>1
  <2>2. BC = B \o C
    BY DEF Do
  <2>. DEFINE cat(x, y) == x \o y
  <2>3. ASSUME NEW s \in Seq(Accesses), NEW t \in Seq(Accesses), NEW u \in Seq(Accesses)
        PROVE  cat(cat(s, t), u) = cat(s, cat(t, u)) /\ cat(s, t) \in Seq(Accesses)
    BY <2>3, ConcatAssociative, ConcatProperties, SMTT(20)
  <2>4. BC = cat(B, C)
    BY <2>2
  <2>. HIDE DEF A, B, C, BC, cat, p, q
  <2>5. cat(A, p) \in Seq(Accesses) /\ cat(C, q) \in Seq(Accesses)
    BY <1>1, <2>1, <2>3
  <2>6. cat(cat(cat(A, p), BC), q) = cat(cat(A, p), cat(BC, q))
    BY <1>1, <2>1, <2>3, <2>5
  <2>7. cat(BC, q) = cat(B, cat(C, q)) /\ cat(BC, q) \in Seq(Accesses)
    BY <1>1, <2>1, <2>3, <2>4
  <2>8. cat(cat(A, p), cat(BC, q)) = cat(A, cat(p, cat(BC, q)))
    BY <1>1, <2>1, <2>3, <2>7
  <2>9. cat(cat(cat(A, p), BC), q) = cat(A, cat(p, cat(B, cat(C, q))))
    BY <2>6, <2>7, <2>8
  <2>. QED  BY <2>9, Zenon DEF A, B, C, BC, cat, Then, Followed
<1>. HIDE DEF p, q
<1>8. Script(o) = Then(Do("assert_halted"), AtCheck("set_step", o))
  BY <1>3, <1>5, <1>6, <1>7, Zenon DEF p, q
<1>. QED  BY <1>3, <1>4, <1>8

LEMMA OtherScripts ==
  ASSUME NEW o \in Ops
  PROVE  /\ o.method = "halt" =>
              Script(o) = Then(Do("check"), Then(Do("request"), Then(Do("verify"), <<>>)))
         /\ o.method \in {"cont", "set_reset", "clear_reset"} =>
              Script(o) = Then(Do(o.method), <<>>)
<1>1. CASE o.method = "halt"
  <2>1. /\ Do("check") \in Accesses /\ Do("request") \in Accesses /\ Do("verify") \in Accesses
    BY AccessTypes
  <2>2. Script(o) = <<Do("check"), Do("request"), Do("verify")>>
    BY <1>1 DEF Script
  <2>3. Then(Do("verify"), <<>>) = <<Do("verify")>>
    BY <2>1, OneFirst, EmptySeq
  <2>4. Script(o) = <<Do("check")>> \o (<<Do("request")>> \o <<Do("verify")>>)
    BY <2>1, <2>2, Three
  <2>. QED  BY <1>1, <2>3, <2>4, Zenon DEF Then
<1>2. CASE o.method \in {"cont", "set_reset", "clear_reset"}
  <2>1. Script(o) = <<Do(o.method)>> /\ Do(o.method) \in Accesses
    BY <1>2, AccessTypes DEF Script
  <2>. QED  BY <1>2, <2>1, OneFirst, EmptySeq
<1>. QED  BY <1>1, <1>2

LEMMA ScriptTypes ==
  ASSUME NEW o \in Ops
  PROVE  Script(o) \in Seq(Accesses) /\ Script(o) # <<>>
<1>1. ASSUME NEW g \in StagesOf(o)  PROVE AtCheck(g, o) \in Seq(Accesses) /\ AtCheck(g, o) # <<>>
  <2>1. Do("check") \in Accesses /\ AtRequest(g, o) \in Seq(Accesses)
    BY StageTypes, AccessTypes
  <2>. QED  BY <2>1, Thens DEF AtCheck
<1>2. ASSUME NEW w \in {"check", "request", "verify", "assert_halted", "cont", "pc", "set_reset",
                        "clear_reset"}, NEW r \in Seq(Accesses)
      PROVE  Then(Do(w), r) \in Seq(Accesses) /\ Then(Do(w), r) # <<>>
  BY AccessTypes, Thens
<1>3. <<>> \in Seq(Accesses)
  BY EmptySeq
<1>4. CASE o.method = "halt"
  BY <1>2, <1>3, <1>4, OtherScripts
<1>5. CASE o.method \in {"cont", "set_reset", "clear_reset"}
  BY <1>2, <1>3, <1>5, OtherScripts
<1>6. CASE o.method = "read"
  <2>1. CASE o.reg = "pc"
    BY <1>2, <1>3, <1>6, <2>1, ReadScripts
  <2>2. CASE o.reg # "pc"
    <3>1. "read" \in StagesOf(o)
      BY <1>6, <2>2 DEF StagesOf
    <3>. QED  BY <1>1, <1>6, <2>2, <3>1, ReadScripts
  <2>. QED  BY <2>1, <2>2
<1>7. CASE o.method = "write"
  <2>1. "write" \in StagesOf(o)
    BY <1>7 DEF StagesOf
  <2>. QED  BY <1>1, <1>7, <2>1, WriteScripts
<1>8. CASE o.method = "step"
  <2>1. "set_step" \in StagesOf(o)
    BY <1>8 DEF StagesOf
  <2>. QED  BY <1>1, <1>2, <1>8, <2>1, StepScripts
<1>. QED  BY <1>4, <1>5, <1>6, <1>7, <1>8, OpCases
---------------------------------------------------------------------------
(* The types, for any number of harts.                                     *)

\* What Head and Tail of the script are at an access that is due.
LEMMA DueTypes ==
  ASSUME TypeOK, outcome = "busy"
  PROVE  /\ script # <<>> /\ Head(script) \in Accesses /\ Tail(script) \in Seq(Accesses)
         /\ SubSeq(script, 4, Len(script)) \in Seq(Accesses)
         /\ op \in Ops /\ Hart \in Harts
<1>1. script \in Seq(Accesses) /\ script # <<>> /\ op \in Ops
  BY DEF TypeOK, HostOK
<1>2. Head(script) \in Accesses /\ Tail(script) \in Seq(Accesses)
  BY <1>1, HeadTailProperties
<1>3. SubSeq(script, 4, Len(script)) \in Seq(Accesses)
  <2>1. \A i \in 4..Len(script) : script[i] \in Accesses
    <3>1. ASSUME NEW i \in 4..Len(script)  PROVE i \in 1..Len(script)
      BY <1>1
    <3>. QED  BY <1>1, <3>1, ElementOfSeq
  <2>2. Len(script) \in Int
    BY <1>1
  <2>. QED  BY <2>1, <2>2, SubSeqProperties
<1>. QED  BY <1>1, <1>2, <1>3, OpCases DEF Hart

LEMMA AccessCases ==
  ASSUME NEW a \in Accesses
  PROVE  /\ a.do = "exit" => a.arg \in Failures \cup {"none"}
         /\ a.do = "command" => a.arg \in Commands
         /\ a.do = "progbuf" => a.arg \in Insns
         /\ a.do = "data" => a.arg \in Values
BY DEF Accesses

LEMMA TypeInit == Init => TypeOK
<1>. SUFFICES ASSUME Init  PROVE TypeOK
  OBVIOUS
<1>1. HardwareOK
  <2>1. PICK v \in Values : reg = [h \in Harts |-> [r \in Registers |-> v]] /\ data = v
    BY DEF Init
  <2>2. [r \in Registers |-> v] \in [Registers -> Values]
    OBVIOUS
  <2>3. reg \in Banks
    BY <2>1, <2>2 DEF Banks
  <2>4. single \in [Harts -> BOOLEAN] /\ state \in [Harts -> States]
    BY DEF Init, States
  <2>5. dm \in BOOLEAN /\ hartsel \in Harts /\ progbuf = "none" /\ cmderr \in BOOLEAN
    BY DEF Init
  <2>. QED  BY <2>1, <2>3, <2>4, <2>5 DEF HardwareOK
<1>2. HostOK
  BY RocketAssumption, EmptySeq DEF Init, HostOK
<1>3. HistoryOK
  <2>1. before \in [state : [Harts -> States], reg : Banks]
    BY <1>1 DEF Init, HardwareOK
  <2>2. retired \in [Harts -> 0..2]
    BY DEF Init
  <2>3. calls \in 0..MaxCalls /\ faults \in 0..MaxFaults
    BY RocketAssumption DEF Init
  <2>4. own \in BOOLEAN /\ lost \in BOOLEAN
    BY DEF Init
  <2>. QED  BY <2>1, <2>2, <2>3, <2>4 DEF HistoryOK
<1>. QED  BY <1>1, <1>2, <1>3 DEF TypeOK

LEMMA CallTypes ==
  ASSUME TypeOK, NEW o \in Ops, Call(o)
  PROVE  TypeOK'
<1>1. HardwareOK'
  BY RocketAssumption DEF TypeOK, HardwareOK, Call
<1>2. HostOK'
  BY ScriptTypes DEF TypeOK, HostOK, Call
<1>3. HistoryOK'
  <2>1. before' \in [state : [Harts -> States], reg : Banks]
    BY DEF Call, TypeOK, HardwareOK
  <2>2. retired' \in [Harts -> 0..2]
    BY DEF Call
  <2>3. own' = FALSE /\ lost' = FALSE /\ faults' = faults
    BY DEF Call
  <2>4. calls' \in 0..MaxCalls
    BY RocketAssumption DEF Call, TypeOK, HistoryOK
  <2>. QED  BY <2>1, <2>2, <2>3, <2>4 DEF TypeOK, HistoryOK
<1>. QED  BY <1>1, <1>2, <1>3 DEF TypeOK

\* An access that was made, or raised, leaves a script of accesses.
LEMMA ScriptKept ==
  ASSUME TypeOK, outcome = "busy", NEW rest \in Seq(Accesses), NEW how \in Failures,
         GoOn(rest) \/ Raise(how)
  PROVE  /\ script' \in Seq(Accesses) /\ outcome' \in Failures \cup {"busy", "ok"}
         /\ outcome' = "busy" <=> script' # <<>>
<1>1. CASE GoOn(rest)
  BY <1>1 DEF GoOn
<1>2. CASE Raise(how)
  <2>1. With("exit", how) \in Accesses
    BY AccessTypes
  <2>. DEFINE a == With("exit", how)
  <2>. HIDE DEF a
  <2>2. <<a>> \in Seq(Accesses) /\ <<a>> # <<>> /\ <<>> \in Seq(Accesses)
    BY <2>1, EmptySeq DEF a
  <2>3. script' = (IF inside THEN <<a>> ELSE <<>>) /\ outcome' = (IF inside THEN outcome ELSE how)
    BY <1>2, Zenon DEF Raise, a
  <2>. QED  BY <2>2, <2>3 DEF Failures
<1>. QED  BY <1>1, <1>2

LEMMA HostTypes ==
  ASSUME TypeOK, outcome = "busy", UNCHANGED op,
         inside' \in BOOLEAN, was_halted' \in BOOLEAN,
         NEW rest \in Seq(Accesses), NEW how \in Failures, GoOn(rest) \/ Raise(how)
  PROVE  HostOK'
BY ScriptKept DEF TypeOK, HostOK

\* The accesses that change nothing of the hardware.
LEMMA QuietTypes ==
  ASSUME TypeOK, Check \/ Verify \/ ReadPc \/ AssertHalted \/ Wait \/ Fetch
  PROVE  TypeOK'
<1>1. outcome = "busy" /\ UNCHANGED <<hardware, op, calls, before, retired, own>>
  BY DEF Check, Verify, ReadPc, AssertHalted, Wait, Fetch, Due, history
<1>2. Tail(script) \in Seq(Accesses) /\ SubSeq(script, 4, Len(script)) \in Seq(Accesses)
      /\ Head(script) \in Accesses /\ <<>> \in Seq(Accesses)
  BY <1>1, DueTypes, EmptySeq
<1>3. ProgramBuffer("csrr_x5_dpc") \o ReadRegister("x5") \in Seq(Accesses)
  <2>. DEFINE x == ProgramBuffer("csrr_x5_dpc")
              y == ReadRegister("x5")
  <2>1. x \in Seq(Accesses) /\ y \in Seq(Accesses)
    BY PartScripts DEF Insns
  <2>. HIDE DEF x, y
  <2>2. x \o y \in Seq(Accesses)
    BY <2>1, ConcatProperties
  <2>. QED  BY <2>2 DEF x, y
<1>4. inside' \in BOOLEAN /\ was_halted' \in BOOLEAN
  BY DEF Check, Verify, ReadPc, AssertHalted, Wait, Fetch, TypeOK, HostOK, Halted
<1>5. \E rest \in Seq(Accesses), how \in Failures : GoOn(rest) \/ Raise(how)
  <2>1. CASE Check
    BY <1>2, <2>1 DEF Check, Failures
  <2>2. CASE Verify
    BY <1>2, <2>2 DEF Verify, Failures
  <2>3. CASE ReadPc
    BY <1>2, <1>3, <2>3, Zenon DEF ReadPc, Failures
  <2>4. CASE AssertHalted
    BY <1>2, <2>4 DEF AssertHalted, Failures
  <2>5. CASE Wait
    BY <1>2, <2>5 DEF Wait, Failures
  <2>6. CASE Fetch
    BY <1>2, <2>6 DEF Fetch, Failures
  <2>. QED  BY <2>1, <2>2, <2>3, <2>4, <2>5, <2>6
<1>6. HostOK'
  BY <1>1, <1>4, <1>5, HostTypes
<1>7. faults' \in 0..MaxFaults /\ lost' \in BOOLEAN
  <2>1. \/ UNCHANGED <<faults, lost>>
        \/ (faults < MaxFaults /\ faults' = faults + 1 /\ lost' = TRUE)
    BY DEF Check, Verify, ReadPc, AssertHalted, Wait, Fetch, history
  <2>2. faults' \in 0..MaxFaults
    BY <2>1, RocketAssumption DEF TypeOK, HistoryOK
  <2>3. lost' \in BOOLEAN
    BY <2>1 DEF TypeOK, HistoryOK
  <2>. QED  BY <2>2, <2>3
<1>8. HardwareOK'
  BY <1>1 DEF TypeOK, HardwareOK, hardware
<1>9. HistoryOK'
  BY <1>1, <1>7 DEF TypeOK, HistoryOK
<1>. QED  BY <1>6, <1>8, <1>9 DEF TypeOK

\* What an access does to the hardware.
LEMMA HardwareTypes ==
  ASSUME TypeOK, Request \/ Clear \/ Stage \/ Command \/ Exit \/ Cont \/ ResumeForStep \/ SetReset
  PROVE  HardwareOK'
<1>1. outcome = "busy"
  BY DEF Request, Clear, Stage, Command, Exit, Cont, ResumeForStep, SetReset, Due
<1>2. Hart \in Harts /\ Head(script) \in Accesses
  BY <1>1, DueTypes
<1>. USE <1>2 DEF TypeOK, HardwareOK
<1>3. CASE Request
  <2>1. reg' \in Banks
    BY <1>3 DEF Request, Banks
  <2>2. state' \in [Harts -> States]
    BY <1>3 DEF Request, States
  <2>. QED  BY <1>3, <2>1, <2>2 DEF Request
<1>4. CASE Clear
  BY <1>4 DEF Clear
<1>5. CASE Stage
  BY <1>5, AccessCases DEF Stage, Due
<1>6. CASE Command
  <2>1. CASE UNCHANGED <<reg, single, data>>
    BY <1>6, <2>1 DEF Command
  <2>2. CASE Execute(hartsel, Head(script).arg)
    <3>. DEFINE c == Head(script).arg
    <3>1. c \in Commands
      BY <1>6, AccessCases DEF Command, Due
    <3>. HIDE DEF c
    <3>2. c.kind \in {"read", "write", "exec"}
          /\ (c.kind \in {"read", "write"} => c.reg \in {"x1", "x5"})
      BY <3>1 DEF Commands, Exec, Access
    <3>3. data' \in Values
      BY <2>2, <3>2 DEF Execute, Banks, Registers, c
    <3>4. single' \in [Harts -> BOOLEAN]
      BY <2>2 DEF Execute
    <3>5. reg' \in Banks
      <4>1. \/ \E r \in Registers, v \in Values : reg' = [reg EXCEPT ![hartsel][r] = v]
            \/ reg' = reg
        <5>1. reg[hartsel]["pc"] \in Values /\ reg[hartsel]["x5"] \in Values
          BY DEF Banks, Registers
        <5>2. \/ reg' = reg
              \/ c.kind = "write" /\ reg' = [reg EXCEPT ![hartsel][c.reg] = data]
              \/ reg' = [reg EXCEPT ![hartsel]["x5"] = reg[hartsel]["pc"]]
              \/ reg' = [reg EXCEPT ![hartsel]["pc"] = reg[hartsel]["x5"]]
          BY <2>2, Zenon DEF Execute, c
        <5>. QED  BY <3>2, <5>1, <5>2 DEF Registers
      <4>2. reg \in Banks /\ hartsel \in Harts
        OBVIOUS
      <4>3. CASE reg' = reg
        BY <4>2, <4>3
      <4>4. ASSUME NEW r \in Registers, NEW v \in Values, reg' = [reg EXCEPT ![hartsel][r] = v]
            PROVE  reg' \in Banks
        BY ONLY <4>2, <4>4 DEF Banks
      <4>. QED  BY <4>1, <4>3, <4>4
    <3>. QED  BY <1>6, <3>3, <3>4, <3>5 DEF Command
  <2>. QED  BY <1>6, <2>1, <2>2, Zenon DEF Command
<1>7. CASE Exit
  BY <1>7 DEF Exit, Resume, States
<1>8. CASE Cont
  BY <1>8 DEF Cont, Resume, States
<1>9. CASE ResumeForStep
  BY <1>9 DEF ResumeForStep, Resume, States
<1>10. CASE SetReset
  <2>1. state' \in [Harts -> States]
    BY <1>10 DEF SetReset, States
  <2>2. single' \in [Harts -> BOOLEAN]
    BY <1>10 DEF SetReset
  <2>. QED  BY <1>10, <2>1, <2>2 DEF SetReset
<1>. QED  BY <1>3, <1>4, <1>5, <1>6, <1>7, <1>8, <1>9, <1>10

LEMMA AccessTypesKept ==
  ASSUME TypeOK, Request \/ Clear \/ Stage \/ Command \/ Exit \/ Cont \/ ResumeForStep \/ SetReset
  PROVE  TypeOK'
<1>1. /\ outcome = "busy" /\ UNCHANGED <<op, was_halted, calls, before, retired, lost>>
      /\ inside' \in BOOLEAN
  BY DEF Request, Clear, Stage, Command, Exit, Cont, ResumeForStep, SetReset, Due, history, TypeOK,
         HostOK
<1>2. /\ Tail(script) \in Seq(Accesses) /\ <<>> \in Seq(Accesses) /\ Head(script) \in Accesses
      /\ was_halted' \in BOOLEAN
  BY <1>1, DueTypes, EmptySeq DEF TypeOK, HostOK
<1>3. HostOK'
  <2>1. ASSUME \E rest \in Seq(Accesses), how \in Failures : GoOn(rest) \/ Raise(how)  PROVE HostOK'
    BY <1>1, <1>2, <2>1, HostTypes
  <2>2. CASE Request
    BY <1>2, <2>1, <2>2 DEF Request, Failures
  <2>3. CASE Clear
    BY <1>2, <2>1, <2>3 DEF Clear, Failures
  <2>4. CASE Stage
    BY <1>2, <2>1, <2>4 DEF Stage, Failures
  <2>5. CASE Command
    BY <1>2, <2>1, <2>5 DEF Command, Failures
  <2>6. CASE Exit
    <3>1. CASE Head(script).arg = "none"
      BY <1>2, <2>1, <2>6, <3>1 DEF Exit, Failures
    <3>2. CASE Head(script).arg # "none"
      <4>1. script' = <<>> /\ outcome' \in Failures
        BY <1>2, <2>6, <3>2, AccessCases DEF Exit, Due
      <4>. QED  BY <1>1, <1>2, <4>1 DEF TypeOK, HostOK, Failures
    <3>. QED  BY <3>1, <3>2
  <2>7. CASE Cont
    BY <1>2, <2>1, <2>7 DEF Cont, Failures
  <2>8. CASE ResumeForStep
    BY <1>2, <2>1, <2>8 DEF ResumeForStep, Failures
  <2>9. CASE SetReset
    BY <1>2, <2>1, <2>9 DEF SetReset, Failures
  <2>. QED  BY <2>2, <2>3, <2>4, <2>5, <2>6, <2>7, <2>8, <2>9
<1>4. faults' \in 0..MaxFaults /\ own' \in BOOLEAN
  <2>1. faults' = faults \/ (faults < MaxFaults /\ faults' = faults + 1)
    <3>1. CASE Request
      BY <3>1 DEF Request
    <3>2. CASE Command
      BY <3>2 DEF Command
    <3>3. CASE ~Request /\ ~Command
      BY <3>3 DEF Clear, Stage, Exit, Cont, ResumeForStep, SetReset
    <3>. QED  BY <3>1, <3>2, <3>3
  <2>2. own' \in BOOLEAN
    <3>1. CASE Command
      BY <3>1 DEF Command, TypeOK, HistoryOK
    <3>2. CASE ~Command
      BY <3>2 DEF Request, Clear, Stage, Exit, Cont, ResumeForStep, SetReset, TypeOK, HistoryOK, history
    <3>. QED  BY <3>1, <3>2
  <2>. QED  BY <2>1, <2>2, RocketAssumption DEF TypeOK, HistoryOK
<1>5. HistoryOK'
  BY <1>1, <1>4 DEF TypeOK, HistoryOK
<1>. QED  BY <1>3, <1>5, HardwareTypes DEF TypeOK

LEMMA FailureTypes ==
  ASSUME TypeOK, AccessFails
  PROVE  TypeOK'
<1>1. UNCHANGED <<hardware, op, was_halted, calls, before, retired, own>> /\ outcome = "busy"
  BY DEF AccessFails
<1>2. HostOK'
  <2>1. CASE script' = <<>> /\ outcome' = "raised" /\ inside' = FALSE
    BY <1>1, <2>1, EmptySeq DEF TypeOK, HostOK, Failures
  <2>2. CASE Raise("raised") /\ UNCHANGED inside
    BY <1>1, <2>2, HostTypes, EmptySeq DEF TypeOK, HostOK, Failures
  <2>. QED  BY <2>1, <2>2 DEF AccessFails
<1>3. faults' \in 0..MaxFaults /\ lost' \in BOOLEAN
  <2>1. faults' \in 0..MaxFaults
    BY RocketAssumption DEF AccessFails, TypeOK, HistoryOK
  <2>2. lost' \in BOOLEAN
    BY DEF AccessFails
  <2>. QED  BY <2>1, <2>2
<1>4. HardwareOK' /\ HistoryOK'
  BY <1>1, <1>3 DEF TypeOK, HardwareOK, HistoryOK, hardware
<1>. QED  BY <1>2, <1>4 DEF TypeOK

LEMMA HartTypes ==
  ASSUME TypeOK, NEW h \in Harts, HartRuns(h)
  PROVE  TypeOK'
<1>1. state' \in [Harts -> States] /\ reg' \in Banks
  BY DEF HartRuns, TypeOK, HardwareOK, States, Banks
<1>2. retired' \in [Harts -> 0..2]
  BY DEF HartRuns, TypeOK, HistoryOK
<1>3. UNCHANGED <<dm, hartsel, single, progbuf, data, cmderr, host, calls, faults, before, own, lost>>
  BY DEF HartRuns
<1>. QED  BY <1>1, <1>2, <1>3 DEF TypeOK, HardwareOK, HostOK, HistoryOK, host

LEMMA TypeNext == TypeOK /\ [Next]_vars => TypeOK'
<1>. SUFFICES ASSUME TypeOK, [Next]_vars  PROVE TypeOK'
  OBVIOUS
<1>1. CASE UNCHANGED vars
  BY <1>1 DEF vars, hardware, host, history, TypeOK, HardwareOK, HostOK, HistoryOK
<1>. QED
  BY <1>1, CallTypes, QuietTypes, AccessTypesKept, FailureTypes, HartTypes DEF Next

\* The debug module, the harts and the call keep their types, whatever
\* commands and accesses fail.
THEOREM TypeCorrect == Spec => []TypeOK
BY TypeInit, TypeNext, PTL DEF Spec
---------------------------------------------------------------------------
(* The invariant of a cluster with one hart.                               *)

OneHart == Harts = {First}

Found == before.state[First]
Moves == op.method \in {"read", "write"}

\* A call that has to leave the hart as it found it.
GivesBack == Moves /\ ~single[First]
AsFound == GivesBack => state[First] = Found

\* A move finds a halted hart halted throughout, and its other registers as
\* they were.
StaysHalted == Moves /\ Found = "halted" => state[First] = "halted"
Kept == Throughout => \A r \in Registers \ Written : reg[First][r] = before.reg[First][r]

\* Only a step of a halted hart sets dcsr.step, and only a failure leaves it.
SingleOK ==
  single[First] =>
    calls > 0 /\ (faults > 0 \/ (outcome = "busy" /\ op.method = "step" /\ Found = "halted"))

\* What a stage needs, and what it brings about.
Needs(g) ==
  CASE g = "read" -> Throughout => reg[First][Target(op)] = before.reg[First][op.reg]
    [] g = "x5_to_dpc" -> Throughout => reg[First]["x5"] = op.value
    [] g = "set_step" -> Found = "halted" => retired[First] = 0
    [] g = "clear_step" -> Found = "halted" => retired[First] = 1
    [] OTHER -> TRUE

Brings(g) ==
  CASE g = "read" -> Throughout => data = before.reg[First][op.reg]
    [] g = "dpc_to_x5" -> Throughout => reg[First]["x5"] = before.reg[First]["pc"]
    [] g = "write" -> Throughout => reg[First][Target(op)] = op.value
    [] g = "x5_to_dpc" -> Throughout => reg[First]["pc"] = op.value
    [] g = "set_step" -> Found = "halted" => retired[First] = 0 /\ single[First]
    [] OTHER -> Found = "halted" => retired[First] = 1 /\ ~single[First]

\* A step that has begun was of a halted hart, or of one that a failure had
\* left stepping.
Begun == op.method = "step" => Found = "halted" \/ faults > 0

Outside == ~inside /\ Begun

Inside ==
  /\ inside /\ Begun /\ state[First] = "halted"
  /\ was_halted => (GivesBack => Found = "halted")
  /\ ~was_halted => Found # "halted" /\ (GivesBack => Found = "running")

\* PROGBUF0 and DATA0 hold what the command of the stage uses.
Staged(g) ==
  /\ g \notin {"read", "write"} => progbuf = Insn(g)
  /\ g = "write" => data = op.value

InCheck(g) ==
  /\ script = AtCheck(g, op) /\ Outside /\ Needs(g) /\ AsFound
  /\ Found = "halted" => state[First] = "halted"
InRequest(g) ==
  script = AtRequest(g, op) /\ Outside /\ ~was_halted /\ Found # "halted" /\ AsFound
InVerify(g) ==
  /\ script = AtVerify(g, op) /\ Outside /\ ~was_halted /\ Found # "halted"
  /\ GivesBack => \/ state[First] = Found
                  \/ Found = "running" /\ state[First] = "halted"
InClear(g) == script = AtClear(g, op) /\ Inside /\ Needs(g)
InPrepare(g) ==
  g # "read" /\ script = AtPrepare(g, op) /\ Inside /\ Needs(g) /\ ~cmderr
InCommand(g) ==
  script = AtCommand(g, op) /\ Inside /\ Needs(g) /\ ~cmderr /\ Staged(g)
InExit(g) == script = AtExit(g, op) /\ Inside /\ Brings(g)

InStage(g) ==
  \/ InCheck(g) \/ InRequest(g) \/ InVerify(g) \/ InClear(g) \/ InPrepare(g)
  \/ InCommand(g) \/ InExit(g)

\* The finally, after an exception in the body.
Raising ==
  /\ \E how \in Failures : script = Then(With("exit", how), <<>>) /\ (how = "command_error" => own)
  /\ Inside /\ faults > 0

InHalt ==
  /\ op.method = "halt" /\ ~inside
  /\ script \in {Then(Do("check"), Then(Do("request"), Then(Do("verify"), <<>>))),
                 Then(Do("request"), Then(Do("verify"), <<>>)), Then(Do("verify"), <<>>)}

InSimple ==
  /\ op.method \in {"cont", "set_reset", "clear_reset"} /\ ~inside
  /\ script = Then(Do(op.method), <<>>)

InPc == op.method = "read" /\ op.reg = "pc" /\ ~inside /\ script = Then(Do("pc"), <<>>) /\ AsFound

InFetch ==
  /\ op.method = "read" /\ ~inside /\ script = Then(Do("fetch"), <<>>) /\ AsFound
  /\ Throughout => data = before.reg[First][op.reg]

InAssert ==
  /\ op.method = "step" /\ ~inside
  /\ script = Then(Do("assert_halted"), AtCheck("set_step", op))
  /\ Found = "halted" => state[First] = "halted" /\ retired[First] = 0
  /\ Found # "halted" /\ faults = 0 => state[First] # "halted"

InResume ==
  /\ op.method = "step" /\ Outside
  /\ script = Then(Do("resume"), Then(Do("wait"), AtCheck("clear_step", op)))
  /\ Found = "halted" => state[First] = "halted" /\ retired[First] = 0 /\ single[First]

InWait ==
  /\ op.method = "step" /\ Outside
  /\ script = Then(Do("wait"), AtCheck("clear_step", op))
  /\ Found = "halted" => \/ state[First] = "running" /\ retired[First] = 0 /\ single[First]
                         \/ state[First] = "halted" /\ retired[First] = 1

Placed ==
  \/ Raising \/ InHalt \/ InSimple \/ InPc \/ InFetch \/ InAssert \/ InResume \/ InWait
  \/ \E g \in StagesOf(op) : InStage(g)

\* The properties of the calls that have ended.
EndedOK ==
  /\ ~inside
  /\ outcome \in {"ok", "command_error", "raised"} /\ Throughout =>
       /\ outcome = "ok" /\ op.method = "read" => data = before.reg[First][op.reg]
       /\ outcome = "ok" /\ op.method = "write" => reg[First][op.reg] = op.value
       /\ outcome = "command_error" => own
  /\ outcome \in {"ok", "command_error", "raised"} /\ GivesBack /\ ~lost =>
       state[First] = Found
  /\ outcome = "ok" /\ op.method = "step" /\ Found = "halted" =>
       retired[First] = 1 /\ state[First] = "halted" /\ ~single[First]

CallOK ==
  /\ StaysHalted /\ Kept /\ SingleOK
  /\ outcome = "busy" => calls > 0 /\ Placed
  /\ outcome # "busy" => EndedOK

LEMMA OnlyHart ==
  ASSUME OneHart, TypeOK
  PROVE  Hart = First /\ hartsel = First /\ (outcome = "busy" => op \in Ops)
<1>1. op.hart \in Harts
  BY RocketAssumption, OpCases DEF TypeOK, HostOK
<1>. QED  BY <1>1 DEF OneHart, TypeOK, HostOK, HardwareOK, Hart

\* The same, as facts about any sequence that is an access and then others.
LEMMA Heads ==
  ASSUME NEW a \in Accesses, NEW r \in Seq(Accesses), NEW s, s = Then(a, r)
  PROVE  Head(s) = a /\ Tail(s) = r
BY Thens

\* The access that is due, and what follows it.
LEMMA StageHeads ==
  ASSUME NEW o \in Ops, NEW g \in StagesOf(o)
  PROVE  /\ Head(AtCheck(g, o)) = Do("check") /\ Tail(AtCheck(g, o)) = AtRequest(g, o)
         /\ SubSeq(AtCheck(g, o), 4, Len(AtCheck(g, o))) = AtClear(g, o)
         /\ Head(AtRequest(g, o)) = Do("request") /\ Tail(AtRequest(g, o)) = AtVerify(g, o)
         /\ Head(AtVerify(g, o)) = Do("verify") /\ Tail(AtVerify(g, o)) = AtClear(g, o)
         /\ Head(AtClear(g, o)) = Do("clear")
         /\ g = "read" => Tail(AtClear(g, o)) = AtCommand(g, o)
         /\ g # "read" => Tail(AtClear(g, o)) = AtPrepare(g, o)
         /\ g # "read" => /\ Head(AtPrepare(g, o)) = Prepared(g, o)
                          /\ Tail(AtPrepare(g, o)) = AtCommand(g, o)
         /\ Head(AtCommand(g, o)) = With("command", Issued(g, o))
         /\ Tail(AtCommand(g, o)) = AtExit(g, o)
         /\ Head(AtExit(g, o)) = Do("exit") /\ Tail(AtExit(g, o)) = Rest(g, o)
<1>1. /\ Do("exit") \in Accesses /\ Do("clear") \in Accesses /\ Do("verify") \in Accesses
      /\ Do("request") \in Accesses /\ Do("check") \in Accesses
      /\ With("command", Issued(g, o)) \in Accesses /\ (g # "read" => Prepared(g, o) \in Accesses)
  BY AccessTypes, PartTypes
<1>2. /\ Rest(g, o) \in Seq(Accesses)
      /\ AtExit(g, o) \in Seq(Accesses) /\ AtCommand(g, o) \in Seq(Accesses)
      /\ g # "read" => AtPrepare(g, o) \in Seq(Accesses)
      /\ AtClear(g, o) \in Seq(Accesses) /\ AtVerify(g, o) \in Seq(Accesses)
      /\ AtRequest(g, o) \in Seq(Accesses)
  BY StageTypes
<1>3. /\ AtCheck(g, o) = Then(Do("check"), AtRequest(g, o))
      /\ AtRequest(g, o) = Then(Do("request"), AtVerify(g, o))
      /\ AtVerify(g, o) = Then(Do("verify"), AtClear(g, o))
      /\ AtPrepare(g, o) = Then(Prepared(g, o), AtCommand(g, o))
      /\ AtCommand(g, o) = Then(With("command", Issued(g, o)), AtExit(g, o))
      /\ AtExit(g, o) = Then(Do("exit"), Rest(g, o))
  BY Zenon DEF AtCheck, AtRequest, AtVerify, AtPrepare, AtCommand, AtExit
<1>4. /\ g = "read" => AtClear(g, o) = Then(Do("clear"), AtCommand(g, o))
      /\ g # "read" => AtClear(g, o) = Then(Do("clear"), AtPrepare(g, o))
  BY Zenon DEF AtClear
<1>5. /\ Head(AtCheck(g, o)) = Do("check") /\ Tail(AtCheck(g, o)) = AtRequest(g, o)
      /\ Head(AtRequest(g, o)) = Do("request") /\ Tail(AtRequest(g, o)) = AtVerify(g, o)
      /\ Head(AtVerify(g, o)) = Do("verify") /\ Tail(AtVerify(g, o)) = AtClear(g, o)
  BY ONLY <1>1, <1>2, <1>3, Heads
<1>6. /\ Head(AtClear(g, o)) = Do("clear")
      /\ g = "read" => Tail(AtClear(g, o)) = AtCommand(g, o)
      /\ g # "read" => Tail(AtClear(g, o)) = AtPrepare(g, o)
  BY ONLY <1>1, <1>2, <1>4, Heads
<1>7. g # "read" => /\ Head(AtPrepare(g, o)) = Prepared(g, o)
                    /\ Tail(AtPrepare(g, o)) = AtCommand(g, o)
  BY ONLY <1>1, <1>2, <1>3, Heads
<1>8. /\ Head(AtCommand(g, o)) = With("command", Issued(g, o))
      /\ Tail(AtCommand(g, o)) = AtExit(g, o)
      /\ Head(AtExit(g, o)) = Do("exit") /\ Tail(AtExit(g, o)) = Rest(g, o)
  BY ONLY <1>1, <1>2, <1>3, Heads
<1>9. SubSeq(AtCheck(g, o), 4, Len(AtCheck(g, o))) = AtClear(g, o)
  <2>. DEFINE t == AtClear(g, o)
              q == Then(Do("check"), Then(Do("request"), Then(Do("verify"), t)))
  <2>1. t \in Seq(Accesses)
    BY <1>2
  <2>2. AtCheck(g, o) = q
    BY Zenon DEF AtCheck, AtRequest, AtVerify
  <2>. HIDE DEF t
  <2>3. SubSeq(q, 4, Len(q)) = t
    BY <1>1, <2>1, FourthOn, Zenon
  <2>. HIDE DEF q
  <2>4. SubSeq(AtCheck(g, o), 4, Len(AtCheck(g, o))) = t
    BY ONLY <2>2, <2>3
  <2>. QED  BY <2>4 DEF t
<1>. QED  BY ONLY <1>5, <1>6, <1>7, <1>8, <1>9

LEMMA StageDues ==
  ASSUME NEW o \in Ops, NEW g \in StagesOf(o)
  PROVE  /\ Head(AtCheck(g, o)).do = "check"
         /\ Head(AtRequest(g, o)).do = "request"
         /\ Head(AtVerify(g, o)).do = "verify"
         /\ Head(AtClear(g, o)).do = "clear"
         /\ g # "read" => Head(AtPrepare(g, o)).do \in {"data", "progbuf"}
         /\ Head(AtCommand(g, o)).do = "command" /\ Head(AtCommand(g, o)).arg = Issued(g, o)
         /\ Head(AtExit(g, o)).do = "exit" /\ Head(AtExit(g, o)).arg = "none"
<1>1. Prepared(g, o).do \in {"data", "progbuf"}
  BY DEF Prepared, With
<1>. QED  BY <1>1, StageHeads DEF Do, With

LEMMA OtherHeads ==
  ASSUME TypeOK, outcome = "busy"
  PROVE  /\ Raising => Head(script).do = "exit" /\ Head(script).arg \in Failures
                       /\ (Head(script).arg = "command_error" => own)
         /\ InHalt => Head(script).do \in {"check", "request", "verify"}
         /\ InSimple => Head(script).do = op.method
         /\ InPc => Head(script).do = "pc"
         /\ InFetch => Head(script).do = "fetch" /\ Tail(script) = <<>>
         /\ InAssert => /\ Head(script).do = "assert_halted"
                        /\ Tail(script) = AtCheck("set_step", op)
         /\ InResume => /\ Head(script).do = "resume"
                        /\ Tail(script) = Then(Do("wait"), AtCheck("clear_step", op))
         /\ InWait => Head(script).do = "wait" /\ Tail(script) = AtCheck("clear_step", op)
<1>1. op \in Ops /\ <<>> \in Seq(Accesses)
  BY EmptySeq DEF TypeOK, HostOK
<1>2. /\ Do("check") \in Accesses /\ Do("request") \in Accesses /\ Do("verify") \in Accesses
      /\ Do("fetch") \in Accesses /\ Do("assert_halted") \in Accesses
      /\ Do("resume") \in Accesses /\ Do("wait") \in Accesses /\ Do("pc") \in Accesses
      /\ op.method \in {"cont", "set_reset", "clear_reset"} => Do(op.method) \in Accesses
  BY AccessTypes
<1>3. Raising => Head(script).do = "exit" /\ Head(script).arg \in Failures
                 /\ (Head(script).arg = "command_error" => own)
  <2>. SUFFICES ASSUME Raising  PROVE Head(script).do = "exit" /\ Head(script).arg \in Failures
                                      /\ (Head(script).arg = "command_error" => own)
    OBVIOUS
  <2>1. PICK how \in Failures :
          script = Then(With("exit", how), <<>>) /\ (how = "command_error" => own)
    BY DEF Raising
  <2>2. With("exit", how) \in Accesses
    BY AccessTypes
  <2>3. Head(script) = With("exit", how)
    BY <1>1, <2>1, <2>2, Thens
  <2>. QED  BY <2>1, <2>3 DEF With
<1>4. op.method = "step" => /\ AtCheck("set_step", op) \in Seq(Accesses)
                            /\ AtCheck("clear_step", op) \in Seq(Accesses)
  <2>1. op.method = "step" => {"set_step", "clear_step"} = StagesOf(op)
    BY DEF StagesOf
  <2>. QED  BY <1>1, <2>1, StageTypes
<1>5. InHalt => Head(script) \in {Do("check"), Do("request"), Do("verify")}
  <2>. DEFINE v == Then(Do("verify"), <<>>)
              r == Then(Do("request"), v)
  <2>1. v \in Seq(Accesses) /\ r \in Seq(Accesses)
    BY <1>1, <1>2, Thens
  <2>2. InHalt => script \in {Then(Do("check"), r), r, v}
    BY DEF InHalt
  <2>. HIDE DEF v, r
  <2>3. Head(Then(Do("check"), r)) = Do("check")
    BY ONLY <1>2, <2>1, Heads
  <2>4. Head(r) = Do("request") /\ Head(v) = Do("verify")
    <3>1. r = Then(Do("request"), v) /\ v = Then(Do("verify"), <<>>)
      BY DEF r, v
    <3>. QED  BY ONLY <1>1, <1>2, <2>1, <3>1, Heads
  <2>. QED  BY ONLY <2>2, <2>3, <2>4
<1>6. /\ InSimple => Head(script) = Do(op.method)
      /\ InPc => Head(script) = Do("pc")
      /\ InFetch => Head(script) = Do("fetch") /\ Tail(script) = <<>>
  BY ONLY <1>1, <1>2, Heads DEF InSimple, InPc, InFetch
<1>7. InAssert => Head(script) = Do("assert_halted") /\ Tail(script) = AtCheck("set_step", op)
  BY ONLY <1>2, <1>4, Heads DEF InAssert
<1>8. InWait => Head(script) = Do("wait") /\ Tail(script) = AtCheck("clear_step", op)
  BY ONLY <1>2, <1>4, Heads DEF InWait
<1>9. InResume => /\ Head(script) = Do("resume")
                  /\ Tail(script) = Then(Do("wait"), AtCheck("clear_step", op))
  <2>. DEFINE w == Then(Do("wait"), AtCheck("clear_step", op))
  <2>1. InResume => w \in Seq(Accesses)
    BY ONLY <1>2, <1>4, Thens DEF InResume
  <2>2. InResume => script = Then(Do("resume"), w)
    BY DEF InResume
  <2>. HIDE DEF w
  <2>3. InResume => Head(script) = Do("resume") /\ Tail(script) = w
    BY ONLY <1>2, <2>1, <2>2, Heads
  <2>. QED  BY <2>3 DEF w
<1>. QED  BY <1>3, <1>5, <1>6, <1>7, <1>8, <1>9 DEF Do

\* The positions of a stage and of halt leave something to do.
LEMMA StageFilled ==
  ASSUME NEW o \in Ops, NEW g \in StagesOf(o)
  PROVE  /\ AtCheck(g, o) # <<>> /\ AtRequest(g, o) # <<>> /\ AtVerify(g, o) # <<>>
         /\ AtClear(g, o) # <<>> /\ (g # "read" => AtPrepare(g, o) # <<>>)
         /\ AtCommand(g, o) # <<>> /\ AtExit(g, o) # <<>>
<1>1. /\ Do("exit") \in Accesses /\ Do("clear") \in Accesses /\ Do("verify") \in Accesses
      /\ Do("request") \in Accesses /\ Do("check") \in Accesses
      /\ With("command", Issued(g, o)) \in Accesses /\ (g # "read" => Prepared(g, o) \in Accesses)
  BY AccessTypes, PartTypes
<1>2. /\ Rest(g, o) \in Seq(Accesses)
      /\ AtExit(g, o) \in Seq(Accesses) /\ AtCommand(g, o) \in Seq(Accesses)
      /\ g # "read" => AtPrepare(g, o) \in Seq(Accesses)
      /\ AtClear(g, o) \in Seq(Accesses) /\ AtVerify(g, o) \in Seq(Accesses)
      /\ AtRequest(g, o) \in Seq(Accesses)
  BY StageTypes
<1>3. AtClear(g, o) # <<>>
  <2>1. CASE g = "read"
    BY <1>1, <1>2, <2>1, Thens DEF AtClear
  <2>2. CASE g # "read"
    BY <1>1, <1>2, <2>2, Thens DEF AtClear
  <2>. QED  BY <2>1, <2>2
<1>4. /\ AtCheck(g, o) # <<>> /\ AtRequest(g, o) # <<>> /\ AtVerify(g, o) # <<>>
      /\ AtCommand(g, o) # <<>> /\ AtExit(g, o) # <<>>
  BY ONLY <1>1, <1>2, Thens DEF AtCheck, AtRequest, AtVerify, AtCommand, AtExit
<1>5. g # "read" => AtPrepare(g, o) # <<>>
  BY ONLY <1>1, <1>2, Thens DEF AtPrepare
<1>. QED  BY <1>3, <1>4, <1>5

LEMMA HaltPlaces ==
  ASSUME InHalt
  PROVE  /\ Head(script).do = "check" =>
              /\ SubSeq(script, 4, Len(script)) = <<>>
              /\ Tail(script) = Then(Do("request"), Then(Do("verify"), <<>>))
         /\ Head(script).do = "request" => Tail(script) = Then(Do("verify"), <<>>)
         /\ Head(script).do = "verify" => Tail(script) = <<>>
         /\ Then(Do("request"), Then(Do("verify"), <<>>)) # <<>> /\ Then(Do("verify"), <<>>) # <<>>
<1>. DEFINE r == Then(Do("verify"), <<>>)
            q == Then(Do("request"), r)
            t == Then(Do("check"), q)
<1>1. /\ Do("check") \in Accesses /\ Do("request") \in Accesses /\ Do("verify") \in Accesses
      /\ <<>> \in Seq(Accesses)
  BY AccessTypes, EmptySeq
<1>2. r \in Seq(Accesses) /\ q \in Seq(Accesses) /\ q # <<>> /\ r # <<>>
  BY <1>1, Thens
<1>3. r = Then(Do("verify"), <<>>) /\ q = Then(Do("request"), r) /\ t = Then(Do("check"), q)
  OBVIOUS
<1>4. SubSeq(t, 4, Len(t)) = <<>>
  BY <1>1, FourthOn, Zenon
<1>5. script \in {t, q, r}
  BY DEF InHalt
<1>. HIDE DEF r, q, t
<1>6. /\ Head(t) = Do("check") /\ Head(q) = Do("request") /\ Head(r) = Do("verify")
      /\ Tail(t) = q /\ Tail(q) = r /\ Tail(r) = <<>>
  BY ONLY <1>1, <1>2, <1>3, Heads
<1>7. Do("check").do = "check" /\ Do("request").do = "request" /\ Do("verify").do = "verify"
  BY DEF Do
<1>8. /\ Head(script).do = "check" => script = t
      /\ Head(script).do = "request" => script = q
      /\ Head(script).do = "verify" => script = r
  BY ONLY <1>5, <1>6, <1>7
<1>9. /\ Head(script).do = "check" => SubSeq(script, 4, Len(script)) = <<>> /\ Tail(script) = q
      /\ Head(script).do = "request" => Tail(script) = r
      /\ Head(script).do = "verify" => Tail(script) = <<>>
  BY ONLY <1>4, <1>6, <1>8
<1>. QED  BY <1>2, <1>3, <1>9

\* Where a call is, by the access that is due.
LEMMA Whereabouts ==
  ASSUME TypeOK, outcome = "busy", Placed, NEW w, Head(script).do = w
  PROVE  /\ w = "check" => InHalt \/ \E g \in StagesOf(op) : InCheck(g)
         /\ w = "request" => InHalt \/ \E g \in StagesOf(op) : InRequest(g)
         /\ w = "verify" => InHalt \/ \E g \in StagesOf(op) : InVerify(g)
         /\ w = "clear" => \E g \in StagesOf(op) : InClear(g)
         /\ w \in {"data", "progbuf"} => \E g \in StagesOf(op) : InPrepare(g)
         /\ w = "command" => \E g \in StagesOf(op) : InCommand(g)
         /\ w = "exit" => Raising \/ \E g \in StagesOf(op) : InExit(g)
         /\ w \in {"cont", "set_reset", "clear_reset"} => InSimple
         /\ w = "pc" => InPc
         /\ w = "fetch" => InFetch
         /\ w = "assert_halted" => InAssert
         /\ w = "resume" => InResume
         /\ w = "wait" => InWait
<1>1. op \in Ops
  BY DEF TypeOK, HostOK
<1>2. CASE \E g \in StagesOf(op) : InStage(g)
  <2>1. PICK g \in StagesOf(op) : InStage(g)
    BY <1>2
  <2>. DEFINE s == script
  <2>2. /\ InCheck(g) => s = AtCheck(g, op)
        /\ InRequest(g) => s = AtRequest(g, op)
        /\ InVerify(g) => s = AtVerify(g, op)
        /\ InClear(g) => s = AtClear(g, op)
        /\ InPrepare(g) => g # "read" /\ s = AtPrepare(g, op)
        /\ InCommand(g) => s = AtCommand(g, op)
        /\ InExit(g) => s = AtExit(g, op)
    BY DEF InCheck, InRequest, InVerify, InClear, InPrepare, InCommand, InExit
  <2>3. /\ Head(AtCheck(g, op)).do = "check"
        /\ Head(AtRequest(g, op)).do = "request"
        /\ Head(AtVerify(g, op)).do = "verify"
        /\ Head(AtClear(g, op)).do = "clear"
        /\ g # "read" => Head(AtPrepare(g, op)).do \in {"data", "progbuf"}
        /\ Head(AtCommand(g, op)).do = "command"
        /\ Head(AtExit(g, op)).do = "exit"
    BY <1>1, <2>1, StageDues
  <2>4. Head(s).do = w
    OBVIOUS
  <2>. HIDE DEF s
  <2>5. /\ InCheck(g) => w = "check"
        /\ InRequest(g) => w = "request"
        /\ InVerify(g) => w = "verify"
        /\ InClear(g) => w = "clear"
        /\ InPrepare(g) => w \in {"data", "progbuf"}
        /\ InCommand(g) => w = "command"
        /\ InExit(g) => w = "exit"
    BY ONLY <2>2, <2>3, <2>4
  <2>. QED  BY <2>1, <2>5 DEF InStage
<1>3. CASE Raising \/ InHalt \/ InPc \/ InFetch \/ InAssert \/ InResume \/ InWait
  BY <1>3, OtherHeads
<1>4. CASE InSimple
  <2>1. w = op.method /\ op.method \in {"cont", "set_reset", "clear_reset"}
    BY <1>4, OtherHeads DEF InSimple
  <2>. QED  BY <1>4, <2>1
<1>. QED  BY <1>2, <1>3, <1>4 DEF Placed

\* An access that changes neither the hart nor the call.
LEMMA QuietKept ==
  ASSUME StaysHalted, Kept, UNCHANGED <<state, reg, before, op>>
  PROVE  StaysHalted' /\ Kept'
<1>1. StaysHalted'
  BY DEF StaysHalted, Moves, Found
<1>2. Throughout' = Throughout /\ Written' = Written
  BY DEF Throughout, Written, Hart
<1>3. Kept'
  BY <1>2 DEF Kept
<1>. QED  BY <1>1, <1>3

\* An exception in the body of ensure_halted leads to its finally.
LEMMA RaisedInside ==
  ASSUME TypeOK, outcome = "busy", Inside, NEW how \in Failures, Raise(how), faults' > 0,
         UNCHANGED <<state, single, before, op, inside, was_halted>>, how = "command_error" => own'
  PROVE  Raising' /\ outcome' = "busy"
<1>1. script' = Then(With("exit", how), <<>>)
  <2>1. With("exit", how) \in Accesses
    BY AccessTypes
  <2>. DEFINE a == With("exit", how)
  <2>2. script' = <<a>>
    BY Zenon DEF Raise, Inside
  <2>. HIDE DEF a
  <2>3. a \in Accesses
    BY <2>1 DEF a
  <2>4. script' = Then(a, <<>>)
    BY <2>2, <2>3, OneFirst, EmptySeq
  <2>. QED  BY <2>4 DEF a
<1>2. Inside'
  BY DEF Inside, Begun, GivesBack, Moves, Found
<1>3. outcome' = "busy"
  BY DEF Raise, Inside
<1>. QED  BY <1>1, <1>2, <1>3 DEF Raising

\* Elsewhere it ends the call.
LEMMA RaisedOutside ==
  ASSUME NEW how \in Failures, how # "command_error", ~inside, ~inside', Raise(how),
         UNCHANGED <<state, single, before, op>>, how = "raised" => AsFound \/ lost'
  PROVE  outcome' = how /\ outcome' # "busy" /\ EndedOK'
<1>1. outcome' = how
  BY DEF Raise
<1>2. EndedOK'
  BY <1>1 DEF EndedOK, Failures, AsFound, GivesBack, Moves, Found
<1>. QED  BY <1>1, <1>2 DEF Failures

\* The body of ensure_halted is where a stage is, or the finally.
LEMMA Bodies ==
  ASSUME TypeOK, outcome = "busy", Placed
  PROVE  /\ inside => Inside
         /\ ~inside => AsFound \/ Head(script).do = "verify"
         /\ ~inside => Head(script).do # "exit"
<1>1. op \in Ops
  BY DEF TypeOK, HostOK
<1>2. CASE \E g \in StagesOf(op) : InStage(g)
  <2>1. PICK g \in StagesOf(op) : InStage(g)
    BY <1>2
  <2>2. InVerify(g) => Head(script).do = "verify"
    BY <1>1, StageDues DEF InVerify
  <2>3. CASE InCheck(g) \/ InRequest(g) \/ InVerify(g)
    <3>1. ~inside /\ (AsFound \/ InVerify(g))
      BY <2>3 DEF InCheck, InRequest, InVerify, Outside
    <3>2. Head(script).do # "exit"
      BY <1>1, <2>3, StageDues DEF InCheck, InRequest, InVerify
    <3>. QED  BY <2>2, <3>1, <3>2
  <2>4. CASE InClear(g) \/ InPrepare(g) \/ InCommand(g) \/ InExit(g)
    BY <2>4 DEF InClear, InPrepare, InCommand, InExit, Inside
  <2>. QED  BY <2>1, <2>3, <2>4 DEF InStage
<1>3. CASE Raising
  BY <1>3 DEF Raising, Inside
<1>4. CASE InHalt \/ InSimple \/ InAssert \/ InResume \/ InWait
  <2>1. ~inside /\ AsFound
    BY <1>4 DEF InHalt, InSimple, InAssert, InResume, InWait, Outside, AsFound, GivesBack, Moves
  <2>2. InSimple => Head(script).do # "exit"
    BY OtherHeads DEF InSimple
  <2>. QED  BY <1>4, <2>1, <2>2, OtherHeads
<1>5. CASE InPc \/ InFetch
  BY <1>5, OtherHeads DEF InPc, InFetch
<1>. QED  BY <1>2, <1>3, <1>4, <1>5 DEF Placed
---------------------------------------------------------------------------
(* Every step keeps it.                                                    *)

LEMMA FailureKept ==
  ASSUME OneHart, TypeOK, CallOK, AccessFails
  PROVE  CallOK'
<1>1. /\ outcome = "busy" /\ faults' = faults + 1 /\ calls > 0 /\ Placed
      /\ UNCHANGED <<state, reg, single, before, op, was_halted, calls, own>>
  BY DEF AccessFails, hardware, CallOK
<1>2. faults' > 0
  BY <1>1 DEF TypeOK, HistoryOK
<1>3. StaysHalted' /\ Kept' /\ SingleOK'
  <2>1. SingleOK'
    BY <1>1, <1>2 DEF SingleOK, CallOK
  <2>. QED  BY <1>1, <2>1, QuietKept DEF CallOK
<1>4. CASE Head(script).do = "exit"
  <2>1. outcome' = "raised" /\ inside' = FALSE /\ lost' = TRUE
    BY <1>4 DEF AccessFails
  <2>2. EndedOK'
    BY <2>1 DEF EndedOK
  <2>. QED  BY <1>3, <2>1, <2>2 DEF CallOK
<1>5. CASE Head(script).do # "exit" /\ inside
  <2>1. Raise("raised") /\ inside' = inside /\ Inside
    BY <1>1, <1>5, Bodies DEF AccessFails
  <2>2. Raising' /\ outcome' = "busy"
    BY <1>1, <1>2, <2>1, RaisedInside DEF Failures
  <2>3. Placed'
    BY <2>2 DEF Placed
  <2>. QED  BY <1>1, <1>3, <2>2, <2>3 DEF CallOK
<1>6. CASE Head(script).do # "exit" /\ ~inside
  <2>1. Raise("raised") /\ inside' = FALSE
    BY <1>6 DEF AccessFails, TypeOK, HostOK
  <2>2. AsFound \/ lost'
    <3>1. Head(script).do = "verify" => lost'
      BY DEF AccessFails
    <3>. QED  BY <1>1, <1>6, <3>1, Bodies
  <2>3. outcome' # "busy" /\ EndedOK'
    BY <1>1, <1>6, <2>1, <2>2, RaisedOutside DEF Failures
  <2>. QED  BY <1>3, <2>3 DEF CallOK
<1>. QED  BY <1>4, <1>5, <1>6

\* is_halted and what it decides.
LEMMA CheckKept ==
  ASSUME OneHart, TypeOK, CallOK, Check
  PROVE  CallOK'
<1>1. /\ outcome = "busy" /\ calls > 0 /\ Placed /\ Head(script).do = "check" /\ Hart = First
      /\ op \in Ops /\ was_halted' = (state[First] = "halted")
      /\ inside' = (state[First] = "halted" /\ op.method # "halt")
      /\ IF state[First] = "halted" THEN GoOn(SubSeq(script, 4, Len(script))) ELSE GoOn(Tail(script))
      /\ UNCHANGED <<state, reg, single, cmderr, data, progbuf, op, calls, faults, before, retired>>
  BY OnlyHart DEF Check, Due, CallOK, hardware, history, Halted
<1>2. StaysHalted' /\ Kept'
  BY <1>1, QuietKept DEF CallOK
<1>3. CASE InHalt
  <2>1. inside' = FALSE /\ op.method = "halt"
    BY <1>1, <1>3 DEF InHalt
  <2>2. SingleOK'
    BY <1>1, <2>1 DEF SingleOK, CallOK
  <2>3. CASE state[First] = "halted"
    <3>1. SubSeq(script, 4, Len(script)) = <<>>
      BY <1>1, <1>3, HaltPlaces
    <3>2. outcome' = "ok"
      BY <1>1, <2>3, <3>1 DEF GoOn
    <3>3. EndedOK'
      BY <1>1, <2>1, <3>2 DEF EndedOK, Throughout, GivesBack, Moves
    <3>. QED  BY <1>2, <2>2, <3>2, <3>3 DEF CallOK
  <2>4. CASE state[First] # "halted"
    <3>1. /\ Tail(script) = Then(Do("request"), Then(Do("verify"), <<>>))
          /\ Then(Do("request"), Then(Do("verify"), <<>>)) # <<>>
      BY <1>1, <1>3, HaltPlaces
    <3>2. script' = Then(Do("request"), Then(Do("verify"), <<>>)) /\ outcome' = "busy"
      BY <1>1, <2>4, <3>1 DEF GoOn
    <3>3. InHalt'
      BY <1>1, <2>1, <3>2 DEF InHalt
    <3>. QED  BY <1>1, <1>2, <2>2, <3>2, <3>3 DEF CallOK, Placed
  <2>. QED  BY <2>3, <2>4
<1>4. CASE \E g \in StagesOf(op) : InCheck(g)
  <2>1. PICK g \in StagesOf(op) : InCheck(g)
    BY <1>4
  <2>2. /\ SubSeq(script, 4, Len(script)) = AtClear(g, op) /\ Tail(script) = AtRequest(g, op)
        /\ AtClear(g, op) # <<>> /\ AtRequest(g, op) # <<>>
    BY <1>1, <2>1, StageHeads, StageFilled DEF InCheck
  <2>3. outcome' = "busy"
    BY <1>1, <2>2 DEF GoOn
  <2>4. SingleOK'
    BY <1>1, <2>3 DEF SingleOK, CallOK, Found
  <2>5. op.method # "halt" /\ g \in StagesOf(op)'
    BY <1>1 DEF StagesOf
  <2>6. Needs(g)'
    <3>1. Throughout' = Throughout
      BY <1>1 DEF Throughout, Hart
    <3>. QED  BY <1>1, <2>1, <3>1 DEF InCheck, Needs, Found
  <2>7. CASE state[First] = "halted"
    <3>1. script' = AtClear(g, op)
      BY <1>1, <2>2, <2>7 DEF GoOn
    <3>2. Inside'
      BY <1>1, <2>1, <2>5, <2>7
         DEF InCheck, Inside, Outside, Begun, AsFound, GivesBack, Moves, Found
    <3>3. InClear(g)'
      BY <1>1, <2>6, <3>1, <3>2 DEF InClear
    <3>. QED  BY <1>1, <1>2, <2>3, <2>4, <2>5, <3>3 DEF CallOK, Placed, InStage
  <2>8. CASE state[First] # "halted"
    <3>1. script' = AtRequest(g, op)
      BY <1>1, <2>2, <2>8 DEF GoOn
    <3>2. InRequest(g)'
      BY <1>1, <2>1, <2>8, <3>1
         DEF InCheck, InRequest, Outside, Begun, AsFound, GivesBack, Moves, Found
    <3>. QED  BY <1>1, <1>2, <2>3, <2>4, <2>5, <3>2 DEF CallOK, Placed, InStage
  <2>. QED  BY <2>7, <2>8
<1>. QED  BY <1>1, <1>3, <1>4, Whereabouts

\* The halt request, which the hart may not follow.
LEMMA RequestKept ==
  ASSUME OneHart, TypeOK, CallOK, Request
  PROVE  CallOK'
<1>1. /\ outcome = "busy" /\ calls > 0 /\ Placed /\ Head(script).do = "request" /\ Hart = First
      /\ op \in Ops /\ GoOn(Tail(script))
      /\ UNCHANGED <<single, cmderr, data, progbuf, op, inside, was_halted, calls, before, retired>>
  BY OnlyHart DEF Request, Due, CallOK, history
<1>2. /\ state'[First] \in {state[First], "halted"}
      /\ state'[First] # state[First] => state[First] = "running"
  BY <1>1, RocketAssumption DEF Request, TypeOK, HardwareOK
<1>3. faults > 0 => faults' > 0
  BY DEF Request, TypeOK, HistoryOK
<1>4. Found' = Found /\ Moves' = Moves /\ GivesBack' = GivesBack /\ Throughout' = Throughout
  BY <1>1 DEF Found, Moves, GivesBack, Throughout, Hart
<1>5. SingleOK' \/ outcome' # "busy"
  BY <1>1, <1>3, <1>4 DEF SingleOK, CallOK
<1>6. CASE InHalt
  <2>1. Tail(script) = Then(Do("verify"), <<>>) /\ Then(Do("verify"), <<>>) # <<>>
    BY <1>1, <1>6, HaltPlaces
  <2>2. script' = Then(Do("verify"), <<>>) /\ outcome' = "busy"
    BY <1>1, <2>1 DEF GoOn
  <2>3. InHalt'
    BY <1>1, <1>6, <2>2 DEF InHalt
  <2>4. StaysHalted' /\ Kept'
    BY <1>1, <1>6 DEF InHalt, StaysHalted, Kept, Throughout, Moves
  <2>. QED  BY <1>1, <1>5, <2>2, <2>3, <2>4 DEF CallOK, Placed
<1>7. CASE \E g \in StagesOf(op) : InRequest(g)
  <2>1. PICK g \in StagesOf(op) : InRequest(g)
    BY <1>7
  <2>2. Tail(script) = AtVerify(g, op) /\ AtVerify(g, op) # <<>>
    BY <1>1, <2>1, StageHeads, StageFilled DEF InRequest
  <2>3. script' = AtVerify(g, op) /\ outcome' = "busy"
    BY <1>1, <2>2 DEF GoOn
  <2>4. Found # "halted" /\ ~Throughout
    BY <1>1, <2>1 DEF InRequest, Found, Throughout
  <2>5. StaysHalted' /\ Kept'
    BY <1>4, <2>4 DEF StaysHalted, Kept
  <2>6. Outside'
    BY <1>1, <1>3, <1>4, <2>1 DEF InRequest, Outside, Begun
  <2>7. GivesBack' => \/ state'[First] = Found'
                      \/ Found' = "running" /\ state'[First] = "halted"
    BY <1>2, <1>4, <2>1 DEF InRequest, AsFound
  <2>8. InVerify(g)'
    BY <1>1, <1>4, <2>1, <2>3, <2>4, <2>6, <2>7 DEF InRequest, InVerify
  <2>9. g \in StagesOf(op)'
    BY <1>1, <2>1
  <2>. QED  BY <1>1, <1>5, <2>3, <2>5, <2>8, <2>9 DEF CallOK, Placed, InStage
<1>. QED  BY <1>1, <1>6, <1>7, Whereabouts

\* The verification, which enters the body or raises.
LEMMA VerifyKept ==
  ASSUME OneHart, TypeOK, CallOK, Verify
  PROVE  CallOK'
<1>1. /\ outcome = "busy" /\ calls > 0 /\ Placed /\ Head(script).do = "verify" /\ Hart = First
      /\ op \in Ops
      /\ inside' = (state[First] = "halted" /\ op.method # "halt")
      /\ IF state[First] = "halted" THEN GoOn(Tail(script)) ELSE Raise("not_halted")
      /\ UNCHANGED <<state, reg, single, op, was_halted, calls, faults, before, retired>>
  BY OnlyHart DEF Verify, Due, CallOK, hardware, history, Halted
<1>2. StaysHalted' /\ Kept'
  BY <1>1, QuietKept DEF CallOK
<1>3. CASE InHalt
  <2>1. op.method = "halt" /\ ~inside /\ ~inside' /\ AsFound
    BY <1>1, <1>3 DEF InHalt, AsFound, GivesBack, Moves
  <2>2. SingleOK'
    BY <1>1, <2>1 DEF SingleOK, CallOK
  <2>3. outcome' \in {"ok", "not_halted"}
    BY <1>1, <1>3, <2>1, HaltPlaces DEF GoOn, Raise
  <2>4. EndedOK'
    BY <1>1, <2>1, <2>3 DEF EndedOK, Throughout, GivesBack, Moves
  <2>. QED  BY <1>2, <2>2, <2>3, <2>4 DEF CallOK
<1>4. CASE \E g \in StagesOf(op) : InVerify(g)
  <2>1. PICK g \in StagesOf(op) : InVerify(g)
    BY <1>4
  <2>2. /\ ~inside /\ ~was_halted /\ Found # "halted"
        /\ GivesBack => \/ state[First] = Found
                        \/ Found = "running" /\ state[First] = "halted"
    BY <2>1 DEF InVerify, Outside
  <2>3. op.method # "halt" /\ g \in StagesOf(op)'
    BY <1>1, <2>1 DEF StagesOf
  <2>4. SingleOK'
    BY <1>1, <2>2 DEF SingleOK, CallOK
  <2>5. CASE state[First] = "halted"
    <3>1. Tail(script) = AtClear(g, op) /\ AtClear(g, op) # <<>>
      BY <1>1, <2>1, StageHeads, StageFilled DEF InVerify
    <3>2. script' = AtClear(g, op) /\ outcome' = "busy"
      BY <1>1, <2>5, <3>1 DEF GoOn
    <3>3. Inside'
      BY <1>1, <2>1, <2>2, <2>3, <2>5
         DEF InVerify, Inside, Outside, Begun, GivesBack, Moves, Found
    <3>4. Needs(g)'
      <4>1. ~Throughout' /\ Found' # "halted"
        BY <1>1, <2>2 DEF Throughout, Found, Hart
      <4>. QED  BY <4>1 DEF Needs
    <3>5. InClear(g)'
      BY <1>1, <3>2, <3>3, <3>4 DEF InClear
    <3>. QED  BY <1>1, <1>2, <2>3, <2>4, <3>2, <3>5 DEF CallOK, Placed, InStage
  <2>6. CASE state[First] # "halted"
    <3>1. outcome' # "busy" /\ EndedOK'
      BY <1>1, <2>2, <2>6, RaisedOutside DEF Failures
    <3>. QED  BY <1>2, <2>4, <3>1 DEF CallOK
  <2>. QED  BY <2>5, <2>6
<1>. QED  BY <1>1, <1>3, <1>4, Whereabouts

\* ABSTRACTCS is cleared.
LEMMA ClearKept ==
  ASSUME OneHart, TypeOK, CallOK, Clear
  PROVE  CallOK'
<1>1. /\ outcome = "busy" /\ calls > 0 /\ Placed /\ Head(script).do = "clear" /\ op \in Ops
      /\ cmderr' = FALSE /\ GoOn(Tail(script))
      /\ UNCHANGED <<state, reg, single, data, progbuf, op, inside, was_halted, calls, faults,
                     before, retired>>
  BY OnlyHart DEF Clear, Due, CallOK, history
<1>2. StaysHalted' /\ Kept'
  BY <1>1, QuietKept DEF CallOK
<1>3. PICK g \in StagesOf(op) : InClear(g)
  BY <1>1, Whereabouts
<1>4. Inside' /\ Needs(g)'
  <2>1. Throughout' = Throughout
    BY <1>1 DEF Throughout, Hart
  <2>2. Needs(g)'
    BY <1>1, <1>3, <2>1 DEF InClear, Needs, Found
  <2>3. Inside'
    BY <1>1, <1>3 DEF InClear, Inside, Begun, GivesBack, Moves, Found
  <2>. QED  BY <2>2, <2>3
<1>5. /\ outcome' = "busy"
      /\ g = "read" => script' = AtCommand(g, op)
      /\ g # "read" => script' = AtPrepare(g, op)
  BY <1>1, <1>3, StageHeads, StageFilled DEF InClear, GoOn
<1>6. InCommand(g)' \/ InPrepare(g)'
  BY <1>1, <1>4, <1>5 DEF InCommand, InPrepare, Staged
<1>7. SingleOK'
  BY <1>1, <1>5 DEF SingleOK, CallOK, Found
<1>. QED  BY <1>1, <1>2, <1>3, <1>5, <1>6, <1>7 DEF CallOK, Placed, InStage

\* PROGBUF0, or DATA0 and DATA1.
LEMMA StageKept ==
  ASSUME OneHart, TypeOK, CallOK, Stage
  PROVE  CallOK'
<1>1. /\ outcome = "busy" /\ calls > 0 /\ Placed /\ op \in Ops /\ GoOn(Tail(script))
      /\ \/ Head(script).do = "progbuf" /\ progbuf' = Head(script).arg
         \/ Head(script).do = "data" /\ data' = Head(script).arg
      /\ UNCHANGED <<state, reg, single, cmderr, op, inside, was_halted, calls, faults, before,
                     retired>>
  BY OnlyHart DEF Stage, Due, CallOK, history
<1>2. StaysHalted' /\ Kept'
  BY <1>1, QuietKept DEF CallOK
<1>3. PICK g \in StagesOf(op) : InPrepare(g)
  BY <1>1, Whereabouts
<1>4. g # "read" /\ script = AtPrepare(g, op)
  BY <1>3 DEF InPrepare
<1>5. Inside' /\ Needs(g)'
  <2>1. Throughout' = Throughout
    BY <1>1 DEF Throughout, Hart
  <2>2. Needs(g)'
    BY <1>1, <1>3, <2>1 DEF InPrepare, Needs, Found
  <2>3. Inside'
    BY <1>1, <1>3 DEF InPrepare, Inside, Begun, GivesBack, Moves, Found
  <2>. QED  BY <2>2, <2>3
<1>6. outcome' = "busy" /\ script' = AtCommand(g, op)
  BY <1>1, <1>4, StageHeads, StageFilled DEF GoOn
<1>7. Staged(g)'
  <2>1. Head(script) = Prepared(g, op)
    BY <1>1, <1>4, StageHeads
  <2>2. /\ g = "write" => Prepared(g, op).do = "data" /\ Prepared(g, op).arg = op.value
        /\ g # "write" => Prepared(g, op).do = "progbuf" /\ Prepared(g, op).arg = Insn(g)
    BY DEF Prepared, With
  <2>. QED  BY <1>1, <1>4, <2>1, <2>2 DEF Staged
<1>8. InCommand(g)'
  BY <1>1, <1>3, <1>5, <1>6, <1>7 DEF InCommand, InPrepare
<1>9. SingleOK'
  BY <1>1, <1>6 DEF SingleOK, CallOK, Found
<1>. QED  BY <1>1, <1>2, <1>3, <1>6, <1>8, <1>9 DEF CallOK, Placed, InStage

\* What the command of each stage does.
LEMMA Effects ==
  ASSUME TypeOK, First \in Harts, op \in Ops, NEW g \in StagesOf(op), Staged(g),
         Execute(First, Issued(g, op))
  PROVE  /\ g \notin {"set_step", "clear_step"} => single'[First] = single[First]
         /\ g = "set_step" => single'[First] = TRUE
         /\ g = "clear_step" => single'[First] = FALSE
         /\ g = "read" => data' = reg[First][Target(op)]
         /\ g \in {"read", "set_step", "clear_step"} => reg' = reg
         /\ g = "write" => reg' = [reg EXCEPT ![First][Target(op)] = op.value]
         /\ g = "dpc_to_x5" => reg' = [reg EXCEPT ![First]["x5"] = reg[First]["pc"]]
         /\ g = "x5_to_dpc" => reg' = [reg EXCEPT ![First]["pc"] = reg[First]["x5"]]
<1>1. g \in Stages /\ single[First] \in BOOLEAN
  BY PartTypes DEF TypeOK, HardwareOK
<1>. DEFINE c == Issued(g, op)
<1>2. /\ g = "read" => c.kind = "read" /\ c.reg = Target(op)
      /\ g = "write" => c.kind = "write" /\ c.reg = Target(op) /\ data = op.value
      /\ g \notin {"read", "write"} => c.kind = "exec" /\ progbuf = Insn(g)
  BY DEF Issued, Access, Exec, Staged
<1>3. /\ single' = [single EXCEPT ![First] =
                      (@ \/ (c.kind = "exec" /\ progbuf = "csrsi_step"))
                        /\ ~(c.kind = "exec" /\ progbuf = "csrci_step")]
      /\ data' = IF c.kind = "read" THEN reg[First][c.reg] ELSE data
  BY DEF Execute
<1>4. /\ c.kind = "write" => reg' = [reg EXCEPT ![First][c.reg] = data]
      /\ c.kind = "exec" /\ progbuf = "csrr_x5_dpc" =>
           reg' = [reg EXCEPT ![First]["x5"] = reg[First]["pc"]]
      /\ c.kind = "exec" /\ progbuf = "csrw_dpc_x5" =>
           reg' = [reg EXCEPT ![First]["pc"] = reg[First]["x5"]]
      /\ c.kind = "read" \/ (c.kind = "exec" /\ progbuf \in {"csrsi_step", "csrci_step"}) =>
           reg' = reg
  <2>1. reg' = CASE c.kind = "write" -> [reg EXCEPT ![First][c.reg] = data]
                 [] c.kind = "exec" /\ progbuf = "csrr_x5_dpc" ->
                      [reg EXCEPT ![First]["x5"] = reg[First]["pc"]]
                 [] c.kind = "exec" /\ progbuf = "csrw_dpc_x5" ->
                      [reg EXCEPT ![First]["pc"] = reg[First]["x5"]]
                 [] OTHER -> reg
    BY Zenon DEF Execute
  <2>. HIDE DEF c
  <2>. DEFINE a == [reg EXCEPT ![First][c.reg] = data]
              b == [reg EXCEPT ![First]["x5"] = reg[First]["pc"]]
              d == [reg EXCEPT ![First]["pc"] = reg[First]["x5"]]
  <2>2. reg' = CASE c.kind = "write" -> a
                 [] c.kind = "exec" /\ progbuf = "csrr_x5_dpc" -> b
                 [] c.kind = "exec" /\ progbuf = "csrw_dpc_x5" -> d
                 [] OTHER -> reg
    BY <2>1
  <2>. HIDE DEF a, b, d
  <2>3. /\ c.kind = "write" => reg' = a
        /\ c.kind = "exec" /\ progbuf = "csrr_x5_dpc" => reg' = b
        /\ c.kind = "exec" /\ progbuf = "csrw_dpc_x5" => reg' = d
        /\ c.kind = "read" \/ (c.kind = "exec" /\ progbuf \in {"csrsi_step", "csrci_step"}) =>
             reg' = reg
    BY ONLY <2>2
  <2>. QED  BY <2>3 DEF a, b, d
<1>. HIDE DEF c
<1>5. /\ g = "set_step" => progbuf = "csrsi_step"
      /\ g = "clear_step" => progbuf = "csrci_step"
      /\ g = "dpc_to_x5" => progbuf = "csrr_x5_dpc"
      /\ g = "x5_to_dpc" => progbuf = "csrw_dpc_x5"
      /\ g \in {"read", "write"} => c.kind # "exec"
  BY <1>2 DEF Insn
<1>6. /\ g \notin {"set_step", "clear_step"} => single'[First] = single[First]
      /\ g = "set_step" => single'[First] = TRUE
      /\ g = "clear_step" => single'[First] = FALSE
  <2>1. single'[First] = ((single[First] \/ (c.kind = "exec" /\ progbuf = "csrsi_step"))
                            /\ ~(c.kind = "exec" /\ progbuf = "csrci_step"))
    BY <1>3 DEF TypeOK, HardwareOK
  <2>. QED  BY <1>1, <1>2, <1>5, <2>1 DEF Stages
<1>7. g = "read" => data' = reg[First][Target(op)]
  BY <1>2, <1>3
<1>8. /\ g \in {"read", "set_step", "clear_step"} => reg' = reg
      /\ g = "write" => reg' = [reg EXCEPT ![First][Target(op)] = op.value]
      /\ g = "dpc_to_x5" => reg' = [reg EXCEPT ![First]["x5"] = reg[First]["pc"]]
      /\ g = "x5_to_dpc" => reg' = [reg EXCEPT ![First]["pc"] = reg[First]["x5"]]
  BY <1>2, <1>4, <1>5
<1>. QED  BY <1>6, <1>7, <1>8

\* The abstract command: done, or an error of its own.
LEMMA CommandKept ==
  ASSUME OneHart, TypeOK, CallOK, Command
  PROVE  CallOK'
<1>1. /\ outcome = "busy" /\ calls > 0 /\ Placed /\ Head(script).do = "command" /\ op \in Ops
      /\ hartsel = First /\ First \in Harts /\ Hart = First
      /\ UNCHANGED <<state, progbuf, op, inside, was_halted, calls, before, retired, lost>>
  BY OnlyHart, RocketAssumption DEF Command, Due, CallOK
<1>2. PICK g \in StagesOf(op) : InCommand(g)
  BY <1>1, Whereabouts
<1>3. script = AtCommand(g, op) /\ Inside /\ Needs(g) /\ ~cmderr /\ Staged(g)
  BY <1>2 DEF InCommand
<1>4. Throughout' = Throughout /\ Written' = Written /\ Found' = Found /\ Moves' = Moves
  BY <1>1 DEF Throughout, Written, Hart, Found, Moves
<1>5. StaysHalted'
  BY <1>1, <1>4 DEF StaysHalted, CallOK
<1>6. CASE Execute(First, Head(script).arg) /\ GoOn(Tail(script)) /\ UNCHANGED <<cmderr, faults, own>>
  <2>1. Head(script).arg = Issued(g, op) /\ Tail(script) = AtExit(g, op) /\ AtExit(g, op) # <<>>
    BY <1>1, <1>3, StageHeads, StageDues, StageFilled
  <2>2. script' = AtExit(g, op) /\ outcome' = "busy"
    BY <1>1, <1>6, <2>1 DEF GoOn
  <2>3. /\ g \notin {"set_step", "clear_step"} => single'[First] = single[First]
        /\ g = "set_step" => single'[First] = TRUE
        /\ g = "clear_step" => single'[First] = FALSE
        /\ g = "read" => data' = reg[First][Target(op)]
        /\ g \in {"read", "set_step", "clear_step"} => reg' = reg
        /\ g = "write" => reg' = [reg EXCEPT ![First][Target(op)] = op.value]
        /\ g = "dpc_to_x5" => reg' = [reg EXCEPT ![First]["x5"] = reg[First]["pc"]]
        /\ g = "x5_to_dpc" => reg' = [reg EXCEPT ![First]["pc"] = reg[First]["x5"]]
    BY <1>1, <1>3, <1>6, <2>1, Effects
  <2>4. /\ g \in Stages
        /\ g \in {"set_step", "clear_step"} <=> op.method = "step"
        /\ g \in {"dpc_to_x5", "x5_to_dpc"} => op.reg = "pc"
        /\ g \in {"write", "x5_to_dpc"} => op.method = "write"
        /\ g \in {"read", "dpc_to_x5"} => op.method = "read"
    BY <1>1, PartTypes DEF StagesOf, Stages
  <2>5. /\ op.reg = "pc" => Target(op) = "x5"
        /\ op.reg # "pc" => Target(op) = op.reg
    BY DEF Target
  <2>6. Moves => op.reg \in Registers /\ Target(op) \in Registers
    BY <1>1, OpCases DEF Moves, Target, Registers
  <2>7. reg[First] \in [Registers -> Values] /\ reg \in [Harts -> [Registers -> Values]]
    BY <1>1 DEF TypeOK, HardwareOK, Banks
  <2>8. SingleOK'
    <3>1. CASE g = "set_step"
      BY <1>1, <1>3, <1>4, <1>6, <2>2, <2>4, <3>1 DEF SingleOK, Inside, Begun
    <3>2. CASE g # "set_step"
      BY <1>1, <1>4, <1>6, <2>2, <2>3, <2>4, <3>2 DEF SingleOK, CallOK, Stages
    <3>. QED  BY <3>1, <3>2
  <2>9. Inside'
    BY <1>1, <1>3, <1>4, <1>6, <2>3, <2>4 DEF Inside, Begun, GivesBack, Moves, Stages
  <2>10. Kept'
    <3>1. Throughout => op.method \in {"read", "write"} /\ Moves
      BY DEF Throughout, Moves
    <3>2. ASSUME Throughout, NEW r \in Registers \ Written
          PROVE  reg'[First][r] = before.reg[First][r]
      <4>1. reg[First][r] = before.reg[First][r]
        BY <3>2 DEF CallOK, Kept
      <4>2. /\ op.method = "write" => r # op.reg
            /\ op.reg = "pc" => r # "x5"
        BY <3>2 DEF Written
      <4>3. reg'[First][r] = reg[First][r]
        <5>1. CASE g = "read"
          BY <2>3, <5>1
        <5>2. CASE g = "write"
          <6>1. r # Target(op)
            BY <2>4, <2>5, <4>2, <5>2
          <6>. QED  BY <1>1, <2>3, <2>7, <5>2, <6>1
        <5>3. CASE g = "dpc_to_x5"
          BY <1>1, <2>3, <2>4, <2>7, <4>2, <5>3
        <5>4. CASE g = "x5_to_dpc"
          BY <1>1, <2>3, <2>4, <2>7, <4>2, <5>4
        <5>. QED  BY <2>4, <3>1, <3>2, <5>1, <5>2, <5>3, <5>4 DEF Stages
      <4>. QED  BY <4>1, <4>3
    <3>. QED  BY <1>1, <1>4, <3>2 DEF Kept
  <2>11. Brings(g)'
    <3>1. CASE g = "read"
      BY <1>1, <1>3, <1>4, <2>3, <3>1 DEF Brings, Needs
    <3>2. CASE g = "dpc_to_x5"
      <4>1. Throughout => reg[First]["pc"] = before.reg[First]["pc"]
        <5>1. "pc" \in Registers \ Written
          BY <2>4, <3>2 DEF Registers, Written
        <5>. QED  BY <5>1 DEF CallOK, Kept
      <4>2. reg'[First]["x5"] = reg[First]["pc"]
        BY <1>1, <2>3, <2>7, <3>2 DEF Registers
      <4>. QED  BY <1>1, <1>4, <3>2, <4>1, <4>2 DEF Brings
    <3>3. CASE g = "write"
      <4>1. Target(op) \in Registers
        BY <2>4, <2>6, <3>3 DEF Moves
      <4>2. reg'[First][Target(op)] = op.value
        BY <1>1, <2>3, <2>7, <3>3, <4>1
      <4>. QED  BY <1>1, <1>4, <3>3, <4>2 DEF Brings
    <3>4. CASE g = "x5_to_dpc"
      <4>1. reg'[First]["pc"] = reg[First]["x5"]
        BY <1>1, <2>3, <2>7, <3>4 DEF Registers
      <4>. QED  BY <1>1, <1>3, <1>4, <3>4, <4>1 DEF Brings, Needs
    <3>5. CASE g \in {"set_step", "clear_step"}
      BY <1>1, <1>3, <1>4, <2>3, <3>5 DEF Brings, Needs
    <3>. QED  BY <2>4, <3>1, <3>2, <3>3, <3>4, <3>5 DEF Stages
  <2>12. InExit(g)'
    BY <1>1, <2>2, <2>9, <2>11 DEF InExit
  <2>. QED  BY <1>1, <1>2, <1>5, <2>2, <2>8, <2>10, <2>12 DEF CallOK, Placed, InStage
<1>7. CASE /\ cmderr \/ ~Halted(hartsel) \/ faults < MaxFaults
           /\ faults' = IF cmderr \/ ~Halted(hartsel) THEN faults ELSE faults + 1
           /\ own' = ~(cmderr \/ ~Halted(hartsel))
           /\ Raise("command_error") /\ UNCHANGED <<reg, single, data>>
  <2>1. ~(cmderr \/ ~Halted(hartsel))
    BY <1>1, <1>3 DEF Halted, Inside
  <2>2. faults' = faults + 1 /\ own'
    BY <1>7, <2>1
  <2>3. faults' > 0
    BY <2>2 DEF TypeOK, HistoryOK
  <2>4. Raising' /\ outcome' = "busy"
    BY <1>1, <1>3, <1>7, <2>2, <2>3, RaisedInside DEF Failures
  <2>5. Kept'
    BY <1>1, <1>7, QuietKept DEF CallOK
  <2>6. SingleOK'
    BY <1>1, <1>7, <2>3 DEF SingleOK, CallOK
  <2>. QED  BY <1>1, <1>5, <2>4, <2>5, <2>6 DEF CallOK, Placed
<1>8. \/ Execute(First, Head(script).arg) /\ GoOn(Tail(script)) /\ UNCHANGED <<cmderr, faults, own>>
      \/ /\ cmderr \/ ~Halted(hartsel) \/ faults < MaxFaults
         /\ faults' = IF cmderr \/ ~Halted(hartsel) THEN faults ELSE faults + 1
         /\ own' = ~(cmderr \/ ~Halted(hartsel))
         /\ Raise("command_error") /\ UNCHANGED <<reg, single, data>>
  BY <1>1, Zenon DEF Command
<1>. QED  BY <1>6, <1>7, <1>8, Zenon

\* What comes after a stage.
LEMMA After ==
  ASSUME NEW o \in Ops, NEW g \in StagesOf(o)
  PROVE  /\ g = "read" => Rest(g, o) = Then(Do("fetch"), <<>>) /\ o.method = "read"
         /\ g = "dpc_to_x5" => /\ Rest(g, o) = AtCheck("read", o) /\ "read" \in StagesOf(o)
                               /\ o.method = "read" /\ o.reg = "pc"
         /\ g = "write" /\ o.reg = "pc" =>
              /\ Rest(g, o) = AtCheck("x5_to_dpc", o) /\ "x5_to_dpc" \in StagesOf(o)
              /\ o.method = "write"
         /\ g = "write" /\ o.reg # "pc" => Rest(g, o) = <<>> /\ o.method = "write"
         /\ g = "x5_to_dpc" => Rest(g, o) = <<>> /\ o.method = "write" /\ o.reg = "pc"
         /\ g = "set_step" =>
              /\ Rest(g, o) = Then(Do("resume"), Then(Do("wait"), AtCheck("clear_step", o)))
              /\ o.method = "step"
         /\ g = "clear_step" => Rest(g, o) = <<>> /\ o.method = "step"
         /\ g \in Stages
<1>1. /\ g = "read" => o.method = "read"
      /\ g = "dpc_to_x5" => o.method = "read" /\ o.reg = "pc" /\ "read" \in StagesOf(o)
      /\ g = "write" => o.method = "write"
      /\ g = "write" /\ o.reg = "pc" => "x5_to_dpc" \in StagesOf(o)
      /\ g = "x5_to_dpc" => o.method = "write" /\ o.reg = "pc"
      /\ g \in {"set_step", "clear_step"} => o.method = "step"
  BY OpCases DEF StagesOf
<1>. QED  BY <1>1, ReadScripts, WriteScripts, StepScripts, PartTypes

\* The rest of a script: an empty one, or one with an access to make.
LEMMA ThenFilled ==
  ASSUME NEW o \in Ops, o.method = "step"
  PROVE  /\ Then(Do("resume"), Then(Do("wait"), AtCheck("clear_step", o))) # <<>>
         /\ Then(Do("wait"), AtCheck("clear_step", o)) # <<>>
         /\ AtCheck("set_step", o) # <<>> /\ AtCheck("clear_step", o) # <<>>
<1>1. "set_step" \in StagesOf(o) /\ "clear_step" \in StagesOf(o)
  BY DEF StagesOf
<1>2. /\ AtCheck("clear_step", o) \in Seq(Accesses) /\ AtCheck("clear_step", o) # <<>>
      /\ AtCheck("set_step", o) # <<>>
  BY <1>1, StageTypes, StageFilled
<1>3. Do("resume") \in Accesses /\ Do("wait") \in Accesses
  BY AccessTypes
<1>4. /\ Then(Do("wait"), AtCheck("clear_step", o)) \in Seq(Accesses)
      /\ Then(Do("wait"), AtCheck("clear_step", o)) # <<>>
  BY ONLY <1>2, <1>3, Thens
<1>5. Then(Do("resume"), Then(Do("wait"), AtCheck("clear_step", o))) # <<>>
  BY ONLY <1>3, <1>4, Thens
<1>. QED  BY <1>2, <1>4, <1>5

\* The finally of ensure_halted.
LEMMA ExitKept ==
  ASSUME OneHart, TypeOK, CallOK, Exit
  PROVE  CallOK'
<1>1. /\ outcome = "busy" /\ calls > 0 /\ Placed /\ Head(script).do = "exit" /\ op \in Ops
      /\ Hart = First /\ First \in Harts /\ inside' = FALSE
      /\ UNCHANGED <<reg, single, data, op, was_halted, calls, faults, before, retired, own>>
  BY OnlyHart, RocketAssumption DEF Exit, Due, CallOK, history
<1>2. Inside
  <2>1. CASE Raising
    BY <2>1 DEF Raising
  <2>2. CASE \E g \in StagesOf(op) : InExit(g)
    BY <2>2 DEF InExit
  <2>. QED  BY <1>1, <2>1, <2>2, Whereabouts
<1>3. /\ was_halted => state'[First] = "halted"
      /\ ~was_halted => state'[First] = "running"
  <2>1. IF ~was_halted THEN state' = [state EXCEPT ![First] = "running"] ELSE state' = state
    BY <1>1, <1>2 DEF Exit, Resumes, Resume, Inside
  <2>. QED  BY <1>1, <1>2, <2>1 DEF Inside, TypeOK, HardwareOK
<1>4. /\ Throughout' = Throughout /\ Written' = Written /\ Found' = Found /\ Moves' = Moves
      /\ GivesBack' = GivesBack
  BY <1>1 DEF Throughout, Written, Hart, Found, Moves, GivesBack
<1>5. AsFound' /\ (Found = "halted" => state'[First] = "halted")
  BY <1>2, <1>3, <1>4 DEF AsFound, Inside
<1>6. StaysHalted' /\ Kept'
  BY <1>1, <1>4, <1>5 DEF StaysHalted, Kept, CallOK
<1>7. CASE Raising
  <2>1. /\ Head(script).arg \in Failures /\ (Head(script).arg = "command_error" => own)
        /\ faults > 0
    BY <1>1, <1>7, OtherHeads DEF Raising
  <2>2. outcome' = Head(script).arg
    BY <2>1 DEF Exit, Failures
  <2>3. SingleOK'
    BY <1>1, <2>1 DEF SingleOK
  <2>4. EndedOK'
    <3>1. outcome' # "ok" /\ (outcome' = "command_error" => own')
      BY <1>1, <2>1, <2>2 DEF Failures
    <3>2. GivesBack' => state'[First] = Found'
      BY <1>5 DEF AsFound
    <3>. QED  BY <1>1, <3>1, <3>2 DEF EndedOK
  <2>. QED  BY <1>6, <2>1, <2>2, <2>3, <2>4 DEF CallOK, Failures
<1>8. CASE \E g \in StagesOf(op) : InExit(g)
  <2>1. PICK g \in StagesOf(op) : InExit(g)
    BY <1>8
  <2>2. GoOn(Rest(g, op)) /\ Brings(g)
    <3>1. Head(script).arg = "none" /\ Tail(script) = Rest(g, op)
      BY <1>1, <2>1, StageHeads, StageDues DEF InExit
    <3>. QED  BY <2>1, <3>1 DEF Exit, InExit
  <2>3. script' = Rest(g, op) /\ outcome' = IF Rest(g, op) = <<>> THEN "ok" ELSE "busy"
    BY <2>2 DEF GoOn
  <2>4. Outside'
    BY <1>1, <1>2, <1>4 DEF Outside, Inside, Begun
  <2>5. /\ g \in {"read", "dpc_to_x5"} => op.method = "read"
        /\ g \in {"write", "x5_to_dpc"} => op.method = "write"
        /\ g \in {"set_step", "clear_step"} => op.method = "step"
        /\ g \in Stages /\ (g \in {"dpc_to_x5", "x5_to_dpc"} => op.reg = "pc")
    BY <1>1, After
  <2>6. SingleOK'
    <3>1. CASE op.method # "step"
      BY <1>1, <3>1 DEF SingleOK, CallOK
    <3>2. CASE op.method = "step" /\ g = "set_step"
      <4>1. outcome' = "busy"
        BY <1>1, <2>3, <3>2, After, ThenFilled
      <4>. QED  BY <1>1, <1>4, <4>1 DEF SingleOK, CallOK
    <3>3. CASE op.method = "step" /\ g = "clear_step"
      <4>1. Found = "halted" => ~single[First]
        BY <2>2, <3>3 DEF Brings
      <4>2. Found # "halted" => faults > 0
        BY <1>2, <3>3 DEF Inside, Begun
      <4>. QED  BY <1>1, <4>1, <4>2 DEF SingleOK
    <3>. QED  BY <2>5, <3>1, <3>2, <3>3 DEF Stages
  <2>7. CASE g = "read"
    <3>1. script' = Then(Do("fetch"), <<>>) /\ outcome' = "busy"
      <4>1. Do("fetch") \in Accesses
        BY AccessTypes
      <4>2. Then(Do("fetch"), <<>>) # <<>>
        BY <4>1, Thens, EmptySeq
      <4>. QED  BY <1>1, <2>1, <2>3, <2>7, <4>2, After
    <3>2. Throughout' => data' = before'.reg[First][op'.reg]
      BY <1>1, <1>4, <2>2, <2>7 DEF Brings
    <3>3. InFetch'
      BY <1>1, <1>5, <2>5, <2>7, <3>1, <3>2 DEF InFetch
    <3>. QED  BY <1>1, <1>6, <2>6, <3>1, <3>3 DEF CallOK, Placed
  <2>8. CASE g = "dpc_to_x5" \/ (g = "write" /\ op.reg = "pc")
    <3>. DEFINE n == IF g = "write" THEN "x5_to_dpc" ELSE "read"
    <3>1. n \in StagesOf(op) /\ Rest(g, op) = AtCheck(n, op)
      BY <1>1, <2>1, <2>8, After
    <3>2. Needs(n)'
      <4>1. op.reg = "pc" /\ Target(op) = "x5"
        BY <2>5, <2>8 DEF Target
      <4>2. g = "dpc_to_x5" => (Throughout => reg[First]["x5"] = before.reg[First][op.reg])
        BY <2>2, <4>1 DEF Brings
      <4>3. g = "write" => (Throughout => reg[First]["x5"] = op.value)
        BY <2>2, <4>1 DEF Brings
      <4>. QED  BY <1>1, <1>4, <2>8, <4>1, <4>2, <4>3 DEF Needs
    <3>. HIDE DEF n
    <3>3. AtCheck(n, op) # <<>>
      BY <1>1, <3>1, StageFilled
    <3>4. InCheck(n)' /\ outcome' = "busy"
      BY <1>1, <1>4, <1>5, <2>3, <2>4, <3>1, <3>2, <3>3 DEF InCheck
    <3>5. n \in StagesOf(op)'
      BY <1>1, <3>1
    <3>. QED  BY <1>1, <1>6, <2>6, <3>4, <3>5 DEF CallOK, Placed, InStage
  <2>9. CASE g = "x5_to_dpc" \/ (g = "write" /\ op.reg # "pc")
    <3>1. outcome' = "ok"
      BY <1>1, <2>1, <2>3, <2>9, After
    <3>2. Throughout' => reg'[First][op'.reg] = op'.value
      BY <1>1, <1>4, <2>2, <2>5, <2>9 DEF Brings, Target
    <3>3. EndedOK'
      BY <1>1, <1>5, <2>5, <2>9, <3>1, <3>2 DEF EndedOK, AsFound
    <3>. QED  BY <1>6, <2>6, <3>1, <3>3 DEF CallOK
  <2>10. CASE g = "set_step"
    <3>1. /\ script' = Then(Do("resume"), Then(Do("wait"), AtCheck("clear_step", op)))
          /\ outcome' = "busy"
      BY <1>1, <2>1, <2>3, <2>5, <2>10, After, ThenFilled
    <3>2. Found = "halted" => retired[First] = 0 /\ single[First]
      BY <2>2, <2>10 DEF Brings
    <3>3. InResume'
      BY <1>1, <1>4, <1>5, <2>4, <2>5, <2>10, <3>1, <3>2 DEF InResume
    <3>. QED  BY <1>1, <1>6, <2>6, <3>1, <3>3 DEF CallOK, Placed
  <2>11. CASE g = "clear_step"
    <3>1. outcome' = "ok"
      BY <1>1, <2>1, <2>3, <2>11, After
    <3>2. Found = "halted" => retired[First] = 1 /\ ~single[First]
      BY <2>2, <2>11 DEF Brings
    <3>3. EndedOK'
      BY <1>1, <1>4, <1>5, <2>5, <2>11, <3>1, <3>2
         DEF EndedOK, AsFound, Throughout, GivesBack, Moves
    <3>. QED  BY <1>6, <2>6, <3>1, <3>3 DEF CallOK
  <2>. QED  BY <2>5, <2>7, <2>8, <2>9, <2>10, <2>11 DEF Stages
<1>. QED  BY <1>1, <1>7, <1>8, Whereabouts

\* The calls of one access.
LEMMA SimpleKept ==
  ASSUME OneHart, TypeOK, CallOK, Cont \/ SetReset
  PROVE  CallOK'
<1>1. /\ outcome = "busy" /\ calls > 0 /\ Placed
      /\ Head(script).do \in {"cont", "set_reset", "clear_reset"} /\ GoOn(<<>>)
      /\ UNCHANGED <<reg, op, inside, calls, faults, before>>
  BY DEF Cont, SetReset, Due, CallOK, history
<1>2. InSimple
  BY <1>1, Whereabouts
<1>3. op.method \notin {"read", "write", "step"} /\ ~inside
  BY <1>2 DEF InSimple
<1>4. outcome' = "ok"
  BY <1>1 DEF GoOn
<1>5. single'[First] => single[First]
  <2>1. CASE Cont
    BY <2>1 DEF Cont
  <2>2. CASE SetReset
    BY <2>2, OnlyHart, RocketAssumption DEF SetReset, TypeOK, HardwareOK
  <2>. QED  BY <2>1, <2>2
<1>6. SingleOK'
  BY <1>1, <1>3, <1>5 DEF SingleOK, CallOK
<1>7. StaysHalted' /\ Kept'
  BY <1>1, <1>3 DEF StaysHalted, Kept, Moves, Throughout
<1>8. EndedOK'
  BY <1>1, <1>3, <1>4 DEF EndedOK, Throughout, GivesBack, Moves
<1>. QED  BY <1>4, <1>6, <1>7, <1>8 DEF CallOK

\* get_pc: of a halted hart through x5, else from the write-back tap.
LEMMA ReadPcKept ==
  ASSUME OneHart, TypeOK, CallOK, ReadPc
  PROVE  CallOK'
<1>1. /\ outcome = "busy" /\ calls > 0 /\ Placed /\ Head(script).do = "pc" /\ op \in Ops
      /\ Hart = First /\ (Halted(Hart) <=> state[First] = "halted")
      /\ UNCHANGED <<state, reg, single, op, inside, was_halted, calls, faults, before, retired>>
  BY OnlyHart DEF ReadPc, Due, CallOK, hardware, history, Halted
<1>2. InPc
  BY <1>1, Whereabouts
<1>3. op.method = "read" /\ op.reg = "pc" /\ ~inside /\ AsFound
  BY <1>2 DEF InPc
<1>4. StaysHalted' /\ Kept'
  BY <1>1, QuietKept DEF CallOK
<1>5. SingleOK'
  BY <1>1, <1>3 DEF SingleOK, CallOK
<1>6. AsFound'
  BY <1>1, <1>3 DEF AsFound, GivesBack, Moves, Found
<1>7. CASE state[First] = "halted"
  <2>1. "dpc_to_x5" \in StagesOf(op)
    BY <1>3 DEF StagesOf
  <2>2. /\ ProgramBuffer("csrr_x5_dpc") \o ReadRegister("x5") = AtCheck("dpc_to_x5", op)
        /\ AtCheck("dpc_to_x5", op) # <<>>
    BY <1>1, <1>3, <2>1, ReadScripts, StageFilled
  <2>3. GoOn(ProgramBuffer("csrr_x5_dpc") \o ReadRegister("x5"))
    BY <1>1, <1>7, Zenon DEF ReadPc
  <2>4. script' = AtCheck("dpc_to_x5", op) /\ outcome' = "busy"
    BY ONLY <2>2, <2>3 DEF GoOn
  <2>5. InCheck("dpc_to_x5")'
    BY <1>1, <1>3, <1>6, <1>7, <2>4 DEF InCheck, Outside, Begun, Needs
  <2>6. "dpc_to_x5" \in StagesOf(op)'
    BY <1>1, <2>1
  <2>. QED  BY <1>1, <1>4, <1>5, <2>4, <2>5, <2>6 DEF CallOK, Placed, InStage
<1>8. CASE state[First] # "halted"
  <2>1. GoOn(<<>>)
    BY <1>1, <1>8, Zenon DEF ReadPc
  <2>2. outcome' = "ok"
    BY <2>1 DEF GoOn
  <2>3. ~Throughout
    BY <1>1, <1>8 DEF CallOK, StaysHalted, Throughout, Moves, Found
  <2>4. ~Throughout' /\ op'.method = "read" /\ inside' = FALSE
    BY <1>1, <1>3, <2>3 DEF Throughout, Hart
  <2>5. EndedOK'
    BY <1>6, <2>2, <2>4 DEF EndedOK, AsFound
  <2>. QED  BY <1>4, <1>5, <2>2, <2>5 DEF CallOK
<1>. QED  BY <1>7, <1>8

\* The value that was read.
LEMMA FetchKept ==
  ASSUME OneHart, TypeOK, CallOK, Fetch
  PROVE  CallOK'
<1>1. /\ outcome = "busy" /\ calls > 0 /\ Placed /\ Head(script).do = "fetch" /\ Hart = First
      /\ GoOn(Tail(script))
      /\ UNCHANGED <<state, reg, single, data, op, inside, was_halted, calls, faults, before,
                     retired>>
  BY OnlyHart DEF Fetch, Due, CallOK, hardware, history
<1>2. InFetch
  BY <1>1, Whereabouts
<1>3. /\ op.method = "read" /\ ~inside /\ AsFound
      /\ Throughout => data = before.reg[First][op.reg]
  BY <1>2 DEF InFetch
<1>4. StaysHalted' /\ Kept'
  BY <1>1, QuietKept DEF CallOK
<1>5. SingleOK'
  BY <1>1, <1>3 DEF SingleOK, CallOK
<1>6. outcome' = "ok"
  BY <1>1, <1>2, OtherHeads DEF GoOn
<1>7. EndedOK'
  BY <1>1, <1>3, <1>6 DEF EndedOK, Throughout, Hart, AsFound, GivesBack, Moves, Found
<1>. QED  BY <1>4, <1>5, <1>6, <1>7 DEF CallOK

\* The assertion at the start of a step.
LEMMA AssertKept ==
  ASSUME OneHart, TypeOK, CallOK, AssertHalted
  PROVE  CallOK'
<1>1. /\ outcome = "busy" /\ calls > 0 /\ Placed /\ Head(script).do = "assert_halted" /\ op \in Ops
      /\ IF state[First] = "halted" THEN GoOn(Tail(script)) ELSE Raise("assertion")
      /\ UNCHANGED <<state, reg, single, op, inside, was_halted, calls, faults, before, retired>>
  BY OnlyHart DEF AssertHalted, Due, CallOK, hardware, history, Halted
<1>2. InAssert
  BY <1>1, Whereabouts
<1>3. /\ op.method = "step" /\ ~inside /\ ~Moves
      /\ Found = "halted" => state[First] = "halted" /\ retired[First] = 0
      /\ Found # "halted" /\ faults = 0 => state[First] # "halted"
  BY <1>2 DEF InAssert, Moves
<1>4. StaysHalted' /\ Kept'
  BY <1>1, QuietKept DEF CallOK
<1>5. CASE state[First] = "halted"
  <2>1. Tail(script) = AtCheck("set_step", op) /\ AtCheck("set_step", op) # <<>>
    BY <1>1, <1>2, <1>3, OtherHeads, ThenFilled
  <2>2. script' = AtCheck("set_step", op) /\ outcome' = "busy"
    BY <1>1, <1>5, <2>1 DEF GoOn
  <2>3. Found # "halted" => faults > 0
    BY <1>3, <1>5 DEF TypeOK, HistoryOK
  <2>4. Needs("set_step")'
    BY <1>1, <1>3 DEF Needs, Found
  <2>5. InCheck("set_step")'
    <3>1. ~GivesBack' /\ Found' = Found
      BY <1>1, <1>3 DEF GivesBack, Moves, Found
    <3>2. Outside'
      BY <1>1, <1>3, <2>3, <3>1 DEF Outside, Begun
    <3>. QED  BY <1>1, <1>5, <2>2, <2>4, <3>1, <3>2 DEF InCheck, AsFound
  <2>6. SingleOK'
    BY <1>1, <2>2 DEF SingleOK, CallOK, Found
  <2>7. "set_step" \in StagesOf(op)'
    BY <1>1, <1>3 DEF StagesOf
  <2>. QED  BY <1>1, <1>4, <2>2, <2>5, <2>6, <2>7 DEF CallOK, Placed, InStage
<1>6. CASE state[First] # "halted"
  <2>1. outcome' # "busy" /\ EndedOK'
    BY <1>1, <1>3, <1>6, RaisedOutside DEF Failures
  <2>2. SingleOK'
    BY <1>1, <1>3, <1>6 DEF SingleOK, CallOK
  <2>. QED  BY <1>4, <2>1, <2>2 DEF CallOK
<1>. QED  BY <1>5, <1>6

\* The resume of a step.
LEMMA ResumeKept ==
  ASSUME OneHart, TypeOK, CallOK, ResumeForStep
  PROVE  CallOK'
<1>1. /\ outcome = "busy" /\ calls > 0 /\ Placed /\ Head(script).do = "resume" /\ op \in Ops
      /\ GoOn(Tail(script)) /\ state'[First] = "running"
      /\ UNCHANGED <<reg, single, op, inside, was_halted, calls, faults, before, retired>>
  BY OnlyHart, RocketAssumption
     DEF ResumeForStep, Resume, Due, CallOK, history, TypeOK, HardwareOK
<1>2. InResume
  BY <1>1, Whereabouts
<1>3. /\ op.method = "step" /\ Outside
      /\ Found = "halted" => retired[First] = 0 /\ single[First]
  BY <1>2 DEF InResume
<1>4. /\ script' = Then(Do("wait"), AtCheck("clear_step", op)) /\ outcome' = "busy"
  BY <1>1, <1>2, <1>3, OtherHeads, ThenFilled DEF GoOn
<1>5. StaysHalted' /\ Kept'
  BY <1>1, <1>3 DEF StaysHalted, Kept, Moves, Throughout
<1>6. SingleOK'
  BY <1>1, <1>4 DEF SingleOK, CallOK, Found
<1>7. InWait'
  BY <1>1, <1>3, <1>4 DEF InWait, Outside, Begun, Found
<1>. QED  BY <1>1, <1>4, <1>5, <1>6, <1>7 DEF CallOK, Placed

\* The wait for the end of a step, which may give up.
LEMMA WaitKept ==
  ASSUME OneHart, TypeOK, CallOK, Wait
  PROVE  CallOK'
<1>1. /\ outcome = "busy" /\ calls > 0 /\ Placed /\ Head(script).do = "wait" /\ op \in Ops
      /\ \/ state[First] = "halted" /\ GoOn(Tail(script)) /\ faults' = faults
         \/ state[First] # "halted" /\ Raise("timeout") /\ faults' = faults + 1
      /\ UNCHANGED <<state, reg, single, op, inside, was_halted, calls, before, retired>>
  BY OnlyHart DEF Wait, Due, CallOK, hardware, Halted
<1>2. InWait
  BY <1>1, Whereabouts
<1>3. /\ op.method = "step" /\ Outside /\ ~inside
      /\ Found = "halted" => \/ state[First] = "running" /\ retired[First] = 0 /\ single[First]
                             \/ state[First] = "halted" /\ retired[First] = 1
  BY <1>2 DEF InWait, Outside
<1>4. StaysHalted' /\ Kept'
  BY <1>1, QuietKept DEF CallOK
<1>5. CASE state[First] = "halted" /\ GoOn(Tail(script)) /\ faults' = faults
  <2>1. script' = AtCheck("clear_step", op) /\ outcome' = "busy"
    BY <1>1, <1>2, <1>3, <1>5, OtherHeads, ThenFilled DEF GoOn
  <2>2. Needs("clear_step")'
    BY <1>1, <1>3, <1>5 DEF Needs, Found
  <2>3. InCheck("clear_step")'
    BY <1>1, <1>3, <1>5, <2>1, <2>2
       DEF InCheck, Outside, Begun, AsFound, GivesBack, Moves, Found
  <2>4. SingleOK'
    BY <1>1, <1>5, <2>1 DEF SingleOK, CallOK, Found
  <2>5. "clear_step" \in StagesOf(op)'
    BY <1>1, <1>3 DEF StagesOf
  <2>. QED  BY <1>1, <1>4, <2>1, <2>3, <2>4, <2>5 DEF CallOK, Placed, InStage
<1>6. CASE state[First] # "halted" /\ Raise("timeout") /\ faults' = faults + 1
  <2>1. outcome' # "busy" /\ EndedOK'
    BY <1>1, <1>3, <1>6, RaisedOutside DEF Failures
  <2>2. faults' > 0
    BY <1>6 DEF TypeOK, HistoryOK
  <2>3. SingleOK'
    BY <1>1, <2>2 DEF SingleOK, CallOK
  <2>. QED  BY <1>4, <2>1, <2>3 DEF CallOK
<1>. QED  BY <1>1, <1>5, <1>6

\* An instruction of the hart, between two accesses.
LEMMA HartKept ==
  ASSUME OneHart, TypeOK, CallOK, NEW h \in Harts, HartRuns(h)
  PROVE  CallOK'
<1>1. /\ h = First /\ Hart = First /\ state[First] = "running"
      /\ UNCHANGED <<single, progbuf, data, cmderr, op, script, inside, was_halted, outcome, calls,
                     faults, before, own, lost>>
  BY OnlyHart DEF HartRuns, host, OneHart
<1>2. \/ single[First] /\ state'[First] = "halted"
      \/ ~single[First] /\ state' = state /\ reg' = reg
  BY <1>1 DEF HartRuns, TypeOK, HardwareOK, OneHart
<1>3. retired[First] = 0 => retired'[First] = 1
  BY <1>1 DEF HartRuns, TypeOK, HistoryOK, OneHart
<1>4. /\ Throughout' = Throughout /\ Found' = Found /\ Moves' = Moves /\ GivesBack' = GivesBack
      /\ StagesOf(op') = StagesOf(op)
  BY <1>1 DEF Throughout, Hart, Found, Moves, GivesBack
<1>5. ~Throughout /\ (Moves => Found # "halted")
  BY <1>1 DEF CallOK, StaysHalted, Throughout, Found, Moves
<1>6. StaysHalted' /\ Kept'
  BY <1>4, <1>5 DEF StaysHalted, Kept
<1>7. SingleOK'
  BY <1>1, <1>4 DEF SingleOK, CallOK
<1>8. AsFound => AsFound'
  BY <1>2, <1>4 DEF AsFound, GivesBack
<1>9. outcome # "busy" => EndedOK'
  <2>. SUFFICES ASSUME outcome # "busy"  PROVE EndedOK'
    OBVIOUS
  <2>1. EndedOK
    BY DEF CallOK
  <2>2. outcome \in {"ok", "command_error", "raised"} /\ GivesBack /\ ~lost => state'[First] = Found
    BY <1>2, <2>1 DEF EndedOK, GivesBack
  <2>3. ~(outcome = "ok" /\ op.method = "step" /\ Found = "halted")
    BY <1>1, <2>1 DEF EndedOK
  <2>. QED  BY <1>1, <1>4, <1>5, <2>1, <2>2, <2>3 DEF EndedOK
<1>10. outcome = "busy" => Placed'
  <2>. SUFFICES ASSUME outcome = "busy"  PROVE Placed'
    OBVIOUS
  <2>1. Placed /\ ~Inside
    BY <1>1 DEF CallOK, Inside
  <2>2. CASE \E g \in StagesOf(op) : InStage(g)
    <3>1. PICK g \in StagesOf(op) : InStage(g)
      BY <2>2
    <3>2. InCheck(g) \/ InRequest(g) \/ InVerify(g)
      BY <2>1, <3>1 DEF InStage, InClear, InPrepare, InCommand, InExit
    <3>3. Outside => Outside'
      BY <1>1, <1>4 DEF Outside, Begun
    <3>4. Needs(g)' \/ Found = "halted"
      BY <1>4, <1>5 DEF Needs
    <3>5. InCheck(g) => InCheck(g)'
      BY <1>1, <1>4, <1>8, <3>3, <3>4 DEF InCheck
    <3>6. InRequest(g) => InRequest(g)'
      BY <1>1, <1>4, <1>8, <3>3 DEF InRequest
    <3>7. InVerify(g) => InVerify(g)'
      BY <1>1, <1>2, <1>4, <3>3 DEF InVerify, GivesBack
    <3>8. InStage(g)'
      BY <3>2, <3>5, <3>6, <3>7 DEF InStage
    <3>. QED  BY <1>4, <3>1, <3>8 DEF Placed
  <2>3. CASE InHalt
    BY <1>1, <2>3 DEF InHalt, Placed
  <2>4. CASE InSimple
    BY <1>1, <2>4 DEF InSimple, Placed
  <2>5. CASE InPc
    BY <1>1, <1>8, <2>5 DEF InPc, Placed
  <2>6. CASE InFetch
    BY <1>1, <1>4, <1>5, <1>8, <2>6 DEF InFetch, Placed
  <2>7. CASE InAssert
    <3>1. Found # "halted"
      BY <1>1, <2>7 DEF InAssert
    <3>2. faults = 0 => ~single[First]
      BY <3>1 DEF CallOK, SingleOK, TypeOK, HistoryOK
    <3>3. InAssert'
      BY <1>1, <1>2, <1>4, <2>7, <3>1, <3>2 DEF InAssert
    <3>. QED  BY <3>3 DEF Placed
  <2>8. CASE InResume
    <3>1. Found # "halted"
      BY <1>1, <2>8 DEF InResume
    <3>2. InResume'
      BY <1>1, <1>4, <2>8, <3>1 DEF InResume, Outside, Begun
    <3>. QED  BY <3>2 DEF Placed
  <2>9. CASE InWait
    <3>1. InWait'
      BY <1>1, <1>2, <1>3, <1>4, <2>9 DEF InWait, Outside, Begun
    <3>. QED  BY <3>1 DEF Placed
  <2>. QED  BY <2>1, <2>2, <2>3, <2>4, <2>5, <2>6, <2>7, <2>8, <2>9 DEF Placed, Raising
<1>. QED  BY <1>1, <1>6, <1>7, <1>9, <1>10 DEF CallOK

\* A new call, which finds no body open.
LEMMA CallKept ==
  ASSUME OneHart, TypeOK, CallOK, NEW o \in Ops, Call(o)
  PROVE  CallOK'
<1>1. /\ outcome # "busy" /\ outcome' = "busy" /\ op' = o /\ script' = Script(o)
      /\ before' = [state |-> state, reg |-> reg] /\ retired' = [h \in Harts |-> 0]
      /\ calls' = calls + 1 /\ UNCHANGED <<state, reg, single, inside, faults>>
  BY DEF Call
<1>2. calls' > 0
  BY <1>1 DEF TypeOK, HistoryOK
<1>3. ~inside'
  BY <1>1 DEF CallOK, EndedOK
<1>4. /\ Found' = state'[First] /\ o.hart = First /\ First \in Harts /\ Hart' = First
      /\ before'.reg = reg' /\ retired'[First] = 0
  BY <1>1, OpCases, RocketAssumption DEF Found, OneHart, Hart
<1>5. StaysHalted' /\ Kept' /\ AsFound'
  BY <1>4 DEF StaysHalted, Kept, AsFound
<1>6. single[First] => faults > 0
  BY <1>1 DEF CallOK, SingleOK
<1>7. SingleOK'
  BY <1>1, <1>2, <1>6 DEF SingleOK
<1>8. ASSUME NEW g \in StagesOf(o), script' = AtCheck(g, o), o.method # "step",
             g \in {"read", "write"}, g = "read" => Target(o) = o.reg
      PROVE  Placed'
  <2>1. Needs(g)'
    BY <1>1, <1>4, <1>8 DEF Needs
  <2>2. InCheck(g)'
    BY <1>1, <1>3, <1>4, <1>5, <1>8, <2>1 DEF InCheck, Outside, Begun
  <2>. QED  BY <1>1, <1>8, <2>2 DEF Placed, InStage
<1>9. Placed'
  <2>1. CASE o.method = "halt"
    <3>1. InHalt'
      BY <1>1, <1>3, <2>1, OtherScripts DEF InHalt
    <3>. QED  BY <3>1 DEF Placed
  <2>2. CASE o.method \in {"cont", "set_reset", "clear_reset"}
    <3>1. InSimple'
      BY <1>1, <1>3, <2>2, OtherScripts DEF InSimple
    <3>. QED  BY <3>1 DEF Placed
  <2>3. CASE o.method = "read" /\ o.reg = "pc"
    <3>1. InPc'
      BY <1>1, <1>3, <1>5, <2>3, ReadScripts DEF InPc
    <3>. QED  BY <3>1 DEF Placed
  <2>4. CASE o.method = "read" /\ o.reg # "pc"
    <3>1. "read" \in StagesOf(o) /\ Target(o) = o.reg /\ script' = AtCheck("read", o)
      BY <1>1, <2>4, ReadScripts DEF StagesOf, Target
    <3>. QED  BY <1>8, <2>4, <3>1
  <2>5. CASE o.method = "write"
    <3>1. "write" \in StagesOf(o) /\ script' = AtCheck("write", o)
      BY <1>1, <2>5, WriteScripts DEF StagesOf
    <3>. QED  BY <1>8, <2>5, <3>1
  <2>6. CASE o.method = "step"
    <3>1. script' = Then(Do("assert_halted"), AtCheck("set_step", o))
      BY <1>1, <2>6, StepScripts
    <3>2. Found' # "halted" => state'[First] # "halted"
      BY <1>4
    <3>3. InAssert'
      BY <1>1, <1>3, <1>4, <2>6, <3>1, <3>2 DEF InAssert
    <3>. QED  BY <3>3 DEF Placed
  <2>. QED  BY <2>1, <2>2, <2>3, <2>4, <2>5, <2>6, OpCases
<1>. QED  BY <1>1, <1>2, <1>5, <1>7, <1>9 DEF CallOK

LEMMA CallInit == OneHart /\ Init => CallOK
<1>. SUFFICES ASSUME OneHart, Init  PROVE CallOK
  OBVIOUS
<1>1. op.method = "none" /\ outcome = "ok" /\ inside = FALSE /\ single[First] = FALSE
  BY RocketAssumption DEF Init
<1>2. ~Moves /\ ~Throughout
  BY <1>1 DEF Moves, Throughout
<1>. QED
  BY <1>1, <1>2 DEF CallOK, StaysHalted, Kept, SingleOK, EndedOK, GivesBack

LEMMA CallNext == OneHart /\ TypeOK /\ CallOK /\ [Next]_vars => CallOK'
<1>. SUFFICES ASSUME OneHart, TypeOK, CallOK, [Next]_vars  PROVE CallOK'
  OBVIOUS
<1>1. CASE UNCHANGED vars
  <2>1. UNCHANGED <<state, reg, single, progbuf, data, cmderr, op, script, inside, was_halted,
                    outcome, calls, faults, before, retired, own, lost>>
    BY <1>1 DEF vars, hardware, host, history
  <2>2. UNCHANGED <<Found, Moves, Throughout, Written, GivesBack, AsFound, Inside, Outside>>
    BY <2>1 DEF Found, Moves, Throughout, Written, Hart, GivesBack, AsFound, Inside, Outside, Begun
  <2>3. \A g \in StagesOf(op) :
          /\ Needs(g)' = Needs(g) /\ Brings(g)' = Brings(g) /\ Staged(g)' = Staged(g)
    BY <2>1, <2>2 DEF Needs, Brings, Staged
  <2>4. \A g \in StagesOf(op) : InStage(g) => InStage(g)'
    BY <2>1, <2>2, <2>3
       DEF InStage, InCheck, InRequest, InVerify, InClear, InPrepare, InCommand, InExit
  <2>5. /\ (Raising => Raising') /\ (InHalt => InHalt') /\ (InSimple => InSimple')
        /\ (InPc => InPc') /\ (InFetch => InFetch') /\ (InAssert => InAssert')
        /\ (InResume => InResume') /\ (InWait => InWait')
    BY <2>1, <2>2 DEF Raising, InHalt, InSimple, InPc, InFetch, InAssert, InResume, InWait
  <2>6. Placed => Placed'
    BY <2>1, <2>4, <2>5 DEF Placed
  <2>7. EndedOK => EndedOK'
    BY <2>1, <2>2 DEF EndedOK
  <2>8. StaysHalted' /\ Kept' /\ SingleOK'
    BY <2>1, <2>2, QuietKept DEF CallOK, SingleOK
  <2>. QED  BY <2>1, <2>6, <2>7, <2>8 DEF CallOK
<1>. QED
  BY <1>1, CallKept, CheckKept, RequestKept, VerifyKept, ClearKept, StageKept, CommandKept,
     ExitKept, SimpleKept, ReadPcKept, FetchKept, AssertKept, ResumeKept, WaitKept, FailureKept,
     HartKept DEF Next

LEMMA Conclusions ==
  ASSUME OneHart, TypeOK, CallOK
  PROVE  RegistersKept /\ HartGivenBack /\ OneInstruction
<1>1. Hart = First
  BY OnlyHart
<1>2. RegistersKept
  BY <1>1 DEF RegistersKept, Ended, CallOK, Kept, EndedOK, Throughout
<1>3. HartGivenBack
  BY <1>1 DEF HartGivenBack, Ended, CallOK, EndedOK, GivesBack, Moves, Found
<1>4. OneInstruction
  BY <1>1 DEF OneInstruction, Ended, CallOK, EndedOK, SingleOK, Found, Halted
<1>. QED  BY <1>2, <1>3, <1>4

LEMMA CallInv == OneHart => (Spec => [](TypeOK /\ CallOK))
<1>. SUFFICES ASSUME OneHart  PROVE Spec => [](TypeOK /\ CallOK)
  OBVIOUS
<1>1. Init => TypeOK /\ CallOK
  BY TypeInit, CallInit
<1>2. (TypeOK /\ CallOK) /\ [Next]_vars => (TypeOK /\ CallOK)'
  BY TypeNext, CallNext
<1>. QED  BY <1>1, <1>2, PTL DEF Spec

\* On a cluster with one hart, however a read or a write of a halted hart ends,
\* its other registers are as they were, the value is where it belongs, and a
\* command error is the call's own.
THEOREM RegistersKeptOneHart ==
  ASSUME OneHart
  PROVE  Spec => []RegistersKept
<1>1. TypeOK /\ CallOK => RegistersKept
  BY OneHart, Conclusions
<1>2. Spec => [](TypeOK /\ CallOK)
  BY OneHart, CallInv
<1>. QED  BY <1>1, <1>2, PTL

\* There a read or a write gives the hart back halted or running, as found.
THEOREM HartGivenBackOneHart ==
  ASSUME OneHart
  PROVE  Spec => []HartGivenBack
<1>1. TypeOK /\ CallOK => HartGivenBack
  BY OneHart, Conclusions
<1>2. Spec => [](TypeOK /\ CallOK)
  BY OneHart, CallInv
<1>. QED  BY <1>1, <1>2, PTL

\* There a step that ends well ran one instruction and cleared dcsr.step, and
\* only a failure leaves it set.
THEOREM OneInstructionOneHart ==
  ASSUME OneHart
  PROVE  Spec => []OneInstruction
<1>1. TypeOK /\ CallOK => OneInstruction
  BY OneHart, Conclusions
<1>2. Spec => [](TypeOK /\ CallOK)
  BY OneHart, CallInv
<1>. QED  BY <1>1, <1>2, PTL
=============================================================================
