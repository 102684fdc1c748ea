-------------------------- MODULE WorkerDebug_proofs --------------------------
(***************************************************************************)
(* Theorems about WorkerDebug for any groups, samples, threads, rows and    *)
(* depth of the FIFOs, and any number of calls and of accesses that raise:  *)
(* the samples returned are those of the call, an injected instruction is   *)
(* executed once, and a register file is read as it was.                    *)
(***************************************************************************)
EXTENDS WorkerDebug, FiniteSetTheorems, SequenceTheorems, TLAPS

---------------------------------------------------------------------------
(* Sequences that are consumed from the front.                             *)

\* What is left of a sequence from its k-th element.
From(s, k) == SubSeq(s, k, Len(s))

LEMMA LenIsNat ==
  ASSUME NEW T, NEW s \in Seq(T)
  PROVE  Len(s) \in Nat /\ (s = <<>> <=> Len(s) = 0)
BY EmptySeq, LenProperties

\* The head and the tail of what is left, when more follows it.
LEMMA LeftOver ==
  ASSUME NEW T, NEW s \in Seq(T), NEW r \in Seq(T), NEW k \in 1..Len(s)
  PROVE  /\ From(s, k) \o r # <<>>
         /\ Head(From(s, k) \o r) = s[k]
         /\ Tail(From(s, k) \o r) = From(s, k + 1) \o r
<1>. DEFINE f == From(s, k)
            g == From(s, k + 1)
<1>1. Len(s) \in Nat /\ Len(r) \in Nat
  BY LenIsNat
<1>2. /\ f \in Seq(T) /\ Len(f) = Len(s) - k + 1
      /\ \A i \in 1..Len(f) : f[i] = s[k + i - 1]
  BY <1>1, SubSeqProperties, ElementOfSeq DEF From
<1>3. /\ g \in Seq(T) /\ Len(g) = Len(s) - k
      /\ \A i \in 1..Len(g) : g[i] = s[k + i]
  BY <1>1, SubSeqProperties, ElementOfSeq DEF From
<1>. HIDE DEF f, g
<1>4. /\ f \o r \in Seq(T) /\ Len(f \o r) = Len(f) + Len(r)
      /\ \A i \in 1..(Len(f) + Len(r)) : (f \o r)[i] = IF i <= Len(f) THEN f[i] ELSE r[i - Len(f)]
  BY <1>2, ConcatProperties
<1>5. /\ g \o r \in Seq(T) /\ Len(g \o r) = Len(g) + Len(r)
      /\ \A i \in 1..(Len(g) + Len(r)) : (g \o r)[i] = IF i <= Len(g) THEN g[i] ELSE r[i - Len(g)]
  BY <1>3, ConcatProperties
<1>. DEFINE q == f \o r
            p == g \o r
<1>. HIDE DEF q, p
<1>6. q # <<>> /\ Len(q) = Len(p) + 1
  BY <1>1, <1>2, <1>3, <1>4, <1>5, LenIsNat DEF q, p
<1>7. /\ Tail(q) \in Seq(T) /\ Len(Tail(q)) = Len(p)
      /\ \A i \in 1..Len(p) : Tail(q)[i] = q[i + 1]
  <2>1. /\ Tail(q) \in Seq(T) /\ Len(Tail(q)) = Len(q) - 1
        /\ \A i \in 1..Len(Tail(q)) : Tail(q)[i] = q[i + 1]
    BY <1>4, <1>6, HeadTailProperties DEF q
  <2>2. Len(p) \in Nat /\ Len(q) \in Nat
    BY <1>4, <1>5, LenIsNat DEF p, q
  <2>. QED  BY <1>6, <2>1, <2>2
<1>8. ASSUME NEW i \in 1..Len(p)  PROVE q[i + 1] = p[i]
  <2>. DEFINE n == Len(s)
              m == Len(r)
  <2>. HIDE DEF n, m
  <2>1. n \in Nat /\ m \in Nat /\ k \in 1..n /\ Len(f) = n - k + 1 /\ Len(g) = n - k
        /\ Len(p) = n - k + m
    BY <1>1, <1>2, <1>3, <1>5 DEF n, m, p
  <2>2. CASE i <= n - k
    <3>1. q[i + 1] = f[i + 1] /\ p[i] = g[i]
      BY <2>1, <2>2, <1>4, <1>5, SMTT(20) DEF q, p, m
    <3>. QED  BY <2>1, <2>2, <3>1, <1>2, <1>3, SMTT(20)
  <2>3. CASE i > n - k
    <3>1. /\ i + 1 \in 1..(Len(f) + Len(r)) /\ ~(i + 1 <= Len(f))
          /\ i \in 1..(Len(g) + Len(r)) /\ ~(i <= Len(g))
      BY <2>1, <2>3 DEF m
    <3>2. q[i + 1] = r[i + 1 - Len(f)] /\ p[i] = r[i - Len(g)]
      BY ONLY <3>1, <1>4, <1>5, SMTT(20) DEF q, p
    <3>3. i + 1 - Len(f) = i - Len(g)
      BY ONLY <2>1, <2>3
    <3>. QED  BY <3>2, <3>3
  <2>. QED  BY <2>1, <2>2, <2>3
<1>9. Tail(q) = p
  BY <1>5, <1>7, <1>8, SeqEqual DEF p
<1>10. Head(q) = s[k]
  <2>1. Head(q) = q[1] /\ 1 \in 1..Len(f) /\ 1 \in 1..(Len(f) + Len(r)) /\ k + 1 - 1 = k
    BY <1>1, <1>2, <1>4, <1>6 DEF q
  <2>. QED  BY <2>1, <1>2, <1>4 DEF q
<1>. QED  BY <1>6, <1>9, <1>10 DEF q, p, f, g

\* The elements of two sequences, one after the other.
LEMMA Joined ==
  ASSUME NEW T, NEW s \in Seq(T), NEW r \in Seq(T)
  PROVE  /\ s \o r \in Seq(T) /\ Len(s \o r) = Len(s) + Len(r)
         /\ \A k \in 1..Len(s) : (s \o r)[k] = s[k]
         /\ \A k \in 1..Len(r) : (s \o r)[Len(s) + k] = r[k]
<1>1. /\ s \o r \in Seq(T) /\ Len(s \o r) = Len(s) + Len(r)
      /\ \A k \in 1..(Len(s) + Len(r)) :
           (s \o r)[k] = IF k <= Len(s) THEN s[k] ELSE r[k - Len(s)]
  BY ConcatProperties
<1>2. Len(s) \in Nat /\ Len(r) \in Nat
  BY LenIsNat
<1>3. ASSUME NEW k \in 1..Len(s)  PROVE (s \o r)[k] = s[k]
  BY <1>1, <1>2
<1>4. ASSUME NEW k \in 1..Len(r)  PROVE (s \o r)[Len(s) + k] = r[k]
  <2>1. /\ Len(s) + k \in 1..(Len(s) + Len(r)) /\ ~(Len(s) + k <= Len(s))
        /\ (Len(s) + k) - Len(s) = k
    BY <1>2
  <2>. QED  BY ONLY <1>1, <2>1
<1>. QED  BY <1>1, <1>3, <1>4

\* Nothing is left past the end, and everything from the start.
LEMMA LeftEnds ==
  ASSUME NEW T, NEW s \in Seq(T), NEW r \in Seq(T)
  PROVE  From(s, Len(s) + 1) \o r = r /\ From(s, 1) \o r = s \o r
<1>1. Len(s) \in Nat
  BY LenIsNat
<1>2. SubSeq(s, Len(s) + 1, Len(s)) = <<>>
  BY <1>1, SubSeqEmpty
<1>3. SubSeq(s, 1, Len(s)) = s /\ <<>> \o r = r
  BY SubSeqFull, ConcatEmptySeq
<1>. QED  BY <1>2, <1>3 DEF From
---------------------------------------------------------------------------
(* Induction over the natural numbers, and the sequences that the scripts   *)
(* put together by recursion.                                               *)

\* Otherwise n \notin S, and x + 1 is an injection of the elements of S up to
\* n, which are finitely many, into those of them that are not 0.
LEMMA Induction ==
  ASSUME NEW S \in SUBSET Nat, 0 \in S, \A n \in S : n + 1 \in S
  PROVE  S = Nat
<1>1. SUFFICES ASSUME NEW n \in Nat, n \notin S PROVE FALSE
  OBVIOUS
<1>. DEFINE X == {x \in S : x <= n}
            next == [x \in X |-> x + 1]
<1>2. \A x \in X : x + 1 \in X \ {0}
  BY <1>1
<1>3. IsFiniteSet(X) /\ 0 \in X
  <2>1. X \in SUBSET Nat /\ \A x \in X : x <= n
    OBVIOUS
  <2>2. IsFiniteSet(X)
    BY <1>1, <2>1, FS_BoundedSetOfNaturals
  <2>. QED  BY <2>2, <1>1
<1>4. IsFiniteSet(X \ {0}) /\ Cardinality(X \ {0}) < Cardinality(X)
  <2>1. Cardinality(X) \in Nat
    BY <1>3, FS_CardinalityType
  <2>2. IsFiniteSet(X \ {0}) /\ Cardinality(X \ {0}) = Cardinality(X) - 1
    BY <1>3, FS_RemoveElement
  <2>. QED  BY <2>1, <2>2
<1>5. next \in [X -> X \ {0}]
  BY <1>2
<1>6. \E x, y \in X : x # y /\ next[x] = next[y]
  <2>. HIDE DEF X, next
  <2>. QED  BY <1>3, <1>4, <1>5, FS_PigeonHole
<1>. QED  BY <1>6

\* f[r] is C[r] to C[n - 1], one after the other.
Concatenates(f, C, k, n) ==
  \A r \in k..n : f[r] = IF r >= n THEN <<>> ELSE C[r] \o f[r + 1]

LEMMA Concatenated ==
  ASSUME NEW n \in Nat, NEW T, NEW C, \A r \in 0..(n - 1) : C[r] \in Seq(T)
  PROVE  \E f \in [0..n -> Seq(T)] : Concatenates(f, C, 0, n)
<1>. DEFINE S == {m \in Nat : m <= n =>
                    \E f \in [(n - m)..n -> Seq(T)] : Concatenates(f, C, n - m, n)}
<1>1. 0 \in S
  <2>. DEFINE f == [r \in (n - 0)..n |-> <<>>]
  <2>1. f \in [(n - 0)..n -> Seq(T)]
    BY EmptySeq
  <2>2. Concatenates(f, C, n - 0, n)
    BY DEF Concatenates
  <2>. HIDE DEF f
  <2>. QED  BY <2>1, <2>2
<1>2. ASSUME NEW m \in S  PROVE m + 1 \in S
  <2>1. SUFFICES ASSUME m + 1 <= n
                 PROVE \E f \in [(n - (m + 1))..n -> Seq(T)] : Concatenates(f, C, n - (m + 1), n)
    OBVIOUS
  <2>2. PICK f \in [(n - m)..n -> Seq(T)] : Concatenates(f, C, n - m, n)
    <3>1. m \in Nat /\ m <= n
      BY <2>1
    <3>. QED  BY <3>1
  <2>. DEFINE k == n - (m + 1)
              g == [r \in k..n |-> IF r = k THEN C[k] \o f[k + 1] ELSE f[r]]
  <2>3. k \in Nat /\ k < n /\ n - m = k + 1 /\ n - m \in 0..n
    BY <2>1
  <2>. HIDE DEF k
  <2>4. g \in [k..n -> Seq(T)]
    <3>1. C[k] \o f[k + 1] \in Seq(T)
      <4>1. C[k] \in Seq(T) /\ f[k + 1] \in Seq(T)
        BY <2>2, <2>3
      <4>. QED  BY ONLY <4>1, ConcatProperties
    <3>2. \A r \in k..n : r # k => f[r] \in Seq(T)
      BY <2>2, <2>3
    <3>. QED  BY <3>1, <3>2
  <2>5. ASSUME NEW r \in k..n  PROVE g[r] = IF r >= n THEN <<>> ELSE C[r] \o g[r + 1]
    <3>1. CASE r = k
      <4>1. k + 1 \in k..n /\ k + 1 # k /\ ~(r >= n) /\ k \in k..n
        BY <2>3, <3>1
      <4>2. g[k + 1] = f[k + 1] /\ g[k] = C[k] \o f[k + 1]
        BY <4>1
      <4>. QED  BY ONLY <3>1, <4>1, <4>2
    <3>2. CASE r # k
      <4>1. r \in (n - m)..n /\ (r < n => r + 1 \in k..n /\ r + 1 # k)
        BY <2>3, <3>2
      <4>2. g[r] = f[r] /\ (r < n => g[r + 1] = f[r + 1])
        BY <3>2, <4>1
      <4>3. f[r] = IF r >= n THEN <<>> ELSE C[r] \o f[r + 1]
        BY <2>2, <4>1 DEF Concatenates
      <4>. QED  BY <2>3, <4>2, <4>3
    <3>. QED  BY <3>1, <3>2
  <2>. HIDE DEF g
  <2>. QED  BY <2>4, <2>5 DEF Concatenates, k
<1>3. S = Nat
  <2>1. S \in SUBSET Nat
    OBVIOUS
  <2>. HIDE DEF S
  <2>2. \A m \in S : m + 1 \in S
    BY <1>2
  <2>. QED  BY ONLY <1>1, <2>1, <2>2, Induction
<1>4. \E f \in [(n - n)..n -> Seq(T)] : Concatenates(f, C, n - n, n)
  <2>1. n \in S
    BY <1>3
  <2>2. n <= n
    OBVIOUS
  <2>. QED  BY ONLY <2>1, <2>2
<1>5. n - n = 0
  OBVIOUS
<1>. QED  BY <1>4, <1>5
\* Whatever has been put together so is a sequence.
LEMMA AllSequences ==
  ASSUME NEW n \in Nat, NEW T, NEW C, \A r \in 0..(n - 1) : C[r] \in Seq(T),
         NEW f, Concatenates(f, C, 0, n)
  PROVE  \A r \in 0..n : f[r] \in Seq(T)
<1>. DEFINE S == {m \in Nat : m <= n => f[n - m] \in Seq(T)}
<1>1. 0 \in S
  <2>1. n \in 0..n /\ n >= n /\ n - 0 = n
    OBVIOUS
  <2>. QED  BY <2>1, EmptySeq DEF Concatenates
<1>2. ASSUME NEW m \in S  PROVE m + 1 \in S
  <2>1. SUFFICES ASSUME m + 1 <= n  PROVE f[n - (m + 1)] \in Seq(T)
    OBVIOUS
  <2>. DEFINE r == n - (m + 1)
  <2>2. /\ r \in 0..n /\ r \in 0..(n - 1) /\ ~(r >= n) /\ r + 1 = n - m /\ m <= n
    BY <2>1
  <2>3. f[r + 1] \in Seq(T)
    BY <2>2
  <2>. HIDE DEF r
  <2>4. f[r] = C[r] \o f[r + 1] /\ C[r] \in Seq(T)
    BY <2>2 DEF Concatenates
  <2>5. f[r] \in Seq(T)
    BY ONLY <2>3, <2>4, ConcatProperties
  <2>. QED  BY <2>5 DEF r
<1>3. S = Nat
  <2>1. S \in SUBSET Nat
    OBVIOUS
  <2>. HIDE DEF S
  <2>2. \A m \in S : m + 1 \in S
    BY <1>2
  <2>. QED  BY ONLY <1>1, <2>1, <2>2, Induction
<1>4. ASSUME NEW r \in 0..n  PROVE f[r] \in Seq(T)
  <2>1. n - r \in Nat /\ n - r <= n /\ n - (n - r) = r
    OBVIOUS
  <2>2. n - r \in S
    BY <1>3, <2>1
  <2>. QED  BY <2>1, <2>2
<1>. QED  BY <1>4
---------------------------------------------------------------------------
(* Types.                                                                  *)

Names == {"program", "other", "save", "move", "store", "none"}
Insns == [do : Names, row : Nat, call : Nat]
Rows == [file : {"dst", "srca", "lreg", "off"}, row : Nat]
Lines == [group : Groups \cup {"old", "sentinel"}, call : Nat]
Selects == [group : Groups, word : Nat]
Modes == {"prepare", "one", "many"}
Results == Rows \cup Lines \cup Selects

OnBus ==
  [do : {"select"}, arg : Selects] \cup [do : {"data"}, arg : {"none"}]
  \cup [do : {"reg0", "reg1"}, arg : Nat]
  \cup [do : {"reg2"}, arg : [mode : Modes, trigger : BOOLEAN]]
  \cup [do : {"sentinel", "await", "line"}, arg : 0..LastLine]

OnTensix ==
  [do : {"ready", "claim", "push", "drained", "release"}, arg : Threads]
  \cup [do : {"stage"}, arg : [do : Names, arg : Nat]]
  \cup [do : {"enable"}, arg : BOOLEAN]
  \cup [do : {"row"}, arg : Nat] \cup [do : {"array"}, arg : {"none"}]

Injecting == op.method \in {"inject_instruction", "read_regfile"}

ScriptOK ==
  /\ script \in Seq(OnBus \cup OnTensix)
  /\ outcome = "busy" <=> script # <<>>
  /\ script # <<>> => IF Injecting THEN script \in Seq(OnTensix) ELSE script \in Seq(OnBus)

BusOK ==
  /\ select \in Selects /\ reg0 \in Nat /\ reg1 \in Nat /\ mode \in Modes
  /\ trigger \in BOOLEAN /\ sampling \in BOOLEAN /\ line \in Nat
  /\ l1 \in [0..LastLine -> Lines]

TensixOK ==
  /\ claim \subseteq Threads /\ staged \in Insns
  /\ fifo \in [Threads -> Seq(Insns)]
  /\ dst0 \in Rows /\ saved \in Rows /\ array_en \in BOOLEAN /\ array_row \in Nat

CallOK ==
  /\ op \in Ops \cup {[method |-> "none"]} /\ got \in Seq(Results)
  /\ outcome \in {"busy", "ok", "raised", "refused"}
  /\ outcome = "busy" => op \in Ops
  /\ calls \in 0..MaxCalls /\ faults \in 0..MaxFaults
  /\ before \in [dst0 : Rows, clean : BOOLEAN]
  /\ executed \in Seq(Names)

TypeOK == BusOK /\ TensixOK /\ CallOK /\ ScriptOK
---------------------------------------------------------------------------
(* What the scripts are made of.                                           *)

\* The three forms that a sequence of a few accesses has.
LEMMA FewAccesses ==
  ASSUME NEW T, NEW a \in T, NEW b \in T, NEW c \in T, NEW d \in T, NEW e \in T, NEW f \in T,
         NEW g \in T
  PROVE  /\ <<a>> \in Seq(T) /\ <<a, b>> \in Seq(T) /\ <<a, b, c>> \in Seq(T)
         /\ <<a, b, c, d>> \in Seq(T) /\ <<a, b, c, d, e, f, g>> \in Seq(T)
OBVIOUS

\* The seven accesses of an injection.
LEMMA InjectAccesses ==
  ASSUME NEW x \in Names, NEW row \in Nat, NEW t \in Threads
  PROVE  LET s == Inject(With(x, row), t) IN
         /\ s \in Seq(OnTensix) /\ Len(s) = 7
         /\ s[1] = With("ready", t) /\ s[2] = With("claim", t) /\ s[3] = With("ready", t)
         /\ s[4] = With("stage", With(x, row)) /\ s[5] = With("push", t)
         /\ s[6] = With("drained", t) /\ s[7] = With("release", t)
<1>. DEFINE a == With("ready", t)
            b == With("claim", t)
            c == With("stage", With(x, row))
            d == With("push", t)
            e == With("drained", t)
            f == With("release", t)
<1>1. /\ a \in OnTensix /\ b \in OnTensix /\ c \in OnTensix
      /\ d \in OnTensix /\ e \in OnTensix /\ f \in OnTensix
  BY DEF OnTensix, With
<1>2. Inject(With(x, row), t) = <<a, b, a, c, d, e, f>>
  BY Zenon DEF Inject
<1>. HIDE DEF a, b, c, d, e, f
<1>3. <<a, b, a, c, d, e, f>> \in Seq(OnTensix)
  BY <1>1, FewAccesses
<1>. QED  BY <1>2, <1>3 DEF a, b, c, d, e, f

\* The two accesses that read a word, and the two that read a row.
LEMMA ReadAccesses ==
  /\ \A g \in Groups, w \in Nat : ReadWord(g, w) \in Seq(OnBus) /\ ReadWord(g, w) # <<>>
  /\ \A r \in Nat : ReadRow("dst", r) \in Seq(OnTensix) /\ Len(ReadRow("dst", r)) = 2
  /\ \A r \in Nat : ReadRow("dst", r)[1] = With("row", r)
                    /\ ReadRow("dst", r)[2] = With("array", "none")
<1>1. ASSUME NEW g \in Groups, NEW w \in Nat
      PROVE  ReadWord(g, w) \in Seq(OnBus) /\ ReadWord(g, w) # <<>>
  <2>. DEFINE a == With("select", Word(g, w))
              b == With("data", "none")
  <2>1. a \in OnBus /\ b \in OnBus
    BY DEF OnBus, With, Word, Selects
  <2>2. ReadWord(g, w) = <<a, b>>
    BY Zenon DEF ReadWord
  <2>. HIDE DEF a, b
  <2>. QED  BY <2>1, <2>2
<1>2. ASSUME NEW r \in Nat
      PROVE  /\ ReadRow("dst", r) \in Seq(OnTensix) /\ Len(ReadRow("dst", r)) = 2
             /\ ReadRow("dst", r)[1] = With("row", r)
             /\ ReadRow("dst", r)[2] = With("array", "none")
  <2>. DEFINE a == With("row", r)
              b == With("array", "none")
  <2>1. a \in OnTensix /\ b \in OnTensix
    BY DEF OnTensix, With
  <2>2. ReadRow("dst", r) = <<a, b>>
    BY Zenon DEF ReadRow
  <2>. HIDE DEF a, b
  <2>3. <<a, b>> \in Seq(OnTensix) /\ Len(<<a, b>>) = 2 /\ <<a, b>>[1] = a /\ <<a, b>>[2] = b
    BY <2>1
  <2>. QED  BY ONLY <2>2, <2>3 DEF a, b
<1>. QED  BY <1>1, <1>2

\* A row of SRCA: an injection, another, the read of row 0, and a third.
LEMMA SrcaAccesses ==
  ASSUME NEW r \in Nat
  PROVE  LET s == ReadRow("srca", r) IN
         /\ s \in Seq(OnTensix) /\ Len(s) = 23
         /\ \A k \in 1..7 : s[k] = Inject(With("save", 0), MathThread)[k]
         /\ \A k \in 1..7 : s[7 + k] = Inject(With("move", r), MathThread)[k]
         /\ s[15] = With("row", 0) /\ s[16] = With("array", "none")
         /\ \A k \in 1..7 : s[16 + k] = Inject(With("store", 0), MathThread)[k]
<1>. DEFINE A == Inject(With("save", 0), MathThread)
            B == Inject(With("move", r), MathThread)
            a == With("row", 0)
            b == With("array", "none")
            C == <<a, b>>
            D == Inject(With("store", 0), MathThread)
<1>1. a \in OnTensix /\ b \in OnTensix
  BY DEF OnTensix, With
<1>2. /\ A \in Seq(OnTensix) /\ Len(A) = 7
      /\ B \in Seq(OnTensix) /\ Len(B) = 7
      /\ D \in Seq(OnTensix) /\ Len(D) = 7
  <2>1. /\ MathThread \in Threads /\ 0 \in Nat
        /\ "save" \in Names /\ "move" \in Names /\ "store" \in Names
    BY WorkerAssumption DEF Names
  <2>. QED  BY <2>1, InjectAccesses, Zenon
<1>3. ReadRow("srca", r) = A \o B \o C \o D
  BY Zenon DEF ReadRow
<1>. HIDE DEF A, B, a, b, D
<1>4. C \in Seq(OnTensix) /\ Len(C) = 2 /\ C[1] = a /\ C[2] = b
  BY <1>1
<1>. HIDE DEF C
<1>. DEFINE AB == A \o B
            ABC == AB \o C
            s == ABC \o D
<1>5. /\ AB \in Seq(OnTensix) /\ Len(AB) = 14
      /\ \A k \in 1..7 : AB[k] = A[k] /\ AB[7 + k] = B[k]
  <2>1. A \in Seq(OnTensix) /\ B \in Seq(OnTensix)
    BY <1>2
  <2>2. /\ AB \in Seq(OnTensix) /\ Len(AB) = Len(A) + Len(B)
        /\ \A k \in 1..Len(A) : AB[k] = A[k]
        /\ \A k \in 1..Len(B) : AB[Len(A) + k] = B[k]
    BY ONLY <2>1, Joined DEF AB
  <2>3. Len(A) = 7 /\ Len(B) = 7
    BY <1>2
  <2>. HIDE DEF AB
  <2>. QED  BY ONLY <2>2, <2>3
<1>. HIDE DEF AB
<1>6. /\ ABC \in Seq(OnTensix) /\ Len(ABC) = 16
      /\ \A k \in 1..14 : ABC[k] = AB[k]
      /\ \A k \in 1..2 : ABC[14 + k] = C[k]
  <2>1. AB \in Seq(OnTensix) /\ C \in Seq(OnTensix)
    BY <1>4, <1>5
  <2>2. /\ ABC \in Seq(OnTensix) /\ Len(ABC) = Len(AB) + Len(C)
        /\ \A k \in 1..Len(AB) : ABC[k] = AB[k]
        /\ \A k \in 1..Len(C) : ABC[Len(AB) + k] = C[k]
    BY ONLY <2>1, Joined DEF ABC
  <2>3. Len(AB) = 14 /\ Len(C) = 2
    BY <1>4, <1>5
  <2>. HIDE DEF ABC
  <2>. QED  BY ONLY <2>2, <2>3
<1>. HIDE DEF ABC
<1>7. /\ s \in Seq(OnTensix) /\ Len(s) = 23
      /\ \A k \in 1..16 : s[k] = ABC[k]
      /\ \A k \in 1..7 : s[16 + k] = D[k]
  <2>1. ABC \in Seq(OnTensix) /\ D \in Seq(OnTensix)
    BY <1>2, <1>6
  <2>2. /\ s \in Seq(OnTensix) /\ Len(s) = Len(ABC) + Len(D)
        /\ \A k \in 1..Len(ABC) : s[k] = ABC[k]
        /\ \A k \in 1..Len(D) : s[Len(ABC) + k] = D[k]
    BY ONLY <2>1, Joined DEF s
  <2>3. Len(ABC) = 16 /\ Len(D) = 7
    BY <1>2, <1>6
  <2>. HIDE DEF s
  <2>. QED  BY ONLY <2>2, <2>3
<1>8. s = ReadRow("srca", r)
  BY <1>3, Zenon DEF AB, ABC
<1>. HIDE DEF s
<1>9. ASSUME NEW k \in 1..7
      PROVE  s[k] = A[k] /\ s[7 + k] = B[k] /\ s[16 + k] = D[k]
  <2>1. k \in 1..14 /\ 7 + k \in 1..14 /\ k \in 1..16 /\ 7 + k \in 1..16
    OBVIOUS
  <2>. QED  BY ONLY <1>5, <1>6, <1>7, <1>9, <2>1, SMTT(20)
<1>10. s[15] = a /\ s[16] = b
  <2>1. /\ 14 + 1 = 15 /\ 14 + 2 = 16 /\ 15 \in 1..16 /\ 16 \in 1..16
        /\ 1 \in 1..2 /\ 2 \in 1..2
    OBVIOUS
  <2>2. ABC[15] = C[1] /\ ABC[16] = C[2]
    BY ONLY <1>6, <2>1
  <2>. QED  BY ONLY <1>4, <1>7, <2>1, <2>2
<1>. QED  BY <1>7, <1>8, <1>9, <1>10 DEF A, B, a, b, D
---------------------------------------------------------------------------
(* The scripts of the methods.                                             *)

\* The words of a group, and the rows of a file, from one of them on.
WordsFrom(group) ==
  LET from[w \in 0..Words] ==
        IF w = Words THEN <<>> ELSE ReadWord(group, w) \o from[w + 1]
  IN from

RowsFrom(file) ==
  LET from[r \in 0..(LastRow + 1)] ==
        IF r > LastRow THEN <<>> ELSE ReadRow(file, r) \o from[r + 1]
  IN from

LEMMA WordsFromDef ==
  ASSUME NEW g \in Groups
  PROVE  /\ WordsFrom(g) \in [0..Words -> Seq(OnBus)]
         /\ ReadUnsafe(g) = WordsFrom(g)[0]
<1>. DEFINE C == [w \in 0..(Words - 1) |-> ReadWord(g, w)]
            from == CHOOSE from : from = [w \in 0..Words |->
                      IF w = Words THEN <<>> ELSE ReadWord(g, w) \o from[w + 1]]
<1>0. Words \in Nat
  BY WorkerAssumption
<1>1. PICK f \in [0..Words -> Seq(OnBus)] : Concatenates(f, C, 0, Words)
  <2>1. \A w \in 0..(Words - 1) : C[w] \in Seq(OnBus)
    BY <1>0, ReadAccesses
  <2>. HIDE DEF C
  <2>. QED  BY <1>0, <2>1, Concatenated
<1>2. f = [w \in 0..Words |-> IF w = Words THEN <<>> ELSE ReadWord(g, w) \o f[w + 1]]
  <2>1. ASSUME NEW w \in 0..Words
        PROVE  f[w] = IF w = Words THEN <<>> ELSE ReadWord(g, w) \o f[w + 1]
    BY <1>0, <1>1 DEF Concatenates
  <2>. QED  BY <2>1
<1>3. from = [w \in 0..Words |-> IF w = Words THEN <<>> ELSE ReadWord(g, w) \o from[w + 1]]
  BY <1>2, Zenon
<1>4. WordsFrom(g) = from /\ ReadUnsafe(g) = from[0]
  BY Zenon DEF WordsFrom, ReadUnsafe
<1>. HIDE DEF from
<1>5. \A w \in 0..Words : from[w] \in Seq(OnBus)
  <2>1. \A w \in 0..(Words - 1) : C[w] \in Seq(OnBus)
    BY <1>0, ReadAccesses
  <2>2. Concatenates(from, C, 0, Words)
    <3>1. ASSUME NEW w \in 0..Words
          PROVE  from[w] = IF w >= Words THEN <<>> ELSE C[w] \o from[w + 1]
      <4>1. (w >= Words <=> w = Words) /\ (w # Words => C[w] = ReadWord(g, w))
        BY <1>0
      <4>. HIDE DEF C
      <4>2. from[w] = IF w = Words THEN <<>> ELSE ReadWord(g, w) \o from[w + 1]
        BY <1>3
      <4>. QED  BY ONLY <4>1, <4>2
    <3>. QED  BY <3>1 DEF Concatenates
  <2>. HIDE DEF C
  <2>. QED  BY <1>0, <2>1, <2>2, AllSequences
<1>6. from = [w \in 0..Words |-> from[w]]
  BY <1>3
<1>. QED  BY <1>4, <1>5, <1>6

\* The last two accesses of read_regfile, and all that it has yet to make
\* when it comes to row r.
Off == <<With("enable", FALSE), With("row", 0)>>
Remaining(file, r) == RowsFrom(file)[r] \o Off

LEMMA RemainingDef ==
  ASSUME NEW file \in {"dst", "srca"}
  PROVE  /\ Off \in Seq(OnTensix) /\ Len(Off) = 2
         /\ Off[1] = With("enable", FALSE) /\ Off[2] = With("row", 0)
         /\ \A r \in 0..(LastRow + 1) : Remaining(file, r) \in Seq(OnTensix)
         /\ \A r \in 0..LastRow : Remaining(file, r) = ReadRow(file, r) \o Remaining(file, r + 1)
         /\ Remaining(file, LastRow + 1) = Off
         /\ ReadFile(file) = <<With("enable", TRUE)>> \o Remaining(file, 0)
<1>. DEFINE C == [r \in 0..LastRow |-> ReadRow(file, r)]
            n == LastRow + 1
            from == CHOOSE from : from = [r \in 0..(LastRow + 1) |->
                      IF r > LastRow THEN <<>> ELSE ReadRow(file, r) \o from[r + 1]]
            a == With("enable", TRUE)
            b == With("enable", FALSE)
            c == With("row", 0)
<1>0. LastRow \in Nat /\ n \in Nat /\ n - 1 = LastRow
  BY WorkerAssumption
<1>1. \A r \in 0..LastRow : C[r] \in Seq(OnTensix) /\ C[r] = ReadRow(file, r)
  <2>. SUFFICES ASSUME NEW r \in 0..LastRow  PROVE ReadRow(file, r) \in Seq(OnTensix)
    OBVIOUS
  <2>1. CASE file = "dst"
    BY <1>0, <2>1, ReadAccesses
  <2>2. CASE file = "srca"
    BY <1>0, <2>2, SrcaAccesses
  <2>. QED  BY <2>1, <2>2
<1>2. PICK f \in [0..n -> Seq(OnTensix)] : Concatenates(f, C, 0, n)
  <2>. HIDE DEF C, n
  <2>. QED  BY <1>0, <1>1, Concatenated
<1>. HIDE DEF C
<1>3. f = [r \in 0..(LastRow + 1) |-> IF r > LastRow THEN <<>> ELSE ReadRow(file, r) \o f[r + 1]]
  <2>1. ASSUME NEW r \in 0..(LastRow + 1)
        PROVE  f[r] = IF r > LastRow THEN <<>> ELSE ReadRow(file, r) \o f[r + 1]
    <3>1. (r >= n <=> r > LastRow) /\ (~(r >= n) => C[r] = ReadRow(file, r))
      BY <1>0, <1>1
    <3>2. f[r] = IF r >= n THEN <<>> ELSE C[r] \o f[r + 1]
      BY <1>2 DEF Concatenates
    <3>. QED  BY ONLY <3>1, <3>2
  <2>. QED  BY <1>2, <2>1
<1>4. from = [r \in 0..(LastRow + 1) |-> IF r > LastRow THEN <<>> ELSE ReadRow(file, r) \o from[r + 1]]
  BY <1>3, Zenon
<1>5. /\ RowsFrom(file) = from
      /\ ReadFile(file) = <<a>> \o from[0] \o <<b, c>> /\ Off = <<b, c>>
  BY Zenon DEF RowsFrom, ReadFile, Off
<1>. HIDE DEF from
<1>6. \A r \in 0..n : from[r] \in Seq(OnTensix)
  <2>1. ASSUME NEW r \in 0..n  PROVE from[r] = IF r >= n THEN <<>> ELSE C[r] \o from[r + 1]
    <3>1. (r >= n <=> r > LastRow) /\ (~(r >= n) => C[r] = ReadRow(file, r))
      BY <1>0, <1>1
    <3>2. from[r] = IF r > LastRow THEN <<>> ELSE ReadRow(file, r) \o from[r + 1]
      BY <1>4
    <3>. QED  BY ONLY <3>1, <3>2
  <2>. HIDE DEF n
  <2>. QED  BY <1>0, <1>1, <2>1, AllSequences DEF Concatenates
<1>7. a \in OnTensix /\ b \in OnTensix /\ c \in OnTensix
  BY DEF OnTensix, With
<1>. HIDE DEF a, b, c
<1>8. <<a>> \in Seq(OnTensix)
  BY <1>7
<1>9. /\ Off \in Seq(OnTensix) /\ Len(Off) = 2 /\ Off[1] = b /\ Off[2] = c
  BY <1>5, <1>7
<1>10. ASSUME NEW r \in 0..n
       PROVE  Remaining(file, r) \in Seq(OnTensix) /\ Remaining(file, r) = from[r] \o Off
  BY <1>5, <1>6, <1>9, ConcatProperties DEF Remaining
<1>11. ASSUME NEW r \in 0..LastRow
       PROVE  Remaining(file, r) = ReadRow(file, r) \o Remaining(file, r + 1)
  <2>1. r \in 0..n /\ r + 1 \in 0..n /\ ~(r > LastRow)
    BY <1>0
  <2>2. from[r] = ReadRow(file, r) \o from[r + 1]
    BY <1>4, <2>1
  <2>3. /\ ReadRow(file, r) \in Seq(OnTensix) /\ from[r + 1] \in Seq(OnTensix)
        /\ Off \in Seq(OnTensix)
    BY <1>1, <1>6, <1>9, <2>1
  <2>. DEFINE x == ReadRow(file, r)
              y == from[r + 1]
  <2>4. (x \o y) \o Off = x \o (y \o Off)
    <3>1. x \in Seq(OnTensix) /\ y \in Seq(OnTensix) /\ Off \in Seq(OnTensix)
      BY <2>3
    <3>. HIDE DEF x, y
    <3>. QED  BY ONLY <3>1, ConcatAssociative, SMTT(20)
  <2>. QED  BY ONLY <1>10, <2>1, <2>2, <2>4
<1>12. Remaining(file, LastRow + 1) = Off
  <2>1. from[LastRow + 1] = <<>> /\ LastRow + 1 \in 0..n
    BY <1>0, <1>4
  <2>2. <<>> \o Off = Off
    BY ONLY <1>9, ConcatEmptySeq
  <2>. QED  BY ONLY <1>10, <2>1, <2>2
<1>13. ReadFile(file) = <<a>> \o Remaining(file, 0)
  <2>1. 0 \in 0..n
    BY <1>0
  <2>2. (<<a>> \o from[0]) \o Off = <<a>> \o (from[0] \o Off)
    <3>1. from[0] \in Seq(OnTensix) /\ Off \in Seq(OnTensix)
      BY <1>6, <1>9, <2>1
    <3>. DEFINE x == <<a>>
                y == from[0]
    <3>2. x \in Seq(OnTensix) /\ y \in Seq(OnTensix)
      BY <1>8, <3>1
    <3>. HIDE DEF x, y
    <3>3. (x \o y) \o Off = x \o (y \o Off)
      BY ONLY <3>1, <3>2, ConcatAssociative, SMTT(20)
    <3>. QED  BY <3>3 DEF x, y
  <2>. QED  BY ONLY <1>5, <1>10, <2>1, <2>2
<1>. QED  BY <1>9, <1>10, <1>11, <1>12, <1>13 DEF a, b, c

\* The accesses of a sampling: the set-up ends with the one of this number.
SetUp(samples) == IF samples > 1 THEN 5 ELSE 4

LEMMA SetupAccesses ==
  ASSUME NEW g \in Groups, NEW at \in 0..LastLine, NEW n \in Nat \ {0}
  PROVE  LET s == Setup(g, at, n) IN
         /\ s \in Seq(OnBus) /\ Len(s) = SetUp(n)
         /\ s[1] = With("select", Word(g, 0)) /\ s[2] = Reg2("prepare", FALSE)
         /\ s[3] = With("reg0", at) /\ (n > 1 => s[4] = With("reg1", at + n))
         /\ s[SetUp(n)] = Reg2(Mode(n), FALSE)
<1>. DEFINE a == With("select", Word(g, 0))
            b == Reg2("prepare", FALSE)
            c == With("reg0", at)
            d == With("reg1", at + n)
            e == Reg2(Mode(n), FALSE)
            A == <<a, b, c>>
            D == <<d>>
            E == <<e>>
<1>1. at \in Nat /\ Mode(n) \in Modes /\ Word(g, 0) \in Selects
  BY WorkerAssumption DEF Mode, Modes, Word, Selects
<1>2. a \in OnBus /\ b \in OnBus /\ c \in OnBus /\ d \in OnBus /\ e \in OnBus
  BY <1>1 DEF OnBus, With, Reg2, Modes
<1>3. Setup(g, at, n) = A \o (IF n > 1 THEN D ELSE <<>>) \o E
  BY Zenon DEF Setup
<1>. HIDE DEF a, b, c, d, e
<1>4. /\ A \in Seq(OnBus) /\ D \in Seq(OnBus) /\ E \in Seq(OnBus) /\ <<>> \in Seq(OnBus)
      /\ Len(A) = 3 /\ Len(D) = 1 /\ Len(E) = 1
      /\ A[1] = a /\ A[2] = b /\ A[3] = c /\ D[1] = d /\ E[1] = e
  BY <1>2
<1>. HIDE DEF A, D, E
<1>5. CASE n > 1
  <2>. DEFINE AD == A \o D
              s == AD \o E
  <2>1. /\ AD \in Seq(OnBus) /\ Len(AD) = Len(A) + Len(D)
        /\ \A k \in 1..Len(A) : AD[k] = A[k]
        /\ \A k \in 1..Len(D) : AD[Len(A) + k] = D[k]
    <3>1. A \in Seq(OnBus) /\ D \in Seq(OnBus)
      BY <1>4
    <3>. QED  BY ONLY <3>1, Joined DEF AD
  <2>. HIDE DEF AD
  <2>2. /\ s \in Seq(OnBus) /\ Len(s) = Len(AD) + Len(E)
        /\ \A k \in 1..Len(AD) : s[k] = AD[k]
        /\ \A k \in 1..Len(E) : s[Len(AD) + k] = E[k]
    <3>1. AD \in Seq(OnBus) /\ E \in Seq(OnBus)
      BY <1>4, <2>1
    <3>. QED  BY ONLY <3>1, Joined DEF s
  <2>3. s = Setup(g, at, n)
    BY <1>3, <1>5 DEF AD
  <2>. HIDE DEF s
  <2>4. /\ AD[1] = a /\ AD[2] = b /\ AD[3] = c /\ AD[4] = d /\ Len(AD) = 4
    BY ONLY <1>4, <2>1
  <2>5. /\ s[1] = a /\ s[2] = b /\ s[3] = c /\ s[4] = d /\ s[5] = e /\ Len(s) = 5
    BY ONLY <1>4, <2>2, <2>4
  <2>. QED  BY <1>5, <2>2, <2>3, <2>5 DEF SetUp, a, b, c, d, e
<1>6. CASE ~(n > 1)
  <2>. DEFINE s == A \o E
  <2>1. /\ s \in Seq(OnBus) /\ Len(s) = Len(A) + Len(E)
        /\ \A k \in 1..Len(A) : s[k] = A[k]
        /\ \A k \in 1..Len(E) : s[Len(A) + k] = E[k]
    <3>1. A \in Seq(OnBus) /\ E \in Seq(OnBus)
      BY <1>4
    <3>. QED  BY ONLY <3>1, Joined DEF s
  <2>2. s = Setup(g, at, n)
    <3>1. A \o <<>> = A
      BY <1>4, ConcatEmptySeq
    <3>. QED  BY <1>3, <1>6, <3>1
  <2>. HIDE DEF s
  <2>3. /\ s[1] = a /\ s[2] = b /\ s[3] = c /\ s[4] = e /\ Len(s) = 4
    BY ONLY <1>4, <2>1
  <2>. QED  BY <1>6, <2>1, <2>2, <2>3 DEF SetUp, a, b, c, e
<1>. QED  BY <1>5, <1>6

LEMMA SampleAccesses ==
  ASSUME NEW o \in Ops, o.method = "sample_signal_group", Fits(o)
  PROVE  LET s == Script(o)
             n == SetUp(o.samples)
         IN /\ s \in Seq(OnBus) /\ Len(s) = n + 4 + o.samples
            /\ s[1] = With("select", Word(o.group, 0)) /\ s[2] = Reg2("prepare", FALSE)
            /\ s[3] = With("reg0", o.at)
            /\ o.samples > 1 => s[4] = With("reg1", o.at + o.samples)
            /\ s[n] = Reg2(Mode(o.samples), FALSE)
            /\ s[n + 1] = With("sentinel", o.at + o.samples - 1)
            /\ s[n + 2] = Reg2(Mode(o.samples), TRUE) /\ s[n + 3] = Reg2(Mode(o.samples), FALSE)
            /\ s[n + 4] = With("await", o.at + o.samples - 1)
            /\ \A i \in 1..o.samples : s[n + 4 + i] = With("line", o.at + i - 1)
<1>. DEFINE m == o.samples
            n == SetUp(m)
            A == Setup(o.group, o.at, m)
            B == Sample(o.at, m)
            C == Process(o.at, m)
            b == With("sentinel", o.at + m - 1)
            c == Reg2(Mode(m), TRUE)
            d == Reg2(Mode(m), FALSE)
            e == With("await", o.at + m - 1)
<1>1. /\ o.group \in Groups /\ o.at \in 0..LastLine /\ m \in 1..MaxSamples
      /\ m \in Nat \ {0} /\ o.at + m - 1 \in 0..LastLine
  <2>1. o.group \in Groups /\ o.at \in 0..LastLine /\ m \in 1..MaxSamples
    BY DEF Ops
  <2>. QED  BY <2>1, WorkerAssumption DEF Fits
<1>. HIDE DEF m
<1>2. /\ A \in Seq(OnBus) /\ Len(A) = n /\ n \in {4, 5} /\ (m > 1 => n = 5)
      /\ A[1] = With("select", Word(o.group, 0)) /\ A[2] = Reg2("prepare", FALSE)
      /\ A[3] = With("reg0", o.at) /\ (m > 1 => A[4] = With("reg1", o.at + m))
      /\ A[n] = d
  <2>1. n \in {4, 5} /\ (m > 1 => n = 5)
    BY DEF SetUp
  <2>. HIDE DEF n
  <2>. QED  BY <1>1, <2>1, SetupAccesses, Zenon DEF n
<1>. HIDE DEF A, n
<1>3. b \in OnBus /\ c \in OnBus /\ d \in OnBus /\ e \in OnBus
  <2>1. Mode(m) \in Modes
    BY DEF Mode, Modes
  <2>. QED  BY <1>1, <2>1 DEF OnBus, With, Reg2
<1>4. B = <<b, c, d, e>>
  BY Zenon DEF Sample
<1>. HIDE DEF b, c, d, e, B
<1>5. /\ B \in Seq(OnBus) /\ Len(B) = 4 /\ B[1] = b /\ B[2] = c /\ B[3] = d /\ B[4] = e
  BY <1>3, <1>4
<1>6. /\ C \in Seq(OnBus) /\ Len(C) = m /\ \A i \in 1..m : C[i] = With("line", o.at + i - 1)
  <2>1. C = [i \in 1..m |-> With("line", o.at + i - 1)]
    BY DEF Process
  <2>2. \A i \in 1..m : With("line", o.at + i - 1) \in OnBus
    <3>. SUFFICES ASSUME NEW i \in 1..m  PROVE With("line", o.at + i - 1) \in OnBus
      OBVIOUS
    <3>1. o.at + i - 1 \in 0..LastLine
      BY <1>1, WorkerAssumption
    <3>. QED  BY <3>1 DEF OnBus, With
  <2>. QED  BY <1>1, <2>1, <2>2
<1>. HIDE DEF C
<1>. DEFINE AB == A \o B
            s == AB \o C
<1>7. /\ AB \in Seq(OnBus) /\ Len(AB) = Len(A) + Len(B)
      /\ \A k \in 1..Len(A) : AB[k] = A[k]
      /\ \A k \in 1..Len(B) : AB[Len(A) + k] = B[k]
  <2>1. A \in Seq(OnBus) /\ B \in Seq(OnBus)
    BY <1>2, <1>5
  <2>. QED  BY ONLY <2>1, Joined DEF AB
<1>. HIDE DEF AB
<1>8. /\ s \in Seq(OnBus) /\ Len(s) = Len(AB) + Len(C)
      /\ \A k \in 1..Len(AB) : s[k] = AB[k]
      /\ \A k \in 1..Len(C) : s[Len(AB) + k] = C[k]
  <2>1. AB \in Seq(OnBus) /\ C \in Seq(OnBus)
    BY <1>6, <1>7
  <2>. QED  BY ONLY <2>1, Joined DEF s
<1>9. s = Script(o)
  BY Zenon DEF Script, s, AB, A, B, C, m
<1>. HIDE DEF s
<1>10. Len(AB) = n + 4 /\ Len(s) = n + 4 + m
  BY <1>2, <1>5, <1>6, <1>7, <1>8
<1>11. /\ \A k \in 1..5 : k <= n => s[k] = A[k]
       /\ \A k \in 1..4 : s[n + k] = B[k]
  <2>1. ASSUME NEW k \in 1..5, k <= n  PROVE s[k] = A[k]
    BY <1>2, <1>7, <1>8, <1>10, <2>1, SMTT(20)
  <2>2. ASSUME NEW k \in 1..4  PROVE s[n + k] = B[k]
    <3>1. n + k \in 1..(n + 4)
      BY <1>2
    <3>2. AB[n + k] = B[k]
      BY <1>2, <1>5, <1>7
    <3>. QED  BY <1>8, <1>10, <3>1, <3>2
  <2>. QED  BY <2>1, <2>2
<1>12. \A i \in 1..m : s[n + 4 + i] = With("line", o.at + i - 1)
  BY <1>6, <1>8, <1>10
<1>13. /\ s[1] = A[1] /\ s[2] = A[2] /\ s[3] = A[3] /\ (m > 1 => s[4] = A[4]) /\ s[n] = A[n]
       /\ s[n + 1] = b /\ s[n + 2] = c /\ s[n + 3] = d /\ s[n + 4] = e
  <2>1. /\ 1 \in 1..5 /\ 2 \in 1..5 /\ 3 \in 1..5 /\ 4 \in 1..5 /\ n \in 1..5
        /\ 1 <= n /\ 2 <= n /\ 3 <= n /\ 4 <= n /\ n <= n
        /\ 1 \in 1..4 /\ 2 \in 1..4 /\ 3 \in 1..4 /\ 4 \in 1..4
    BY <1>2
  <2>. QED  BY ONLY <1>5, <1>11, <2>1
<1>. QED  BY ONLY <1>2, <1>8, <1>9, <1>10, <1>12, <1>13 DEF b, c, d, e, m, n

LEMMA ScriptTypes ==
  ASSUME NEW o \in Ops
  PROVE  IF o.method \in {"inject_instruction", "read_regfile"}
         THEN Script(o) \in Seq(OnTensix) /\ Script(o) # <<>> ELSE Script(o) \in Seq(OnBus)
<1>1. CASE o.method = "read_signal"
  <2>1. o.group \in Groups /\ o.word \in Nat
    BY <1>1, WorkerAssumption DEF Ops
  <2>2. Script(o) = ReadWord(o.group, o.word)
    BY <1>1 DEF Script
  <2>. QED  BY <1>1, <2>1, <2>2, ReadAccesses
<1>2. CASE o.method = "read_signal_group_unsafe"
  <2>1. o.group \in Groups
    BY <1>2 DEF Ops
  <2>2. Script(o) = ReadUnsafe(o.group)
    BY <1>2 DEF Script
  <2>3. 0 \in 0..Words
    BY WorkerAssumption
  <2>. QED  BY <1>2, <2>1, <2>2, <2>3, WordsFromDef
<1>3. CASE o.method = "sample_signal_group"
  <2>1. CASE Fits(o)
    BY <1>3, <2>1, SampleAccesses
  <2>2. CASE ~Fits(o)
    <3>1. Script(o) = <<>>
      BY <1>3, <2>2 DEF Script
    <3>. QED  BY <1>3, <3>1, EmptySeq
  <2>. QED  BY <2>1, <2>2
<1>4. CASE o.method = "inject_instruction"
  <2>1. o.thread \in Threads /\ "other" \in Names
    BY <1>4 DEF Ops, Names
  <2>2. Script(o) = Inject(With("other", 0), o.thread)
    BY <1>4 DEF Script
  <2>3. Script(o) \in Seq(OnTensix) /\ Len(Script(o)) = 7
    BY <2>1, <2>2, InjectAccesses
  <2>. QED  BY <1>4, <2>3, LenIsNat
<1>5. CASE o.method = "read_regfile"
  <2>1. o.file \in {"dst", "srca"}
    BY <1>5 DEF Ops
  <2>. DEFINE s == <<With("enable", TRUE)>>
              r == Remaining(o.file, 0)
  <2>2. Script(o) = s \o r
    BY <1>5, <2>1, RemainingDef DEF Script
  <2>3. s \in Seq(OnTensix) /\ Len(s) = 1
    BY DEF OnTensix, With
  <2>4. r \in Seq(OnTensix)
    BY <2>1, WorkerAssumption, RemainingDef, SMTT(20)
  <2>. HIDE DEF s, r
  <2>5. s \o r \in Seq(OnTensix) /\ Len(s \o r) = 1 + Len(r)
    BY <2>3, <2>4, ConcatProperties
  <2>6. Len(r) \in Nat
    BY <2>4, LenIsNat
  <2>. QED  BY <1>5, <2>2, <2>5, <2>6, LenIsNat
<1>. QED  BY <1>1, <1>2, <1>3, <1>4, <1>5 DEF Ops
---------------------------------------------------------------------------
(* Type correctness.                                                       *)

LEMMA Bounds ==
  /\ Words \in Nat /\ LastLine \in Nat /\ LastRow \in Nat /\ MaxCalls \in Nat
  /\ MaxFaults \in Nat /\ MaxSamples \in Nat \ {0} /\ Depth \in Nat \ {0}
  /\ MathThread \in Threads
BY WorkerAssumption

\* An access has an argument of its kind.
LEMMA Arguments ==
  ASSUME NEW a \in OnBus \cup OnTensix
  PROVE  /\ a.do = "select" => a.arg \in Selects
         /\ a.do \in {"reg0", "reg1"} => a.arg \in Nat
         /\ a.do = "reg2" => a.arg \in [mode : Modes, trigger : BOOLEAN]
         /\ a.do \in {"sentinel", "await", "line"} => a.arg \in 0..LastLine
         /\ a.do \in {"ready", "claim", "push", "drained", "release"} => a.arg \in Threads
         /\ a.do = "stage" => a.arg \in [do : Names, arg : Nat]
         /\ a.do = "enable" => a.arg \in BOOLEAN
         /\ a.do = "row" => a.arg \in Nat
BY DEF OnBus, OnTensix

\* The access that is due, during a call.
LEMMA DueAccess ==
  ASSUME ScriptOK, outcome = "busy"
  PROVE  Head(script) \in OnBus \cup OnTensix
BY HeadTailProperties DEF ScriptOK

\* The call goes on.
LEMMA GoesOn ==
  ASSUME CallOK, ScriptOK, outcome = "busy", NEW result \in Seq(Results), GoOn(result)
  PROVE  CallOK' /\ ScriptOK'
<1>1. got' \in Seq(Results)
  BY ConcatProperties DEF GoOn, CallOK
<1>2. CallOK'
  BY <1>1 DEF GoOn, CallOK, history
<1>3. script # <<>> /\ script' = Tail(script)
  BY DEF GoOn, ScriptOK
<1>4. script' \in Seq(OnBus \cup OnTensix)
  BY <1>3, HeadTailProperties DEF ScriptOK
<1>5. IF Injecting THEN script' \in Seq(OnTensix) ELSE script' \in Seq(OnBus)
  BY <1>3, HeadTailProperties DEF ScriptOK
<1>6. Injecting' <=> Injecting
  BY DEF GoOn, Injecting
<1>7. outcome' = "busy" <=> script' # <<>>
  BY DEF GoOn
<1>. QED  BY <1>2, <1>4, <1>5, <1>6, <1>7 DEF ScriptOK

Host ==
  \/ Select \/ ReadData \/ SetLines \/ WriteReg2 \/ WriteSentinel \/ Await \/ ReadLine
  \/ Poll \/ Claim \/ Stage \/ Push \/ SetArray \/ ReadArray

LEMMA InitTypes == Init => TypeOK
<1>. SUFFICES ASSUME Init  PROVE TypeOK
  OBVIOUS
<1>1. BusOK
  <2>1. select \in Selects
    BY DEF Init, Selects, Word
  <2>2. l1 \in [0..LastLine -> Lines]
    BY DEF Init, Lines, Line
  <2>. QED  BY <2>1, <2>2 DEF Init, BusOK, Modes
<1>2. TensixOK
  <2>1. staged \in Insns /\ dst0 \in Rows /\ saved \in Rows
    BY DEF Init, Insns, Names, Rows, Row
  <2>2. fifo \in [Threads -> Seq(Insns)]
    BY EmptySeq DEF Init
  <2>. QED  BY <2>1, <2>2 DEF Init, TensixOK
<1>3. CallOK
  BY WorkerAssumption DEF Init, CallOK, Rows, Row
<1>4. ScriptOK
  BY DEF Init, ScriptOK
<1>. QED  BY <1>1, <1>2, <1>3, <1>4 DEF TypeOK

LEMMA CallTypes ==
  ASSUME TypeOK, NEW o \in Ops, Call(o)
  PROVE  TypeOK'
<1>1. BusOK' /\ TensixOK'
  BY DEF Call, TypeOK, BusOK, TensixOK, bus, tensix
<1>2. CallOK'
  <2>. DEFINE b == \A t \in Threads : \A i \in DOMAIN fifo[t] : fifo[t][i] = OfProgram
  <2>1. b \in BOOLEAN
    OBVIOUS
  <2>2. before' = [dst0 |-> dst0, clean |-> b]
    BY DEF Call
  <2>. HIDE DEF b
  <2>3. before' \in [dst0 : Rows, clean : BOOLEAN]
    BY <2>1, <2>2 DEF TypeOK, TensixOK
  <2>4. calls' \in 0..MaxCalls
    BY WorkerAssumption DEF Call, TypeOK, CallOK
  <2>. QED  BY <2>3, <2>4, EmptySeq DEF Call, TypeOK, CallOK
<1>3. ScriptOK'
  <2>1. script' = Script(o) /\ op' = o
    BY Zenon DEF Call
  <2>2. outcome' = "busy" <=> script' # <<>>
    BY DEF Call
  <2>3. Script(o) \in Seq(OnBus \cup OnTensix)
    BY ScriptTypes, SeqMonotonic
  <2>. QED  BY <2>1, <2>2, <2>3, ScriptTypes DEF ScriptOK, Injecting
<1>. QED  BY <1>1, <1>2, <1>3 DEF TypeOK

LEMMA HostTypes ==
  ASSUME TypeOK, Host
  PROVE  TypeOK'
<1>0. Host => outcome = "busy"
  BY DEF Host, Select, ReadData, SetLines, WriteReg2, WriteSentinel, Await, ReadLine, Poll,
         Claim, Stage, Push, SetArray, ReadArray, Due
<1>1. /\ Head(script) \in OnBus \cup OnTensix
      /\ CallOK /\ ScriptOK /\ BusOK /\ TensixOK /\ outcome = "busy"
  BY <1>0, DueAccess DEF TypeOK
<1>2. \A r \in Results : <<r>> \in Seq(Results)
  OBVIOUS
<1>3. <<>> \in Seq(Results)
  BY EmptySeq
<1>4. CASE Select
  BY <1>1, <1>3, <1>4, Arguments, GoesOn DEF Select, Due, Arg, TypeOK, BusOK, TensixOK, tensix
<1>5. CASE ReadData
  BY <1>1, <1>2, <1>5, GoesOn DEF ReadData, Due, TypeOK, BusOK, TensixOK, bus, tensix, Results
<1>6. CASE SetLines
  BY <1>1, <1>3, <1>6, Arguments, GoesOn
     DEF SetLines, Due, Arg, TypeOK, BusOK, TensixOK, tensix
<1>7. CASE WriteReg2
  BY <1>1, <1>3, <1>7, Arguments, GoesOn
     DEF WriteReg2, Due, Arg, TypeOK, BusOK, TensixOK, tensix
<1>8. CASE WriteSentinel
  <2>1. Arg \in 0..LastLine /\ Line("sentinel", calls) \in Lines
    BY <1>1, <1>8, Arguments DEF WriteSentinel, Due, Arg, Line, Lines, CallOK
  <2>2. BusOK'
    BY <1>1, <1>8, <2>1 DEF WriteSentinel, BusOK
  <2>3. TensixOK' /\ CallOK' /\ ScriptOK'
    BY <1>1, <1>3, <1>8, GoesOn DEF WriteSentinel, TensixOK, tensix
  <2>. QED  BY <2>2, <2>3 DEF TypeOK
<1>9. CASE Await
  BY <1>1, <1>3, <1>9, GoesOn DEF Await, TypeOK, BusOK, TensixOK, bus, tensix
<1>10. CASE ReadLine
  <2>1. Arg \in 0..LastLine
    BY <1>1, <1>10, Arguments DEF ReadLine, Due, Arg
  <2>2. <<l1[Arg]>> \in Seq(Results)
    BY <1>1, <2>1 DEF BusOK, Results
  <2>3. CallOK' /\ ScriptOK'
    BY <1>1, <1>10, <2>2, GoesOn DEF ReadLine
  <2>4. BusOK' /\ TensixOK'
    BY <1>1, <1>10 DEF ReadLine, BusOK, TensixOK, bus, tensix
  <2>. QED  BY <2>3, <2>4 DEF TypeOK
<1>11. CASE Poll
  BY <1>1, <1>3, <1>11, GoesOn DEF Poll, TypeOK, BusOK, TensixOK, bus, tensix
<1>12. CASE Claim
  BY <1>1, <1>3, <1>12, Arguments, GoesOn
     DEF Claim, Due, Arg, TypeOK, BusOK, TensixOK, bus
<1>13. CASE Stage
  <2>1. Arg.do \in Names /\ Arg.arg \in Nat
    BY <1>1, <1>13, Arguments DEF Stage, Due, Arg
  <2>2. staged' \in Insns
    BY <1>1, <1>13, <2>1 DEF Stage, Insns, CallOK
  <2>3. TensixOK' /\ BusOK'
    BY <1>1, <1>13, <2>2 DEF Stage, TensixOK, BusOK, bus
  <2>4. CallOK' /\ ScriptOK'
    BY <1>1, <1>3, <1>13, GoesOn DEF Stage
  <2>. QED  BY <2>3, <2>4 DEF TypeOK
<1>14. CASE Push
  <2>1. Arg \in Threads
    BY <1>1, <1>14, Arguments DEF Push, Due, Arg
  <2>2. Append_(fifo[Arg], staged) \in Seq(Insns)
    BY <1>1, <2>1, AppendProperties DEF Append_, TensixOK
  <2>3. fifo' = [fifo EXCEPT ![Arg] = Append_(fifo[Arg], staged)]
    BY <1>14 DEF Push
  <2>4. fifo' \in [Threads -> Seq(Insns)]
    BY <1>1, <2>1, <2>2, <2>3 DEF TensixOK
  <2>5. TensixOK' /\ BusOK'
    BY <1>1, <1>14, <2>1, <2>4 DEF Push, TensixOK, BusOK, bus
  <2>6. CallOK' /\ ScriptOK'
    BY <1>1, <1>3, <1>14, GoesOn DEF Push
  <2>. QED  BY <2>5, <2>6 DEF TypeOK
<1>15. CASE SetArray
  BY <1>1, <1>3, <1>15, Arguments, GoesOn
     DEF SetArray, Due, Arg, TypeOK, BusOK, TensixOK, bus
<1>16. CASE ReadArray
  <2>. DEFINE r == CASE ~array_en -> Row("off", 0)
                     [] array_en /\ array_row = 0 -> dst0
                     [] OTHER -> Row("dst", array_row)
  <2>1. r \in Results
    BY <1>1 DEF TensixOK, Row, Rows, Results
  <2>2. GoOn(<<r>>) /\ UNCHANGED <<bus, tensix>>
    BY <1>16, Zenon DEF ReadArray
  <2>. HIDE DEF r
  <2>3. CallOK' /\ ScriptOK'
    BY <1>1, <1>2, <2>1, <2>2, GoesOn
  <2>4. BusOK' /\ TensixOK'
    BY <1>1, <2>2 DEF BusOK, TensixOK, bus, tensix
  <2>. QED  BY <2>3, <2>4 DEF TypeOK
<1>. QED  BY <1>4, <1>5, <1>6, <1>7, <1>8, <1>9, <1>10, <1>11, <1>12, <1>13, <1>14, <1>15, <1>16
          DEF Host

LEMMA OtherTypes ==
  ASSUME TypeOK,
         \/ AccessFails \/ TakeSample \/ \E t \in Threads : ProgramPushes(t) \/ ExecuteNext(t)
         \/ UNCHANGED vars
  PROVE  TypeOK'
<1>1. CASE AccessFails
  <2>1. script' = <<>> /\ script' \in Seq(OnBus \cup OnTensix) /\ outcome' = "raised"
    BY <1>1, EmptySeq DEF AccessFails
  <2>2. ScriptOK'
    BY <2>1 DEF ScriptOK
  <2>3. faults' \in 0..MaxFaults
    BY <1>1, WorkerAssumption DEF AccessFails, TypeOK, CallOK
  <2>. QED
    BY <1>1, <2>2, <2>3 DEF AccessFails, TypeOK, BusOK, TensixOK, CallOK, bus, tensix, history
<1>2. CASE TakeSample
  <2>1. Line(select.group, calls) \in Lines
    BY DEF TypeOK, BusOK, CallOK, Selects, Line, Lines
  <2>2. l1' \in [0..LastLine -> Lines] /\ line' \in Nat /\ sampling' \in BOOLEAN
    BY <1>2, <2>1 DEF TakeSample, TypeOK, BusOK
  <2>3. BusOK'
    BY <1>2, <2>2 DEF TakeSample, TypeOK, BusOK
  <2>4. TensixOK' /\ CallOK' /\ ScriptOK'
    BY <1>2 DEF TakeSample, TypeOK, TensixOK, CallOK, ScriptOK, Injecting, tensix, history
  <2>. QED  BY <2>3, <2>4 DEF TypeOK
<1>3. ASSUME NEW t \in Threads, ProgramPushes(t)  PROVE TypeOK'
  <2>1. Append(fifo[t], OfProgram) \in Seq(Insns)
    BY AppendProperties DEF TypeOK, TensixOK, OfProgram, Insns, Names
  <2>2. fifo' \in [Threads -> Seq(Insns)]
    BY <1>3, <2>1 DEF ProgramPushes, TypeOK, TensixOK
  <2>. QED
    BY <1>3, <2>2
       DEF ProgramPushes, TypeOK, BusOK, TensixOK, CallOK, ScriptOK, Injecting, bus, history
<1>4. ASSUME NEW t \in Threads, ExecuteNext(t)  PROVE TypeOK'
  <2>. DEFINE insn == Head(fifo[t])
  <2>1. insn \in Insns /\ Tail(fifo[t]) \in Seq(Insns)
    BY <1>4, HeadTailProperties DEF ExecuteNext, TypeOK, TensixOK
  <2>2. /\ saved' = IF insn.do = "save" THEN dst0 ELSE saved
        /\ dst0' = CASE insn.do = "move" -> Row("srca", insn.row)
                     [] insn.do = "store" -> saved
                     [] OTHER -> dst0
        /\ executed' = IF insn.call = calls /\ insn # OfProgram
                       THEN Append(executed, insn.do) ELSE executed
    BY <1>4, Zenon DEF ExecuteNext
  <2>. HIDE DEF insn
  <2>3. insn.do \in Names /\ insn.row \in Nat
    BY <2>1 DEF Insns
  <2>4. saved' \in Rows /\ dst0' \in Rows
    BY <2>2, <2>3 DEF TypeOK, TensixOK, Row, Rows
  <2>5. executed' \in Seq(Names)
    BY <2>2, <2>3, AppendProperties DEF TypeOK, CallOK
  <2>6. fifo' \in [Threads -> Seq(Insns)]
    BY <1>4, <2>1 DEF ExecuteNext, TypeOK, TensixOK
  <2>7. BusOK' /\ ScriptOK'
    BY <1>4 DEF ExecuteNext, TypeOK, BusOK, ScriptOK, Injecting, bus
  <2>8. TensixOK'
    BY <1>4, <2>4, <2>6 DEF ExecuteNext, TypeOK, TensixOK
  <2>9. CallOK'
    BY <1>4, <2>5 DEF ExecuteNext, TypeOK, CallOK
  <2>. QED  BY <2>7, <2>8, <2>9 DEF TypeOK
<1>5. CASE UNCHANGED vars
  BY <1>5 DEF vars, bus, tensix, history, TypeOK, BusOK, TensixOK, CallOK, ScriptOK, Injecting
<1>. QED  BY <1>1, <1>2, <1>3, <1>4, <1>5

\* The state of the model keeps its types, and a script its arguments, for any
\* groups, threads, rows and bounds.
THEOREM TypeCorrect == Spec => []TypeOK
<1>1. TypeOK /\ [Next]_vars => TypeOK'
  <2>. SUFFICES ASSUME TypeOK, [Next]_vars  PROVE TypeOK'
    OBVIOUS
  <2>. QED  BY CallTypes, HostTypes, OtherTypes DEF Next, Host
<1>. QED  BY InitTypes, <1>1, PTL DEF Spec
---------------------------------------------------------------------------
(* The host makes the access that is due.                                  *)

LEMMA Dispatch ==
  ASSUME Host
  PROVE  /\ outcome = "busy" /\ op' = op /\ calls' = calls /\ before' = before
         /\ executed' = executed
         /\ script' = Tail(script) /\ outcome' = (IF script' = <<>> THEN "ok" ELSE "busy")
         /\ Head(script).do = "select" => Select
         /\ Head(script).do \in {"reg0", "reg1"} => SetLines
         /\ Head(script).do = "reg2" => WriteReg2
         /\ Head(script).do = "sentinel" => WriteSentinel
         /\ Head(script).do = "await" => Await
         /\ Head(script).do = "line" => ReadLine
         /\ Head(script).do \in {"ready", "drained"} => Poll
         /\ Head(script).do \in {"claim", "release"} => Claim
         /\ Head(script).do = "stage" => Stage
         /\ Head(script).do = "push" => Push
         /\ Head(script).do \in {"enable", "row"} => SetArray
         /\ Head(script).do = "array" => ReadArray
<1>1. \E result : GoOn(result)
  <2>1. CASE ReadArray
    BY <2>1, Zenon DEF ReadArray
  <2>2. CASE ~ReadArray
    BY <2>2 DEF Host, Select, ReadData, SetLines, WriteReg2, WriteSentinel, Await, ReadLine,
                Poll, Claim, Stage, Push, SetArray
  <2>. QED  BY <2>1, <2>2
<1>2. outcome = "busy"
  BY DEF Host, Select, ReadData, SetLines, WriteReg2, WriteSentinel, Await, ReadLine, Poll,
         Claim, Stage, Push, SetArray, ReadArray, Due
<1>3. /\ Select => Head(script).do = "select"
      /\ ReadData => Head(script).do = "data"
      /\ SetLines => Head(script).do \in {"reg0", "reg1"}
      /\ WriteReg2 => Head(script).do = "reg2"
      /\ WriteSentinel => Head(script).do = "sentinel"
      /\ Await => Head(script).do = "await"
      /\ ReadLine => Head(script).do = "line"
      /\ Poll => Head(script).do \in {"ready", "drained"}
      /\ Claim => Head(script).do \in {"claim", "release"}
      /\ Stage => Head(script).do = "stage"
      /\ Push => Head(script).do = "push"
      /\ SetArray => Head(script).do \in {"enable", "row"}
      /\ ReadArray => Head(script).do = "array"
  BY DEF Select, ReadData, SetLines, WriteReg2, WriteSentinel, Await, ReadLine, Poll, Claim,
         Stage, Push, SetArray, ReadArray, Due
<1>4. /\ op' = op /\ calls' = calls /\ before' = before /\ executed' = executed
      /\ script' = Tail(script) /\ outcome' = (IF script' = <<>> THEN "ok" ELSE "busy")
  BY <1>1, Zenon DEF GoOn, history
<1>. DEFINE due == Head(script).do
<1>. HIDE DEF due
<1>5. /\ (due = "select" => Select) /\ (due \in {"reg0", "reg1"} => SetLines)
      /\ (due = "reg2" => WriteReg2) /\ (due = "sentinel" => WriteSentinel)
      /\ (due = "await" => Await) /\ (due = "line" => ReadLine)
      /\ (due \in {"ready", "drained"} => Poll) /\ (due \in {"claim", "release"} => Claim)
      /\ (due = "stage" => Stage) /\ (due = "push" => Push)
      /\ (due \in {"enable", "row"} => SetArray) /\ (due = "array" => ReadArray)
  BY <1>3 DEF Host, due
<1>. QED  BY <1>2, <1>4, <1>5 DEF due

\* What is left when the k-th access of a script is due.
LEMMA Left ==
  ASSUME NEW T, NEW s \in Seq(T), NEW k \in 1..Len(s)
  PROVE  /\ From(s, k) # <<>> /\ Head(From(s, k)) = s[k] /\ Tail(From(s, k)) = From(s, k + 1)
         /\ From(s, k + 1) = <<>> <=> k = Len(s)
<1>1. Len(s) \in Nat /\ <<>> \in Seq(T)
  BY LenIsNat, EmptySeq
<1>2. \A j \in 1..(Len(s) + 1) : From(s, j) \in Seq(T) /\ Len(From(s, j)) = Len(s) - j + 1
  <2>. SUFFICES ASSUME NEW j \in 1..(Len(s) + 1)
                PROVE  From(s, j) \in Seq(T) /\ Len(From(s, j)) = Len(s) - j + 1
    OBVIOUS
  <2>1. j \in Int /\ Len(s) \in Int /\ \A i \in j..Len(s) : s[i] \in T
    BY <1>1, ElementOfSeq
  <2>2. /\ SubSeq(s, j, Len(s)) \in Seq(T)
        /\ Len(SubSeq(s, j, Len(s))) = IF j <= Len(s) THEN Len(s) - j + 1 ELSE 0
    BY ONLY <2>1, SubSeqProperties
  <2>. QED  BY <1>1, <2>2 DEF From
<1>3. k \in 1..(Len(s) + 1) /\ k + 1 \in 1..(Len(s) + 1)
  BY <1>1
<1>4. From(s, k) \o <<>> = From(s, k) /\ From(s, k + 1) \o <<>> = From(s, k + 1)
  BY <1>2, <1>3, ConcatEmptySeq
<1>5. From(s, k + 1) = <<>> <=> k = Len(s)
  <2>1. From(s, k + 1) \in Seq(T) /\ Len(From(s, k + 1)) = Len(s) - (k + 1) + 1
    BY <1>2, <1>3
  <2>2. From(s, k + 1) = <<>> <=> Len(From(s, k + 1)) = 0
    BY ONLY <2>1, LenIsNat
  <2>. QED  BY <1>1, <2>1, <2>2
<1>6. /\ From(s, k) \o <<>> # <<>> /\ Head(From(s, k) \o <<>>) = s[k]
      /\ Tail(From(s, k) \o <<>>) = From(s, k + 1) \o <<>>
  BY <1>1, LeftOver
<1>7. /\ From(s, k) # <<>> /\ Head(From(s, k)) = s[k] /\ Tail(From(s, k)) = From(s, k + 1)
  <2>. DEFINE f == From(s, k) \o <<>>
              g == From(s, k + 1) \o <<>>
  <2>1. f = From(s, k) /\ g = From(s, k + 1)
    BY <1>4
  <2>2. f # <<>> /\ Head(f) = s[k] /\ Tail(f) = g
    BY <1>6
  <2>. HIDE DEF f, g
  <2>. QED  BY ONLY <2>1, <2>2
<1>. QED  BY <1>5, <1>7

\* A step that makes no access of the host.
Hardware == TakeSample \/ \E t \in Threads : ProgramPushes(t) \/ ExecuteNext(t)
---------------------------------------------------------------------------
(* The samples are those of the call.                                      *)

Sampling == outcome = "busy" /\ op.method = "sample_signal_group"
Last == op.at + op.samples - 1
Fetched(n) == [i \in 1..n |-> Line(op.group, calls)]

\* The sampler, from the trigger on: it has written the lines before its next
\* one, and the last line holds the sentinel until that one is written too.
SamplerOK ==
  /\ line \in op.at..(Last + 1)
  /\ \A x \in op.at..(line - 1) : l1[x] = Line(op.group, calls)
  /\ line <= Last => l1[Last] = Line("sentinel", calls)
  /\ sampling <=> line <= Last

\* When the k-th access is due: what those before it have set up.
Arranged(k) ==
  LET n == SetUp(op.samples) IN
  /\ k >= 2 => select.group = op.group
  /\ 3 <= k /\ k <= n + 2 => ~sampling /\ ~trigger
  /\ k >= 4 => reg0 = op.at
  /\ op.samples > 1 /\ k >= 5 => reg1 = op.at + op.samples
  /\ k > n => mode = Mode(op.samples)
  /\ k = n + 2 => l1[Last] = Line("sentinel", calls)
  /\ k >= n + 3 => SamplerOK
  /\ k >= n + 5 => line = Last + 1

SampleAt(k) ==
  /\ k \in 1..Len(Script(op)) /\ script = From(Script(op), k)
  /\ Arranged(k)
  /\ got = [i \in 1..(k - (SetUp(op.samples) + 5)) |-> Line(op.group, calls)]

SampleOK == Sampling => Fits(op) /\ \E k \in 1..Len(Script(op)) : SampleAt(k)

SampleInv == SampleOK /\ SamplesExact

LEMMA FetchesMore ==
  ASSUME CallOK, op \in Ops, op.method = "sample_signal_group"
  PROVE  /\ \A n \in Int : n <= 0 => Fetched(n) = <<>>
         /\ \A n \in Nat : Fetched(n) \o <<Line(op.group, calls)>> = Fetched(n + 1)
<1>. DEFINE l == Line(op.group, calls)
<1>1. ASSUME NEW n \in Int, n <= 0  PROVE Fetched(n) = <<>>
  <2>1. Fetched(n) = [i \in 1..n |-> l] /\ 1..n = {}
    BY <1>1 DEF Fetched
  <2>2. Fetched(n) = [i \in 1..0 |-> l]
    BY <2>1
  <2>. HIDE DEF l
  <2>3. [i \in 1..0 |-> l] \in Seq({l}) /\ Len([i \in 1..0 |-> l]) = 0
    OBVIOUS
  <2>. QED  BY <2>2, <2>3, EmptySeq
<1>2. ASSUME NEW n \in Nat  PROVE Fetched(n) \o <<l>> = Fetched(n + 1)
  <2>1. Fetched(n) = [i \in 1..n |-> l] /\ Fetched(n + 1) = [i \in 1..(n + 1) |-> l]
    BY DEF Fetched
  <2>. HIDE DEF l
  <2>2. [i \in 1..n |-> l] \o <<l>> = [i \in 1..(n + 1) |-> l]
    OBVIOUS
  <2>. QED  BY <2>1, <2>2
<1>. QED  BY <1>1, <1>2

\* The accesses of a sampling, one by one.
LEMMA SampleHost ==
  ASSUME TypeOK, SampleOK, Sampling, Host
  PROVE  SampleInv'
<1>. DEFINE S == Script(op)
            n == SetUp(op.samples)
            m == op.samples
<1>1. /\ op \in Ops /\ Fits(op) /\ op.group \in Groups /\ op.at \in 0..LastLine
      /\ m \in Nat \ {0} /\ Last \in 0..LastLine /\ op.at <= Last /\ Last = op.at + m - 1
      /\ n \in {4, 5} /\ (m > 1 <=> n = 5)
  <2>1. op \in Ops /\ Fits(op)
    BY DEF TypeOK, CallOK, Sampling, SampleOK
  <2>2. op.group \in Groups /\ op.at \in 0..LastLine /\ m \in 1..MaxSamples
    BY <2>1 DEF Ops, Sampling
  <2>. QED  BY <2>1, <2>2, WorkerAssumption DEF Fits, Last, SetUp
<1>2. PICK k \in 1..Len(S) : /\ script = From(S, k) /\ Arranged(k) /\ got = Fetched(k - (n + 5))
  BY DEF SampleOK, SampleAt, Fetched
<1>3. /\ S \in Seq(OnBus) /\ Len(S) = n + 4 + m
      /\ S[1] = With("select", Word(op.group, 0)) /\ S[2] = Reg2("prepare", FALSE)
      /\ S[3] = With("reg0", op.at)
      /\ m > 1 => S[4] = With("reg1", op.at + m)
      /\ S[n] = Reg2(Mode(m), FALSE)
      /\ S[n + 1] = With("sentinel", Last)
      /\ S[n + 2] = Reg2(Mode(m), TRUE) /\ S[n + 3] = Reg2(Mode(m), FALSE)
      /\ S[n + 4] = With("await", Last)
      /\ \A i \in 1..m : S[n + 4 + i] = With("line", op.at + i - 1)
  BY <1>1, SampleAccesses DEF Last, Sampling
<1>4. /\ script # <<>> /\ Head(script) = S[k]
      /\ script' = From(S, k + 1) /\ (script' = <<>> <=> k = Len(S))
  BY <1>2, <1>3, Left, Dispatch
<1>5. /\ op' = op /\ calls' = calls /\ Script(op)' = S /\ Last' = Last
      /\ outcome' = (IF script' = <<>> THEN "ok" ELSE "busy")
  BY Dispatch DEF Last
<1>. HIDE DEF S, n, m
<1>6. SUFFICES Arranged(k + 1)' /\ got' = Fetched((k + 1) - (n + 5))
  <2>1. (SetUp(op.samples) = n)' /\ (\A j : Fetched(j)' = Fetched(j))
    BY <1>5 DEF n, Fetched
  <2>2. CASE k = Len(S)
    <3>1. got' = [i \in 1..op'.samples |-> Line(op'.group, calls')]
      <4>1. (k + 1) - (n + 5) = m
        BY <1>1, <1>3, <2>2
      <4>2. got' = Fetched(m)
        BY ONLY <1>6, <4>1
      <4>. QED  BY <1>5, <4>2 DEF Fetched, m
    <3>2. outcome' = "ok"
      BY <1>4, <1>5, <2>2
    <3>. QED  BY <3>1, <3>2 DEF SampleInv, SampleOK, SamplesExact, Sampling
  <2>3. CASE k # Len(S)
    <3>1. k + 1 \in 1..Len(S) /\ outcome' = "busy"
      BY <1>1, <1>3, <1>4, <1>5, <2>3
    <3>2. Fits(op)'
      BY <1>1, <1>5 DEF Fits
    <3>3. SampleOK'
      <4>1. (k + 1 \in 1..Len(Script(op)))' /\ (script = From(Script(op), k + 1))'
        BY <1>4, <1>5, <3>1 DEF S, From
      <4>2. got' = [i \in 1..((k + 1) - (n + 5)) |-> Line(op'.group, calls')]
        BY <1>5, <1>6 DEF Fetched
      <4>3. n = SetUp(op'.samples)
        BY <1>5 DEF n
      <4>. HIDE DEF S
      <4>4. SampleAt(k + 1)'
        BY <1>6, <4>1, <4>2, <4>3 DEF SampleAt
      <4>. QED  BY ONLY <3>2, <4>1, <4>4 DEF SampleOK
    <3>4. SamplesExact'
      BY <3>1 DEF SamplesExact, Ended
    <3>. QED  BY <3>3, <3>4 DEF SampleInv
  <2>. QED  BY <2>2, <2>3
\* The accesses that return nothing.
<1>7. k <= n + 4 /\ got' = got \o <<>> => got' = Fetched((k + 1) - (n + 5))
  <2>. SUFFICES ASSUME k <= n + 4, got' = got \o <<>>  PROVE got' = Fetched((k + 1) - (n + 5))
    OBVIOUS
  <2>1. /\ k - (n + 5) \in Int /\ k - (n + 5) <= 0
        /\ (k + 1) - (n + 5) \in Int /\ (k + 1) - (n + 5) <= 0
    BY <1>1
  <2>2. Fetched(k - (n + 5)) = <<>> /\ Fetched((k + 1) - (n + 5)) = <<>>
    BY <1>1, <2>1, FetchesMore DEF TypeOK, Sampling
  <2>3. <<>> \o <<>> = <<>>
    BY EmptySeq, ConcatEmptySeq
  <2>. QED  BY <1>2, <2>2, <2>3
<1>8. got \in Seq(Results) /\ got \o <<>> = got
  BY ConcatEmptySeq DEF TypeOK, CallOK
<1>9. (SetUp(op.samples) = n)' /\ SetUp(op.samples) = n /\ op.samples = m /\ (op.samples = m)'
  BY <1>5 DEF n, m
<1>10. BusOK /\ BusOK'
  BY HostTypes DEF TypeOK
<1>11. \A mo, tr : Head(script) = Reg2(mo, tr)
                    => WriteReg2 /\ GoOn(<<>>) /\ Arg.mode = mo /\ Arg.trigger = tr
  <2>1. ASSUME NEW mo, NEW tr, Head(script) = Reg2(mo, tr)
        PROVE  WriteReg2 /\ Arg.mode = mo /\ Arg.trigger = tr
    BY <2>1, Dispatch DEF With, Reg2, Arg
  <2>2. WriteReg2 => GoOn(<<>>)
    BY Zenon DEF WriteReg2
  <2>. QED  BY <2>1, <2>2
<1>12. ASSUME NEW j \in Int, j >= n + 3
       PROVE  /\ Arranged(j) <=> /\ select.group = op.group /\ reg0 = op.at /\ mode = Mode(m)
                                 /\ m > 1 => reg1 = op.at + m
                                 /\ SamplerOK
                                 /\ j >= n + 5 => line = Last + 1
              /\ Arranged(j)' <=> /\ select'.group = op.group /\ reg0' = op.at
                                  /\ mode' = Mode(m)
                                  /\ m > 1 => reg1' = op.at + m
                                  /\ SamplerOK'
                                  /\ j >= n + 5 => line' = Last + 1
  <2>1. /\ j >= 2 /\ ~(3 <= j /\ j <= n + 2) /\ j >= 4 /\ j >= 5 /\ j > n /\ j # n + 2
        /\ j >= n + 3
    BY <1>1, <1>12
  <2>. QED  BY ONLY <1>5, <1>9, <2>1 DEF Arranged
<1>13. CASE k = 1
  <2>1. Head(script) = With("select", Word(op.group, 0))
    BY <1>3, <1>4, <1>13
  <2>2. select' = Word(op.group, 0) /\ GoOn(<<>>)
    BY <2>1, Dispatch DEF With, Select, Arg
  <2>3. Arranged(k + 1)'
    BY <1>1, <1>5, <1>9, <1>13, <2>2 DEF Arranged, Word
  <2>. QED  BY <1>1, <1>7, <1>13, <2>2, <2>3 DEF GoOn
<1>14. CASE k = 2
  <2>1. Head(script) = Reg2("prepare", FALSE)
    BY <1>3, <1>4, <1>14
  <2>2. WriteReg2 /\ Arg.trigger = FALSE /\ Arg.mode = "prepare" /\ GoOn(<<>>)
    BY <1>11, <2>1
  <2>3. select' = select /\ sampling' = FALSE /\ trigger' = FALSE
    BY <2>2 DEF WriteReg2
  <2>4. Arranged(k + 1)'
    BY <1>1, <1>2, <1>5, <1>9, <1>14, <2>3 DEF Arranged
  <2>. QED  BY <1>1, <1>7, <1>14, <2>2, <2>4 DEF GoOn
<1>15. CASE k = 3
  <2>1. Head(script) = With("reg0", op.at)
    BY <1>3, <1>4, <1>15
  <2>2. SetLines /\ reg0' = op.at /\ GoOn(<<>>)
    BY <2>1, Dispatch DEF With, SetLines, Due, Arg
  <2>3. UNCHANGED <<select, sampling, trigger>>
    BY <2>2 DEF SetLines
  <2>4. Arranged(k + 1)'
    BY <1>1, <1>2, <1>5, <1>9, <1>15, <2>2, <2>3 DEF Arranged
  <2>. QED  BY <1>1, <1>7, <1>15, <2>2, <2>4 DEF GoOn
<1>16. CASE k = 4 /\ n = 5
  <2>1. Head(script) = With("reg1", op.at + m)
    BY <1>1, <1>3, <1>4, <1>16
  <2>2. SetLines /\ reg1' = op.at + m /\ reg0' = reg0 /\ GoOn(<<>>)
    BY <2>1, Dispatch DEF With, SetLines, Due, Arg
  <2>3. UNCHANGED <<select, sampling, trigger>>
    BY <2>2 DEF SetLines
  <2>4. Arranged(k + 1)'
    BY <1>1, <1>2, <1>5, <1>9, <1>16, <2>2, <2>3 DEF Arranged
  <2>. QED  BY <1>1, <1>7, <1>16, <2>2, <2>4 DEF GoOn
<1>17. CASE k = n
  <2>1. Head(script) = Reg2(Mode(m), FALSE)
    BY <1>3, <1>4, <1>17
  <2>2. WriteReg2 /\ Arg.trigger = FALSE /\ Arg.mode = Mode(m) /\ GoOn(<<>>)
    BY <1>11, <2>1
  <2>3. ~sampling /\ ~trigger
    <3>1. 3 <= k /\ k <= n + 2
      BY <1>1, <1>17
    <3>. QED  BY ONLY <1>2, <1>9, <3>1 DEF Arranged
  <2>4. /\ UNCHANGED <<select, reg0, reg1>> /\ ~sampling' /\ ~trigger' /\ mode' = Mode(m)
    BY <2>2, <2>3 DEF WriteReg2
  <2>5. Arranged(k + 1)'
    BY <1>1, <1>2, <1>5, <1>9, <1>17, <2>4 DEF Arranged
  <2>. QED  BY <1>1, <1>7, <1>17, <2>2, <2>5 DEF GoOn
<1>18. CASE k = n + 1
  <2>1. Head(script) = With("sentinel", Last)
    BY <1>3, <1>4, <1>18
  <2>2. WriteSentinel /\ l1' = [l1 EXCEPT ![Last] = Line("sentinel", calls)] /\ GoOn(<<>>)
    BY <2>1, Dispatch DEF With, WriteSentinel, Arg
  <2>3. UNCHANGED <<select, sampling, trigger, reg0, reg1, mode>>
    BY <2>2 DEF WriteSentinel
  <2>4. l1'[Last] = Line("sentinel", calls)
    BY <1>1, <1>10, <2>2 DEF BusOK
  <2>5. Arranged(k + 1)'
    BY <1>1, <1>2, <1>5, <1>9, <1>18, <2>3, <2>4 DEF Arranged, Line
  <2>. QED  BY <1>1, <1>7, <1>18, <2>2, <2>5 DEF GoOn
<1>19. CASE k = n + 2
  <2>1. Head(script) = Reg2(Mode(m), TRUE)
    BY <1>3, <1>4, <1>19
  <2>2. WriteReg2 /\ Arg.trigger = TRUE /\ Arg.mode = Mode(m) /\ GoOn(<<>>)
    BY <1>11, <2>1
  <2>3. ~sampling /\ ~trigger /\ reg0 = op.at
    BY <1>1, <1>2, <1>9, <1>19 DEF Arranged
  <2>4. /\ UNCHANGED <<select, reg0, reg1, l1>> /\ sampling' = TRUE /\ mode' = Mode(m)
        /\ line' = op.at
    BY <2>2, <2>3 DEF WriteReg2
  <2>5. SamplerOK'
    BY <1>1, <1>2, <1>5, <1>9, <1>19, <2>4, SMTT(20) DEF Arranged, SamplerOK, Line
  <2>6. Arranged(k + 1)'
    BY <1>1, <1>2, <1>5, <1>9, <1>19, <2>4, <2>5 DEF Arranged
  <2>. QED  BY <1>1, <1>7, <1>19, <2>2, <2>6 DEF GoOn
<1>20. CASE k = n + 3
  <2>1. Head(script) = Reg2(Mode(m), FALSE)
    BY <1>3, <1>4, <1>20
  <2>2. WriteReg2 /\ Arg.trigger = FALSE /\ Arg.mode = Mode(m) /\ GoOn(<<>>)
    BY <1>11, <2>1
  <2>3. Mode(m) # "prepare"
    BY DEF Mode
  <2>4. /\ UNCHANGED <<select, reg0, reg1, l1, line, sampling>> /\ mode' = Mode(m)
    BY <1>10, <2>2, <2>3 DEF WriteReg2, BusOK
  <2>5. Arranged(k) /\ SamplerOK
    BY <1>1, <1>2, <1>20, <1>12
  <2>6. SamplerOK'
    BY <1>5, <2>4, <2>5 DEF SamplerOK, Line
  <2>7. Arranged(k + 1)'
    <3>1. /\ k \in Int /\ k + 1 \in Int /\ k >= n + 3 /\ k + 1 >= n + 3 /\ ~(k + 1 >= n + 5)
      BY <1>1, <1>20
    <3>. QED  BY ONLY <1>12, <2>4, <2>5, <2>6, <3>1
  <2>. QED  BY <1>1, <1>7, <1>20, <2>2, <2>7 DEF GoOn
<1>21. CASE k = n + 4
  <2>1. Head(script) = With("await", Last)
    BY <1>3, <1>4, <1>21
  <2>2. Await /\ l1[Last].group # "sentinel" /\ GoOn(<<>>) /\ UNCHANGED bus
    BY <2>1, Dispatch DEF With, Await, Arg
  <2>3. SamplerOK
    BY <1>1, <1>2, <1>9, <1>21 DEF Arranged
  <2>4. line = Last + 1
    BY <1>1, <2>2, <2>3 DEF SamplerOK, Line
  <2>5. SamplerOK'
    BY <1>5, <2>2, <2>3 DEF SamplerOK, Line, bus
  <2>6. Arranged(k + 1)'
    <3>1. line' = Last + 1 /\ UNCHANGED <<select, reg0, reg1, mode>>
      BY <2>2, <2>4 DEF bus
    <3>2. k \in Int /\ k + 1 \in Int /\ k >= n + 3 /\ k + 1 >= n + 3
      BY <1>1, <1>21
    <3>. QED  BY ONLY <1>2, <1>12, <2>5, <3>1, <3>2
  <2>. QED  BY <1>1, <1>7, <1>21, <2>2, <2>6 DEF GoOn
<1>22. CASE k > n + 4
  <2>. DEFINE i == k - (n + 4)
  <2>1. i \in 1..m /\ n + 4 + i = k
    BY <1>1, <1>3, <1>22
  <2>2. Head(script) = With("line", op.at + i - 1)
    BY <1>3, <1>4, <2>1
  <2>. HIDE DEF i
  <2>3. ReadLine /\ GoOn(<<l1[op.at + i - 1]>>) /\ UNCHANGED bus
    BY <2>2, Dispatch DEF With, ReadLine, Arg
  <2>4. SamplerOK /\ line = Last + 1
    BY <1>1, <1>2, <1>9, <1>22 DEF Arranged
  <2>5. op.at + i - 1 \in op.at..(line - 1)
    <3>1. line = op.at + m
      BY <1>1, <2>4
    <3>2. op.at \in Int
      BY <1>1
    <3>. HIDE DEF m
    <3>. QED  BY <1>1, <2>1, <3>1, <3>2
  <2>6. got' = got \o <<Line(op.group, calls)>>
    BY <2>3, <2>4, <2>5 DEF SamplerOK, GoOn
  <2>7. /\ k - (n + 5) \in Nat /\ (k + 1) - (n + 5) = k - (n + 5) + 1
    BY <1>1, <1>22
  <2>8. got' = Fetched((k + 1) - (n + 5))
    BY <1>1, <1>2, <2>6, <2>7, FetchesMore DEF TypeOK, Sampling
  <2>9. SamplerOK'
    BY <1>5, <2>3, <2>4 DEF SamplerOK, Line, bus
  <2>10. Arranged(k + 1)'
    <3>1. line' = Last + 1 /\ UNCHANGED <<select, reg0, reg1, mode>>
      BY <2>3, <2>4 DEF bus
    <3>2. k \in Int /\ k + 1 \in Int /\ k >= n + 3 /\ k + 1 >= n + 3
      BY <1>1, <1>22
    <3>. QED  BY ONLY <1>2, <1>12, <2>9, <3>1, <3>2
  <2>. QED  BY <2>8, <2>10
<1>. QED
  BY <1>1, <1>13, <1>14, <1>15, <1>16, <1>17, <1>18, <1>19, <1>20, <1>21, <1>22

\* The sampler writes a line while the host goes on, or before the trigger.
LEMMA SampleTaken ==
  ASSUME TypeOK, SampleInv, TakeSample
  PROVE  SampleInv'
<1>1. /\ UNCHANGED <<op, script, got, outcome, calls, select, reg0, reg1, mode, trigger>>
      /\ sampling /\ line \in 0..LastLine /\ line' = line + 1
      /\ l1' = [l1 EXCEPT ![line] = Line(select.group, calls)]
      /\ sampling' = (mode = "many" /\ line + 1 < reg1)
  BY DEF TakeSample
<1>2. SamplesExact'
  BY <1>1 DEF SampleInv, SamplesExact, Ended
<1>3. SampleOK'
  <2>. SUFFICES ASSUME Sampling'  PROVE SampleOK'
    BY DEF SampleOK
  <2>1. Sampling /\ Fits(op)' /\ op \in Ops
    BY <1>1 DEF Sampling, SampleInv, SampleOK, Fits, TypeOK, CallOK
  <2>2. PICK k \in 1..Len(Script(op)) : SampleAt(k)
    BY <2>1 DEF SampleInv, SampleOK
  <2>3. Arranged(k)'
    <3>. DEFINE n == SetUp(op.samples)
                m == op.samples
    <3>1. /\ op.at \in Nat /\ m \in Nat \ {0} /\ Last \in 0..LastLine /\ Last = op.at + m - 1
          /\ n \in {4, 5} /\ (m > 1 <=> n = 5)
      <4>1. op.at \in 0..LastLine /\ m \in 1..MaxSamples
        BY <2>1 DEF Ops, Sampling
      <4>2. Fits(op)
        BY <2>1 DEF SampleInv, SampleOK
      <4>3. m \in Nat \ {0} /\ op.at \in Nat /\ Last = op.at + m - 1
        BY ONLY <4>1, Bounds DEF Last
      <4>4. Last \in 0..LastLine
        <5>1. Last <= LastLine
          BY <4>2 DEF Fits, Last
        <5>. HIDE DEF m
        <5>. QED  BY ONLY <4>3, <5>1, Bounds
      <4>5. n \in {4, 5} /\ (m > 1 <=> n = 5)
        BY DEF SetUp
      <4>. QED  BY <4>3, <4>4, <4>5
    <3>2. k \in Int /\ Arranged(k)
      BY <2>2 DEF SampleAt
    <3>3. /\ SetUp(op.samples) = n /\ (SetUp(op.samples) = n)' /\ op.samples = m /\ op' = op
          /\ Last' = Last
      BY <1>1 DEF Last
    <3>. HIDE DEF n, m
    <3>4. CASE k < n + 3
      <4>1. ~(3 <= k /\ k <= n + 2)
        BY ONLY <1>1, <3>2, <3>3 DEF Arranged
      <4>2. k <= 2
        BY <3>1, <3>2, <3>4, <4>1
      <4>3. /\ ~(3 <= k /\ k <= n + 2) /\ ~(k >= 4) /\ ~(k >= 5) /\ ~(k > n) /\ k # n + 2
            /\ ~(k >= n + 3) /\ ~(k >= n + 5)
        BY <3>1, <3>2, <4>2
      <4>. QED  BY ONLY <1>1, <3>2, <3>3, <4>3 DEF Arranged
    <3>5. CASE k >= n + 3
      <4>1. /\ k > n /\ k >= 4 /\ k >= 5 /\ k >= 2
        BY <3>1, <3>2, <3>5
      <4>2. /\ SamplerOK /\ select.group = op.group /\ reg0 = op.at /\ mode = Mode(m)
            /\ (m > 1 => reg1 = op.at + m) /\ (k >= n + 5 => line = Last + 1)
        BY ONLY <3>2, <3>3, <3>5, <4>1 DEF Arranged
      <4>3. line <= Last /\ line \in op.at..Last /\ line \in Int
        BY <1>1, <3>1, <4>2 DEF SamplerOK
      <4>4. l1'[line] = Line(op.group, calls)
            /\ \A x \in 0..LastLine : x # line => l1'[x] = l1[x]
        BY <1>1, <4>2 DEF TypeOK, BusOK
      <4>5. SamplerOK'
        <5>1. line' \in op.at..(Last + 1)
          BY <1>1, <3>1, <4>3
        <5>2. \A x \in op.at..(line' - 1) : l1'[x] = Line(op.group, calls)
          <6>. SUFFICES ASSUME NEW x \in op.at..(line' - 1)  PROVE l1'[x] = Line(op.group, calls)
            OBVIOUS
          <6>1. x \in 0..LastLine /\ (x # line => x \in op.at..(line - 1))
            <7>1. op.at \in Nat /\ LastLine \in Nat /\ Last <= LastLine /\ line' - 1 = line
              BY <1>1, <3>1, <4>3, WorkerAssumption
            <7>. QED  BY ONLY <3>1, <4>3, <7>1, x \in op.at..(line' - 1)
          <6>. QED  BY <4>2, <4>4, <6>1 DEF SamplerOK
        <5>3. line' <= Last => l1'[Last] = Line("sentinel", calls)
          BY <1>1, <3>1, <4>2, <4>3, <4>4 DEF SamplerOK
        <5>4. sampling' <=> line' <= Last
          <6>1. CASE m > 1
            <7>1. mode = "many" /\ reg1 = op.at + m
              BY <4>2, <6>1 DEF Mode
            <7>2. line + 1 < op.at + m <=> line + 1 <= Last
              BY ONLY <3>1, <4>3
            <7>. QED  BY ONLY <1>1, <7>1, <7>2
          <6>2. CASE ~(m > 1)
            <7>1. mode = "one"
              BY <4>2, <6>2 DEF Mode
            <7>2. ~(line + 1 <= Last)
              BY ONLY <3>1, <4>3, <6>2
            <7>. QED  BY ONLY <1>1, <7>1, <7>2
          <6>. QED  BY <6>1, <6>2
        <5>. QED  BY <1>1, <3>3, <5>1, <5>2, <5>3, <5>4 DEF SamplerOK
      <4>6. ~(k >= n + 5)
        BY <3>1, <4>2, <4>3
      <4>7. ~(3 <= k /\ k <= n + 2) /\ k # n + 2
        BY <3>1, <3>2, <3>5
      <4>. QED  BY ONLY <1>1, <3>3, <3>5, <4>1, <4>2, <4>5, <4>6, <4>7 DEF Arranged
    <3>. QED  BY <3>1, <3>2, <3>4, <3>5
  <2>4. SampleAt(k)'
    BY <1>1, <2>2, <2>3 DEF SampleAt, From
  <2>5. (k \in 1..Len(Script(op)))'
    BY <1>1
  <2>. QED  BY <2>1, <2>4, <2>5 DEF SampleOK
<1>. QED  BY <1>2, <1>3 DEF SampleInv

LEMMA SampleStep == TypeOK /\ SampleInv /\ [Next]_vars => SampleInv'
<1>. SUFFICES ASSUME TypeOK, SampleInv, [Next]_vars  PROVE SampleInv'
  OBVIOUS
<1>1. ASSUME NEW o \in Ops, Call(o)  PROVE SampleInv'
  <2>1. /\ op' = o /\ script' = Script(o) /\ got' = <<>> /\ outcome' # "ok"
        /\ outcome' = "busy" <=> Script(o) # <<>>
    BY <1>1, Zenon DEF Call
  <2>2. SamplesExact'
    BY <2>1 DEF SamplesExact, Ended
  <2>3. SampleOK'
    <3>. SUFFICES ASSUME Sampling'  PROVE SampleOK'
      BY DEF SampleOK
    <3>1. o.method = "sample_signal_group" /\ Script(o) # <<>>
      BY <2>1 DEF Sampling
    <3>2. Fits(o)
      BY <3>1 DEF Script
    <3>3. Script(o) \in Seq(OnBus) /\ Len(Script(o)) = SetUp(o.samples) + 4 + o.samples
          /\ o.samples \in Nat \ {0} /\ SetUp(o.samples) \in {4, 5}
      <4>1. o.samples \in 1..MaxSamples
        BY <3>1 DEF Ops
      <4>2. o.samples \in Nat \ {0} /\ SetUp(o.samples) \in {4, 5}
        BY ONLY <4>1, Bounds DEF SetUp
      <4>3. Script(o) \in Seq(OnBus) /\ Len(Script(o)) = SetUp(o.samples) + 4 + o.samples
        BY <3>1, <3>2, SampleAccesses
      <4>. QED  BY <4>2, <4>3
    <3>4. Script(o) = From(Script(o), 1) /\ 1 \in 1..Len(Script(o))
      BY <3>3, SubSeqFull DEF From
    <3>5. [i \in 1..(1 - (SetUp(o.samples) + 5)) |-> Line(o.group, calls')] = <<>>
      <4>1. CallOK' /\ (op \in Ops)' /\ (op.method = "sample_signal_group")'
        BY <1>1, <2>1, <3>1, CallTypes DEF TypeOK
      <4>2. (\A n \in Int : n <= 0 => Fetched(n) = <<>>)'
        BY <4>1, FetchesMore, PTL
      <4>. QED  BY <2>1, <3>3, <4>2 DEF Fetched
    <3>6. Arranged(1)'
      BY <2>1, <3>3 DEF Arranged
    <3>7. SampleAt(1)'
      BY <2>1, <3>4, <3>5, <3>6 DEF SampleAt, From
    <3>. QED  BY <2>1, <3>2, <3>4, <3>7 DEF SampleOK, Fits
  <2>. QED  BY <2>2, <2>3 DEF SampleInv
<1>2. CASE Host
  <2>1. CASE Sampling
    BY <1>2, <2>1, SampleHost DEF SampleInv
  <2>2. CASE ~Sampling
    BY <1>2, <2>2, Dispatch DEF SampleInv, SampleOK, SamplesExact, Sampling, Ended
  <2>. QED  BY <2>1, <2>2
<1>3. CASE TakeSample
  BY <1>3, SampleTaken
<1>4. CASE AccessFails
  BY <1>4 DEF AccessFails, SampleInv, SampleOK, SamplesExact, Sampling, Ended
<1>5. CASE UNCHANGED <<bus, op, script, got, outcome, calls>>
  <2>1. SamplesExact'
    BY <1>5 DEF SampleInv, SamplesExact, Ended
  <2>2. ASSUME NEW k, SampleAt(k)  PROVE SampleAt(k)'
    BY <1>5, <2>2 DEF SampleAt, From, Arranged, SamplerOK, Last, bus
  <2>3. SampleOK'
    BY <1>5, <2>2 DEF SampleInv, SampleOK, Sampling, Fits
  <2>. QED  BY <2>1, <2>3 DEF SampleInv
<1>6. ASSUME NEW t \in Threads, ProgramPushes(t) \/ ExecuteNext(t)
      PROVE  UNCHANGED <<bus, op, script, got, outcome, calls>>
  BY <1>6 DEF ProgramPushes, ExecuteNext
<1>7. UNCHANGED vars => UNCHANGED <<bus, op, script, got, outcome, calls>>
  BY DEF vars
<1>. QED  BY <1>1, <1>2, <1>3, <1>4, <1>5, <1>6, <1>7 DEF Next, Host

\* A sampling that returns has the samples that were taken during the call, of
\* its group, whatever was sampled before and whatever an earlier call that
\* raised left in the registers, in L1 or at work: the set-up stops a sampling
\* that goes on, and the sentinel is written before the trigger and awaited
\* before the lines are read (_setup_l1_sampling_configuration,
\* _execute_l1_sampling, _process_l1_samples).
THEOREM SamplesAreExact == Spec => []SamplesExact
<1>1. Init => SampleInv
  BY DEF Init, SampleInv, SampleOK, SamplesExact, Sampling, Ended
<1>2. SampleInv => SamplesExact
  BY DEF SampleInv
<1>. QED  BY TypeCorrect, <1>1, <1>2, SampleStep, PTL DEF Spec
---------------------------------------------------------------------------
(* Injections.  The invariant is about what is left in the FIFOs: of this   *)
(* call, of earlier calls that raised, and of the program.                  *)

\* No instruction of this call is in a FIFO.
Quiet == \A u \in Threads : \A i \in 1..Len(fifo[u]) : fifo[u][i].call # calls

\* The last entry of the FIFO of t is e, the only instruction of this call.
OnlyLast(t, e) ==
  /\ fifo[t] # <<>> /\ fifo[t][Len(fifo[t])] = e
  /\ \A u \in Threads : \A i \in 1..Len(fifo[u]) :
       u # t \/ i # Len(fifo[u]) => fifo[u][i].call # calls

\* When the j-th access of the injection of e.do into t is due.
Injected(t, e, j) ==
  /\ j >= 3 => claim = {t}
  /\ j \in {4, 5} => Len(fifo[t]) < Depth
  /\ j = 5 => staged = e
  /\ j <= 5 => Quiet
  /\ j = 6 => Quiet \/ OnlyLast(t, e)
  /\ j = 7 => Quiet /\ fifo[t] = <<>>

\* Then the instruction has been executed.
Ran(j) == j = 7 \/ (j = 6 /\ Quiet)

Instruction(x, row) == [do |-> x, row |-> row, call |-> calls]

\* Entries are of calls that were made, and only the MathThread is given
\* instructions that read or write DST.
FifosOK ==
  /\ op \in Ops => calls >= 1
  /\ \A u \in Threads : \A i \in 1..Len(fifo[u]) :
       /\ fifo[u][i].call <= calls
       /\ u # MathThread => fifo[u][i].do \notin {"save", "move", "store"}

InjectAt(k) ==
  /\ k \in 1..7 /\ script = From(Inject(With("other", 0), op.thread), k)
  /\ Injected(op.thread, Instruction("other", 0), k)
  /\ executed = IF Ran(k) THEN <<"other">> ELSE <<>>

InjectOK ==
  /\ outcome = "busy" /\ op.method = "inject_instruction" => \E k \in 1..7 : InjectAt(k)
  /\ Ended("inject_instruction") => executed = <<"other">> /\ claim = {} /\ Quiet
---------------------------------------------------------------------------
(* Register files.                                                         *)

\* What is in a FIFO is of the program or of this call.
Fresh(u) == \A i \in 1..Len(fifo[u]) : fifo[u][i] = OfProgram \/ fifo[u][i].call = calls
AllFresh == \A u \in Threads : Fresh(u)

Told == before.clean \/ op.file = "srca"
GotRows(n) ==
  Told => got = [i \in 1..n |-> IF op.file = "dst" /\ i = 1 THEN before.dst0
                                ELSE Row(op.file, i - 1)]

\* Between two rows.
Resting == Quiet /\ (before.clean => AllFresh /\ dst0 = before.dst0)

\* When the k-th access that reads row r of SRCA is due: row 0 of DST is
\* saved, moved over, read and stored.
SavesRow(k) ==
  /\ Injected(MathThread, Instruction("save", 0), k)
  /\ before.clean => AllFresh /\ dst0 = before.dst0 /\ (Ran(k) => saved = before.dst0)

Kept == Fresh(MathThread) /\ (before.clean => AllFresh /\ saved = before.dst0)

MovesRow(r, k) ==
  /\ Injected(MathThread, Instruction("move", r), k)
  /\ Kept /\ (Ran(k) => dst0 = Row("srca", r))

StoresRow(k) ==
  /\ Injected(MathThread, Instruction("store", 0), k)
  /\ Kept /\ (before.clean /\ Ran(k) => dst0 = before.dst0)

SrcaRow(r, k) ==
  /\ k <= 7 => SavesRow(k)
  /\ 8 <= k /\ k <= 14 => MovesRow(r, k - 7)
  /\ k \in {15, 16} => Quiet /\ Kept /\ dst0 = Row("srca", r)
  /\ k = 16 => array_row = 0
  /\ k >= 17 => StoresRow(k - 16)
  /\ GotRows(IF k <= 16 THEN r ELSE r + 1)

DstRow(r, k) == Resting /\ (k = 2 => array_row = r) /\ GotRows(r)

RowAt(r, k) ==
  /\ script = From(ReadRow(op.file, r), k) \o Remaining(op.file, r + 1)
  /\ array_en
  /\ IF op.file = "dst" THEN DstRow(r, k) ELSE SrcaRow(r, k)

StartAt == script = <<With("enable", TRUE)>> \o Remaining(op.file, 0) /\ Resting /\ GotRows(0)

OffAt(k) ==
  script = From(Off, k) /\ Resting /\ (k = 2 => ~array_en) /\ GotRows(LastRow + 1)

Reading ==
  \/ StartAt
  \/ \E r \in 0..LastRow : \E k \in 1..Len(ReadRow(op.file, r)) : RowAt(r, k)
  \/ \E k \in 1..2 : OffAt(k)

FileOK ==
  /\ outcome = "busy" /\ op.method = "read_regfile" => Reading
  /\ Ended("read_regfile") => Resting /\ ~array_en /\ GotRows(LastRow + 1)

InstructionInv == FifosOK /\ InjectOK /\ FileOK
---------------------------------------------------------------------------
(* What a step does to the FIFOs.                                          *)

\* e is added to the FIFO of t.
Added(t, e) == fifo' = [fifo EXCEPT ![t] = Append(fifo[t], e)]

LEMMA Lengths ==
  ASSUME TensixOK
  PROVE  \A u \in Threads : /\ Len(fifo[u]) \in Nat /\ (fifo[u] = <<>> <=> Len(fifo[u]) = 0)
                            /\ \A i \in 1..Len(fifo[u]) : fifo[u][i] \in Insns
<1>. SUFFICES ASSUME NEW u \in Threads
              PROVE  /\ Len(fifo[u]) \in Nat /\ (fifo[u] = <<>> <=> Len(fifo[u]) = 0)
                     /\ \A i \in 1..Len(fifo[u]) : fifo[u][i] \in Insns
  OBVIOUS
<1>1. fifo[u] \in Seq(Insns)
  BY DEF TensixOK
<1>. QED  BY <1>1, LenIsNat, ElementOfSeq

LEMMA AddedTo ==
  ASSUME TensixOK, NEW t \in Threads, NEW e \in Insns, Added(t, e)
  PROVE  /\ Len(fifo'[t]) = Len(fifo[t]) + 1 /\ fifo'[t] # <<>>
         /\ fifo'[t][Len(fifo[t]) + 1] = e
         /\ \A i \in 1..Len(fifo[t]) : fifo'[t][i] = fifo[t][i]
         /\ \A u \in Threads : u # t => fifo'[u] = fifo[u]
<1>1. fifo[t] \in Seq(Insns) /\ fifo'[t] = Append(fifo[t], e)
  BY DEF TensixOK, Added
<1>2. \A u \in Threads : u # t => fifo'[u] = fifo[u]
  BY DEF TensixOK, Added
<1>. QED  BY <1>1, <1>2, AppendProperties

LEMMA TakenFrom ==
  ASSUME TensixOK, NEW t \in Threads, ExecuteNext(t)
  PROVE  /\ Len(fifo[t]) >= 1 /\ Len(fifo'[t]) = Len(fifo[t]) - 1
         /\ Head(fifo[t]) = fifo[t][1]
         /\ fifo'[t] = <<>> <=> Len(fifo[t]) = 1
         /\ \A i \in 1..(Len(fifo[t]) - 1) : fifo'[t][i] = fifo[t][i + 1]
         /\ \A u \in Threads : u # t => fifo'[u] = fifo[u]
<1>1. fifo[t] \in Seq(Insns) /\ fifo[t] # <<>> /\ fifo'[t] = Tail(fifo[t])
  BY DEF TensixOK, ExecuteNext
<1>2. \A u \in Threads : u # t => fifo'[u] = fifo[u]
  BY DEF TensixOK, ExecuteNext
<1>3. Len(fifo[t]) \in Nat /\ Len(fifo[t]) # 0
  BY <1>1, LenIsNat
<1>4. /\ Tail(fifo[t]) \in Seq(Insns) /\ Len(Tail(fifo[t])) = Len(fifo[t]) - 1
      /\ \A i \in 1..Len(Tail(fifo[t])) : Tail(fifo[t])[i] = fifo[t][i + 1]
  BY <1>1, HeadTailProperties
<1>5. Tail(fifo[t]) = <<>> <=> Len(Tail(fifo[t])) = 0
  BY <1>4, LenIsNat
<1>6. Head(fifo[t]) = fifo[t][1]
  BY <1>1
<1>. QED  BY <1>1, <1>2, <1>3, <1>4, <1>5, <1>6

\* An instruction of another call does not matter to this one, and one of this
\* call is e: what else a FIFO holds stays where it is.
LEMMA AddedEntries ==
  ASSUME TensixOK, FifosOK, calls \in Nat, NEW t \in Threads, NEW e \in Insns, Added(t, e),
         calls' = calls, op' = op
  PROVE  /\ e.call # calls /\ Quiet => Quiet'
         /\ Quiet /\ e.call = calls => OnlyLast(t, e)'
         /\ \A u \in Threads : Fresh(u) /\ (e = OfProgram \/ e.call = calls) => Fresh(u)'
         /\ e.call <= calls /\ (t # MathThread => e.do \notin {"save", "move", "store"}) => FifosOK'
<1>1. /\ Len(fifo[t]) \in Nat /\ Len(fifo'[t]) = Len(fifo[t]) + 1 /\ fifo'[t] # <<>>
      /\ fifo'[t][Len(fifo[t]) + 1] = e
      /\ \A i \in 1..Len(fifo[t]) : fifo'[t][i] = fifo[t][i]
      /\ \A u \in Threads : u # t => fifo'[u] = fifo[u]
  BY AddedTo, Lengths
<1>2. ASSUME NEW u \in Threads, NEW i \in 1..Len(fifo'[u])
      PROVE  \/ i \in 1..Len(fifo[u]) /\ fifo'[u][i] = fifo[u][i]
             \/ u = t /\ i = Len(fifo'[t]) /\ fifo'[u][i] = e
  <2>1. CASE u # t
    BY <1>1, <2>1
  <2>2. CASE u = t
    <3>1. i \in 1..Len(fifo[t]) \/ i = Len(fifo[t]) + 1
      BY <1>1, <2>2
    <3>. QED  BY <1>1, <2>2, <3>1
  <2>. QED  BY <2>1, <2>2
<1>3. e.call # calls /\ Quiet => Quiet'
  BY <1>2 DEF Quiet
<1>4. Quiet /\ e.call = calls => OnlyLast(t, e)'
  <2>. SUFFICES ASSUME Quiet, e.call = calls  PROVE OnlyLast(t, e)'
    OBVIOUS
  <2>1. fifo'[t] # <<>> /\ fifo'[t][Len(fifo'[t])] = e
    BY <1>1
  <2>2. ASSUME NEW u \in Threads, NEW i \in 1..Len(fifo'[u]), u # t \/ i # Len(fifo'[u])
        PROVE  fifo'[u][i].call # calls'
    BY <1>2, <2>2 DEF Quiet
  <2>. QED  BY <2>1, <2>2 DEF OnlyLast
<1>5. ASSUME NEW u \in Threads, Fresh(u), e = OfProgram \/ e.call = calls  PROVE Fresh(u)'
  BY <1>2, <1>5 DEF Fresh
<1>6. e.call <= calls /\ (t # MathThread => e.do \notin {"save", "move", "store"}) => FifosOK'
  BY <1>2 DEF FifosOK
<1>. QED  BY <1>3, <1>4, <1>5, <1>6

\* The instruction that a thread executes is of the program, of an earlier
\* call, or e.
LEMMA TakenEntries ==
  ASSUME TensixOK, FifosOK, calls \in Nat, NEW u \in Threads, ExecuteNext(u)
  PROVE  /\ Quiet => Quiet' /\ fifo[u][1].call # calls
         /\ \A w \in Threads : Fresh(w) => Fresh(w)'
         /\ FifosOK'
         /\ \A t \in Threads, e \in Insns : e.call = calls /\ OnlyLast(t, e) =>
              \/ fifo[u][1].call # calls /\ OnlyLast(t, e)'
              \/ u = t /\ fifo[u][1] = e /\ Quiet'
<1>1. /\ Len(fifo[u]) \in Nat /\ Len(fifo[u]) >= 1 /\ Len(fifo'[u]) = Len(fifo[u]) - 1
      /\ fifo'[u] = <<>> <=> Len(fifo[u]) = 1
      /\ \A i \in 1..(Len(fifo[u]) - 1) : fifo'[u][i] = fifo[u][i + 1]
      /\ \A w \in Threads : w # u => fifo'[w] = fifo[w]
  BY TakenFrom, Lengths
<1>2. calls' = calls /\ op' = op
  BY DEF ExecuteNext
<1>3. ASSUME NEW w \in Threads, NEW i \in 1..Len(fifo'[w])
      PROVE  IF w = u THEN i + 1 \in 1..Len(fifo[w]) /\ fifo'[w][i] = fifo[w][i + 1]
             ELSE i \in 1..Len(fifo[w]) /\ fifo'[w][i] = fifo[w][i]
  <2>1. CASE w = u
    <3>1. i \in 1..(Len(fifo[u]) - 1) /\ i + 1 \in 1..Len(fifo[u])
      BY <1>1, <2>1
    <3>. QED  BY <1>1, <2>1, <3>1
  <2>2. CASE w # u
    BY <1>1, <2>2
  <2>. QED  BY <2>1, <2>2
<1>4. ASSUME NEW w \in Threads, NEW i \in 1..Len(fifo'[w])
      PROVE  \E j \in 1..Len(fifo[w]) : fifo'[w][i] = fifo[w][j]
  BY <1>3
<1>5. Quiet => Quiet' /\ fifo[u][1].call # calls
  <2>1. 1 \in 1..Len(fifo[u])
    BY <1>1
  <2>. QED  BY <1>2, <1>4, <2>1 DEF Quiet
<1>6. ASSUME NEW w \in Threads, Fresh(w)  PROVE Fresh(w)'
  BY <1>2, <1>6, <1>4 DEF Fresh
<1>7. FifosOK'
  BY <1>2, <1>4 DEF FifosOK
<1>8. ASSUME NEW t \in Threads, NEW e \in Insns, e.call = calls, OnlyLast(t, e)
      PROVE  \/ fifo[u][1].call # calls /\ OnlyLast(t, e)'
             \/ u = t /\ fifo[u][1] = e /\ Quiet'
  <2>1. CASE u = t /\ Len(fifo[u]) = 1
    <3>1. fifo[u][1] = e
      BY <1>8, <2>1 DEF OnlyLast
    <3>2. Quiet'
      BY <1>1, <1>2, <1>3, <1>8, <2>1 DEF OnlyLast, Quiet
    <3>. QED  BY <2>1, <3>1, <3>2
  <2>2. CASE u = t /\ Len(fifo[u]) # 1
    <3>1. fifo[u][1].call # calls
      BY <1>1, <1>8, <2>2 DEF OnlyLast
    <3>2. /\ Len(fifo'[t]) \in 1..(Len(fifo[t]) - 1) /\ fifo'[t] # <<>>
          /\ Len(fifo'[t]) + 1 = Len(fifo[t])
      BY <1>1, <2>2
    <3>3. fifo'[t][Len(fifo'[t])] = e
      BY <1>1, <1>8, <2>2, <3>2 DEF OnlyLast
    <3>4. ASSUME NEW w \in Threads, NEW i \in 1..Len(fifo'[w]), w # t \/ i # Len(fifo'[w])
          PROVE  fifo'[w][i].call # calls
      <4>1. CASE w = t
        <5>1. i + 1 \in 1..Len(fifo[t]) /\ i + 1 # Len(fifo[t]) /\ fifo'[w][i] = fifo[t][i + 1]
          BY <1>1, <1>3, <2>2, <3>2, <3>4, <4>1
        <5>. QED  BY <1>8, <5>1 DEF OnlyLast
      <4>2. CASE w # t
        BY <1>3, <1>8, <2>2, <4>2 DEF OnlyLast
      <4>. QED  BY <4>1, <4>2
    <3>. QED  BY <1>2, <3>1, <3>2, <3>3, <3>4 DEF OnlyLast
  <2>3. CASE u # t
    <3>1. fifo[u][1].call # calls
      BY <1>1, <1>8, <2>3 DEF OnlyLast
    <3>2. fifo'[t] = fifo[t]
      BY <1>1, <2>3
    <3>3. ASSUME NEW w \in Threads, NEW i \in 1..Len(fifo'[w]), w # t \/ i # Len(fifo'[w])
          PROVE  fifo'[w][i].call # calls
      BY <1>3, <1>8, <2>3, <3>2, <3>3, SMTT(20) DEF OnlyLast
    <3>. QED  BY <1>2, <1>8, <3>1, <3>2, <3>3 DEF OnlyLast
  <2>. QED  BY <2>1, <2>2, <2>3
<1>. QED  BY <1>5, <1>6, <1>7, <1>8
---------------------------------------------------------------------------
(* An injection, while the hardware and the program go on.                 *)

\* The program pushes into a FIFO that is not claimed.
LEMMA ProgramStep ==
  ASSUME TypeOK, FifosOK, calls >= 1, NEW u \in Threads, ProgramPushes(u)
  PROVE  /\ UNCHANGED <<op, script, got, outcome, calls, before, executed, claim, dst0, saved,
                        array_en, array_row>>
         /\ Quiet => Quiet'
         /\ \A w \in Threads : Fresh(w) => Fresh(w)'
         /\ FifosOK'
         /\ \A t \in Threads, e \in Insns, j \in 1..7 :
              e.call = calls /\ Injected(t, e, j) => Injected(t, e, j)' /\ (Ran(j)' <=> Ran(j))
<1>1. /\ UNCHANGED <<op, script, got, outcome, calls, before, executed, claim, dst0, saved,
                     array_en, array_row, staged>>
      /\ u \notin claim /\ Added(u, OfProgram)
  BY DEF ProgramPushes, Added, history, bus
<1>2. /\ OfProgram \in Insns /\ OfProgram.call = 0 /\ OfProgram.do = "program"
      /\ calls \in Nat /\ TensixOK
  BY DEF OfProgram, Insns, Names, TypeOK, CallOK
<1>3. /\ Quiet => Quiet'
      /\ \A w \in Threads : Fresh(w) => Fresh(w)'
      /\ FifosOK'
  <2>1. OfProgram.call <= calls /\ OfProgram.do \notin {"save", "move", "store"}
        /\ OfProgram.call # calls
    BY <1>2
  <2>. QED  BY <1>1, <1>2, <2>1, AddedEntries
<1>4. ASSUME NEW t \in Threads, NEW e \in Insns, NEW j \in 1..7, e.call = calls,
             Injected(t, e, j)
      PROVE  Injected(t, e, j)' /\ (Ran(j)' <=> Ran(j))
  <2>1. CASE j <= 2
    BY <1>1, <1>3, <1>4, <2>1 DEF Injected, Ran
  <2>2. CASE j >= 3
    <3>1. u # t /\ fifo'[t] = fifo[t]
      <4>1. u # t
        BY <1>1, <1>4, <2>2 DEF Injected
      <4>. QED  BY <1>1, <1>2, <4>1, AddedTo
    <3>2. OnlyLast(t, e) => OnlyLast(t, e)' /\ ~Quiet'
      <4>. SUFFICES ASSUME OnlyLast(t, e)  PROVE OnlyLast(t, e)' /\ ~Quiet'
        OBVIOUS
      <4>1. /\ Len(fifo[u]) \in Nat /\ Len(fifo'[u]) = Len(fifo[u]) + 1
            /\ fifo'[u][Len(fifo[u]) + 1] = OfProgram
            /\ \A i \in 1..Len(fifo[u]) : fifo'[u][i] = fifo[u][i]
            /\ \A w \in Threads : w # u => fifo'[w] = fifo[w]
        BY <1>1, <1>2, AddedTo, Lengths
      <4>2. ASSUME NEW w \in Threads, NEW i \in 1..Len(fifo'[w]), w # t \/ i # Len(fifo'[w])
            PROVE  fifo'[w][i].call # calls
        <5>1. CASE w = u
          <6>1. i \in 1..Len(fifo[u]) \/ i = Len(fifo[u]) + 1
            BY <4>1, <5>1
          <6>. QED  BY <1>2, <3>1, <4>1, <5>1, <6>1 DEF OnlyLast
        <5>2. CASE w # u
          BY <4>1, <4>2, <5>2 DEF OnlyLast
        <5>. QED  BY <5>1, <5>2
      <4>3. Len(fifo[t]) \in 1..Len(fifo[t])
        BY <1>2, Lengths DEF OnlyLast
      <4>. QED  BY <1>1, <1>4, <3>1, <4>2, <4>3 DEF OnlyLast, Quiet
    <3>. QED  BY <1>1, <1>3, <1>4, <2>2, <3>1, <3>2 DEF Injected, Ran
  <2>. QED  BY <2>1, <2>2
<1>. QED  BY <1>1, <1>3, <1>4

\* What an instruction does.
Executes(e) ==
  /\ executed' = Append(executed, e.do)
  /\ saved' = IF e.do = "save" THEN dst0 ELSE saved
  /\ dst0' = CASE e.do = "move" -> Row("srca", e.row)
               [] e.do = "store" -> saved
               [] OTHER -> dst0

\* A thread executes another instruction, which does not matter to a thread
\* that has none of earlier calls, or it executes e.
LEMMA ExecuteStep ==
  ASSUME TypeOK, FifosOK, calls >= 1, NEW u \in Threads, ExecuteNext(u)
  PROVE  /\ UNCHANGED <<op, script, got, outcome, calls, before, claim, array_en, array_row>>
         /\ Quiet => Quiet' /\ executed' = executed
         /\ Quiet /\ Fresh(MathThread) => UNCHANGED <<dst0, saved>>
         /\ \A w \in Threads : Fresh(w) => Fresh(w)'
         /\ FifosOK'
         /\ \A t \in Threads, e \in Insns, j \in 1..7 :
              e.call = calls /\ Injected(t, e, j) =>
                /\ Injected(t, e, j)' /\ (Ran(j) => Ran(j)')
                /\ \/ /\ executed' = executed /\ (Ran(j)' <=> Ran(j))
                      /\ Fresh(MathThread) => UNCHANGED <<dst0, saved>>
                   \/ Ran(j)' /\ ~Ran(j) /\ Executes(e)
<1>. DEFINE h == Head(fifo[u])
<1>1. /\ UNCHANGED <<op, script, got, outcome, calls, before, claim, array_en, array_row, staged>>
      /\ fifo[u] # <<>>
      /\ saved' = IF h.do = "save" THEN dst0 ELSE saved
      /\ dst0' = CASE h.do = "move" -> Row("srca", h.row)
                   [] h.do = "store" -> saved
                   [] OTHER -> dst0
      /\ executed' = IF h.call = calls /\ h # OfProgram
                     THEN Append(executed, h.do) ELSE executed
  BY Zenon DEF ExecuteNext, bus
<1>2. TensixOK /\ calls \in Nat /\ OfProgram.call = 0 /\ OfProgram.do = "program"
  BY DEF TypeOK, CallOK, OfProgram
<1>3. Len(fifo[u]) >= 1 /\ h = fifo[u][1] /\ 1 \in 1..Len(fifo[u]) /\ h \in Insns
  <2>1. Len(fifo[u]) \in Nat /\ Len(fifo[u]) >= 1 /\ h = fifo[u][1]
    BY <1>2, TakenFrom, Lengths
  <2>2. 1 \in 1..Len(fifo[u])
    BY <2>1
  <2>. QED  BY <1>2, <2>1, <2>2, Lengths
<1>. HIDE DEF h
<1>4. /\ Quiet => Quiet' /\ h.call # calls
      /\ \A w \in Threads : Fresh(w) => Fresh(w)'
      /\ FifosOK'
      /\ \A t \in Threads, e \in Insns : e.call = calls /\ OnlyLast(t, e) =>
              \/ h.call # calls /\ OnlyLast(t, e)'
              \/ u = t /\ h = e /\ Quiet'
  BY <1>2, <1>3, TakenEntries
<1>5. h.call # calls => executed' = executed
  BY <1>1
<1>6. h.call # calls /\ Fresh(MathThread) => UNCHANGED <<dst0, saved>>
  <2>. SUFFICES ASSUME h.call # calls, Fresh(MathThread)  PROVE UNCHANGED <<dst0, saved>>
    OBVIOUS
  <2>1. h.do \notin {"save", "move", "store"}
    <3>1. CASE u = MathThread
      <4>1. h = OfProgram
        BY <1>3, <3>1 DEF Fresh
      <4>. QED  BY <1>2, <4>1
    <3>2. CASE u # MathThread
      BY <1>3, <3>2 DEF FifosOK
    <3>. QED  BY <3>1, <3>2
  <2>. QED  BY <1>1, <2>1
<1>7. ASSUME NEW t \in Threads, NEW e \in Insns, NEW j \in 1..7, e.call = calls,
             Injected(t, e, j)
      PROVE  /\ Injected(t, e, j)' /\ (Ran(j) => Ran(j)')
             /\ \/ /\ executed' = executed /\ (Ran(j)' <=> Ran(j))
                   /\ Fresh(MathThread) => UNCHANGED <<dst0, saved>>
                \/ Ran(j)' /\ ~Ran(j) /\ Executes(e)
  <2>1. /\ j \in {4, 5} => Len(fifo'[t]) < Depth
        /\ j = 7 => fifo'[t] = <<>>
    <3>1. CASE u = t
      BY <1>1, <1>2, <1>3, <1>7, <3>1, TakenFrom, Lengths, Bounds, SMTT(20) DEF Injected
    <3>2. CASE u # t
      BY <1>2, <1>7, <3>2, TakenFrom DEF Injected
    <3>. QED  BY <3>1, <3>2
  <2>2. CASE Quiet
    <3>1. Quiet' /\ h.call # calls
      BY <1>4, <2>2
    <3>2. Injected(t, e, j)' /\ (Ran(j) => Ran(j)')
      BY <1>1, <1>7, <2>1, <3>1 DEF Injected, Ran
    <3>3. Ran(j)' <=> Ran(j)
      BY <2>2, <3>1 DEF Ran
    <3>. QED  BY <1>5, <1>6, <3>1, <3>2, <3>3
  <2>3. CASE ~Quiet
    <3>1. j = 6 /\ OnlyLast(t, e) /\ ~Ran(j)
      BY <1>7, <2>3 DEF Injected, Ran
    <3>2. CASE h.call # calls /\ OnlyLast(t, e)'
      <4>1. ~Quiet'
        <5>1. TensixOK' /\ calls' = calls
          BY <1>1, OtherTypes DEF TypeOK
        <5>2. fifo'[t] \in Seq(Insns)
          BY <5>1 DEF TensixOK
        <5>3. Len(fifo'[t]) \in 1..Len(fifo'[t])
          BY <3>2, <5>2, LenIsNat DEF OnlyLast
        <5>. QED  BY <1>7, <3>2, <5>1, <5>3 DEF OnlyLast, Quiet
      <4>2. Injected(t, e, j)' /\ (Ran(j)' <=> Ran(j))
        BY <1>1, <1>7, <3>1, <3>2, <4>1 DEF Injected, Ran
      <4>. QED  BY <1>5, <1>6, <3>2, <4>2
    <3>3. CASE u = t /\ h = e /\ Quiet'
      <4>1. Injected(t, e, j)' /\ Ran(j)'
        BY <1>1, <1>7, <3>1, <3>3 DEF Injected, Ran
      <4>2. h # OfProgram
        BY <1>2, <1>7, <3>3
      <4>3. Executes(e)
        BY <1>1, <1>7, <3>3, <4>2 DEF Executes
      <4>. QED  BY <3>1, <4>1, <4>3
    <3>. QED  BY <1>4, <1>7, <3>1, <3>2, <3>3
  <2>. QED  BY <2>2, <2>3
<1>. QED  BY <1>1, <1>4, <1>5, <1>6, <1>7

\* The host makes the j-th access of an injection.
LEMMA InjectStep ==
  ASSUME TypeOK, FifosOK, calls >= 1, Host, NEW x \in Names, NEW row \in Nat, NEW t \in Threads,
         t # MathThread => x \notin {"save", "move", "store"},
         NEW e \in Insns, e = Instruction(x, row), NEW j \in 1..7, Injected(t, e, j),
         Head(script) = Inject(With(x, row), t)[j]
  PROVE  /\ UNCHANGED <<dst0, saved, array_en, array_row>> /\ got' = got \o <<>>
         /\ \A u \in Threads : Fresh(u) => Fresh(u)'
         /\ FifosOK'
         /\ j < 7 => Injected(t, e, j + 1)' /\ (Ran(j + 1)' <=> Ran(j))
         /\ j = 7 => Quiet' /\ claim' = {}
<1>. DEFINE due == Head(script)
<1>1. /\ j = 1 => due = With("ready", t)
      /\ j = 2 => due = With("claim", t)
      /\ j = 3 => due = With("ready", t)
      /\ j = 4 => due = With("stage", With(x, row))
      /\ j = 5 => due = With("push", t)
      /\ j = 6 => due = With("drained", t)
      /\ j = 7 => due = With("release", t)
  BY InjectAccesses
<1>2. op' = op /\ calls' = calls /\ TensixOK /\ calls \in Nat /\ e.call = calls /\ e.do = x
  BY Dispatch DEF TypeOK, CallOK, Instruction
<1>3. /\ due.do \in {"ready", "drained"} => Poll
      /\ due.do \in {"claim", "release"} => Claim
      /\ due.do = "stage" => Stage
      /\ due.do = "push" => Push
  BY Dispatch
<1>4. CASE fifo' = fifo /\ j # 5
  <2>1. /\ Quiet' <=> Quiet
        /\ \A u \in Threads : Fresh(u) => Fresh(u)'
        /\ FifosOK'
    BY <1>2, <1>4 DEF Quiet, Fresh, FifosOK
  <2>2. CASE j \in {1, 3, 6}
    <3>1. Poll /\ due.arg = t /\ due.do = (IF j = 6 THEN "drained" ELSE "ready")
      BY <1>1, <1>3, <2>2 DEF With
    <3>2. /\ UNCHANGED <<bus, tensix>> /\ got' = got \o <<>>
          /\ (j \in {1, 3} => Len(fifo[t]) < Depth) /\ (j = 6 => fifo[t] = <<>>)
      <4>1. j = 6 => due.do = "drained" /\ due.do # "ready"
        BY <3>1
      <4>2. j # 6 => due.do = "ready" /\ due.do # "drained"
        BY <3>1
      <4>3. /\ UNCHANGED <<bus, tensix>> /\ GoOn(<<>>)
            /\ \/ due.do = "ready" /\ Len(fifo[t]) < Depth
               \/ due.do = "drained" /\ fifo[t] = <<>>
        BY <3>1 DEF Poll, Due, Arg
      <4>. HIDE DEF due
      <4>4. got' = got \o <<>>
        BY <4>3 DEF GoOn
      <4>. QED  BY <2>2, <4>1, <4>2, <4>3, <4>4
    <3>3. j = 6 => Quiet
      BY <3>2 DEF Injected, OnlyLast
    <3>. QED  BY <1>4, <2>1, <2>2, <3>2, <3>3 DEF Injected, Ran, tensix
  <2>3. CASE j \in {2, 7}
    <3>1. Claim /\ due.arg = t /\ due.do = (IF j = 2 THEN "claim" ELSE "release")
      BY <1>1, <1>3, <2>3 DEF With
    <3>2. /\ UNCHANGED <<staged, fifo, dst0, saved, array_en, array_row>> /\ got' = got \o <<>>
          /\ (j = 2 => claim' = {t}) /\ (j = 7 => claim' = {})
      BY <2>3, <3>1 DEF Claim, Due, Arg, GoOn
    <3>. QED  BY <1>4, <2>1, <2>3, <3>2 DEF Injected, Ran
  <2>4. CASE j = 4
    <3>1. Stage /\ due.arg = With(x, row)
      BY <1>1, <1>3, <2>4 DEF With
    <3>2. /\ UNCHANGED <<claim, fifo, dst0, saved, array_en, array_row>> /\ got' = got \o <<>>
          /\ staged' = e
      BY <3>1 DEF Stage, Arg, GoOn, With, Instruction
    <3>. QED  BY <1>4, <2>1, <2>4, <3>2 DEF Injected, Ran
  <2>. QED  BY <1>4, <2>2, <2>3, <2>4
<1>5. CASE j = 5
  <2>1. Push /\ due.arg = t
    BY <1>1, <1>3, <1>5 DEF With
  <2>2. /\ UNCHANGED <<staged, dst0, saved, array_en, array_row>> /\ got' = got \o <<>>
        /\ claim' = {t} /\ fifo' = [fifo EXCEPT ![t] = Append_(fifo[t], staged)]
    BY <2>1 DEF Push, Arg, GoOn
  <2>3. Quiet /\ staged = e /\ Len(fifo[t]) < Depth
    BY <1>5 DEF Injected
  <2>4. Added(t, e)
    BY <2>2, <2>3 DEF Added, Append_
  <2>5. /\ OnlyLast(t, e)' /\ FifosOK' /\ \A u \in Threads : Fresh(u) => Fresh(u)'
    <3>1. /\ e.call <= calls /\ (t # MathThread => e.do \notin {"save", "move", "store"})
          /\ calls \in Nat
      BY <1>2
    <3>. HIDE DEF due
    <3>. QED  BY <1>2, <2>3, <2>4, <3>1, AddedEntries
  <2>6. ~Quiet'
    <3>1. Len(fifo[t]) \in Nat /\ Len(fifo'[t]) = Len(fifo[t]) + 1 /\ fifo'[t][Len(fifo[t]) + 1] = e
      BY <1>2, <2>4, AddedTo, Lengths
    <3>2. Len(fifo[t]) + 1 \in 1..Len(fifo'[t])
      BY <3>1
    <3>. QED  BY <1>2, <3>1, <3>2 DEF Quiet
  <2>. QED  BY <1>5, <2>2, <2>5, <2>6 DEF Injected, Ran
<1>6. j # 5 => fifo' = fifo
  <2>1. j \in {1, 3, 6} => Poll
    BY <1>1, <1>3 DEF With
  <2>2. j \in {2, 7} => Claim
    BY <1>1, <1>3 DEF With
  <2>3. j = 4 => Stage
    BY <1>1, <1>3 DEF With
  <2>. QED  BY <2>1, <2>2, <2>3 DEF Poll, Claim, Stage, tensix
<1>. QED  BY <1>4, <1>5, <1>6

\* inject_instruction makes its next access.
LEMMA InjectHost ==
  ASSUME TypeOK, FifosOK, InjectOK, Host, op.method = "inject_instruction"
  PROVE  InjectOK' /\ FifosOK'
<1>1. outcome = "busy" /\ op \in Ops /\ calls >= 1 /\ calls \in Nat
  BY Dispatch DEF TypeOK, CallOK, FifosOK
<1>2. PICK k \in 1..7 : InjectAt(k)
  BY <1>1 DEF InjectOK
<1>3. PICK t \in Threads : t = op.thread
  BY <1>1 DEF Ops
<1>4. PICK e \in Insns : e = Instruction("other", 0)
  BY <1>1 DEF Instruction, Insns, Names
<1>. DEFINE s == Inject(With("other", 0), t)
<1>5. "other" \in Names /\ "other" \notin {"save", "move", "store"}
  BY DEF Names
<1>6. s \in Seq(OnTensix) /\ Len(s) = 7
  BY <1>5, InjectAccesses
<1>7. /\ script = From(s, k) /\ Injected(t, e, k)
      /\ executed = IF Ran(k) THEN <<"other">> ELSE <<>>
  BY <1>2, <1>3, <1>4 DEF InjectAt
<1>8. Head(script) = s[k] /\ Tail(script) = From(s, k + 1) /\ (From(s, k + 1) = <<>> <=> k = 7)
  <2>1. k \in 1..Len(s)
    BY <1>6
  <2>. HIDE DEF s
  <2>. QED  BY ONLY <1>6, <1>7, <2>1, Left
<1>9. /\ FifosOK'
      /\ k < 7 => Injected(t, e, k + 1)' /\ (Ran(k + 1)' <=> Ran(k))
      /\ k = 7 => Quiet' /\ claim' = {}
  BY <1>1, <1>4, <1>5, <1>7, <1>8, InjectStep
<1>10. /\ script' = From(s, k + 1) /\ op' = op /\ calls' = calls /\ executed' = executed
       /\ outcome' = IF k = 7 THEN "ok" ELSE "busy"
  BY <1>8, Dispatch
<1>. HIDE DEF s
<1>11. CASE k = 7
  <2>1. executed = <<"other">>
    BY <1>7, <1>11 DEF Ran
  <2>. QED  BY <1>9, <1>10, <1>11, <2>1 DEF InjectOK, Ended
<1>12. CASE k < 7
  <2>1. k + 1 \in 1..7 /\ s = Inject(With("other", 0), op'.thread)
        /\ Injected(op.thread, Instruction("other", 0), k + 1)'
    BY <1>3, <1>4, <1>9, <1>10, <1>12 DEF s, Injected, OnlyLast, Instruction
  <2>2. InjectAt(k + 1)'
    BY <1>7, <1>9, <1>10, <1>12, <2>1 DEF InjectAt
  <2>3. (\E i \in 1..7 : InjectAt(i))'
    BY <2>1, <2>2
  <2>. QED  BY <1>9, <1>10, <1>12, <2>3 DEF InjectOK, Ended
<1>. QED  BY <1>11, <1>12

\* What is kept when neither the FIFOs nor DST is touched.
LEMMA Untouched ==
  ASSUME UNCHANGED <<fifo, dst0, saved, op, calls, before>>
  PROVE  /\ Quiet' <=> Quiet
         /\ \A u \in Threads : Fresh(u)' <=> Fresh(u)
         /\ Kept' <=> Kept
         /\ Resting' <=> Resting
         /\ FifosOK' <=> FifosOK
<1>1. /\ Quiet' <=> Quiet
      /\ \A u \in Threads : Fresh(u)' <=> Fresh(u)
      /\ FifosOK' <=> FifosOK
  BY DEF Quiet, Fresh, FifosOK
<1>2. AllFresh' <=> AllFresh
  BY <1>1 DEF AllFresh
<1>3. Fresh(MathThread)' <=> Fresh(MathThread)
  BY <1>1, Bounds
<1>. QED  BY <1>1, <1>2, <1>3 DEF Kept, Resting

\* The accesses of the array of a register file.
LEMMA ArrayStep ==
  ASSUME TypeOK, Host, Head(script).do \in {"enable", "row", "array"}
  PROVE  /\ UNCHANGED <<fifo, dst0, saved, op, calls, before>>
         /\ Head(script).do = "enable" =>
              array_en' = Head(script).arg /\ array_row' = array_row /\ got' = got
         /\ Head(script).do = "row" =>
              array_row' = Head(script).arg /\ array_en' = array_en /\ got' = got
         /\ Head(script).do = "array" =>
              /\ UNCHANGED <<array_en, array_row>>
              /\ array_en =>
                   got' = got \o <<IF array_row = 0 THEN dst0 ELSE Row("dst", array_row)>>
<1>1. got \o <<>> = got
  BY ConcatEmptySeq DEF TypeOK, CallOK
<1>2. op' = op /\ calls' = calls /\ before' = before
  BY Dispatch
<1>3. CASE Head(script).do \in {"enable", "row"}
  <2>1. SetArray
    BY <1>3, Dispatch
  <2>2. got' = got /\ UNCHANGED <<fifo, dst0, saved>>
    BY <1>1, <2>1 DEF SetArray, GoOn
  <2>3. \/ Head(script).do = "enable" /\ array_en' = Head(script).arg /\ UNCHANGED array_row
        \/ Head(script).do = "row" /\ array_row' = Head(script).arg /\ UNCHANGED array_en
    BY <2>1 DEF SetArray, Due, Arg
  <2>. QED  BY <1>2, <1>3, <2>2, <2>3
<1>4. CASE Head(script).do = "array"
  <2>. DEFINE v == CASE ~array_en -> Row("off", 0)
                     [] array_en /\ array_row = 0 -> dst0
                     [] OTHER -> Row("dst", array_row)
  <2>1. ReadArray
    BY <1>4, Dispatch
  <2>2. UNCHANGED tensix /\ got' = got \o <<v>>
    BY <2>1, Zenon DEF ReadArray, GoOn
  <2>3. array_en => v = IF array_row = 0 THEN dst0 ELSE Row("dst", array_row)
    BY DEF TypeOK, TensixOK
  <2>. HIDE DEF v
  <2>. QED  BY <1>2, <1>4, <2>2, <2>3 DEF tensix
<1>. QED  BY <1>3, <1>4

\* Another row is returned.
LEMMA GotMore ==
  ASSUME NEW n \in Nat, NEW v, GotRows(n), op' = op, before' = before, got' = got \o <<v>>,
         Told => v = IF op.file = "dst" /\ n = 0 THEN before.dst0 ELSE Row(op.file, n)
  PROVE  GotRows(n + 1)'
<1>. DEFINE f == [i \in 1..(n + 1) |-> IF op.file = "dst" /\ i = 1 THEN before.dst0
                                       ELSE Row(op.file, i - 1)]
<1>. SUFFICES ASSUME Told  PROVE got' = f
  BY DEF GotRows, Told
<1>1. got = [i \in 1..n |-> f[i]]
  BY DEF GotRows
<1>2. v = f[n + 1]
  BY DEF Told
<1>3. f = [i \in 1..(n + 1) |-> f[i]]
  OBVIOUS
<1>. HIDE DEF f
<1>4. [i \in 1..n |-> f[i]] \o <<f[n + 1]>> = [i \in 1..(n + 1) |-> f[i]]
  OBVIOUS
<1>. QED  BY <1>1, <1>2, <1>3, <1>4

LEMMA SameRows ==
  ASSUME NEW n, GotRows(n), op' = op, before' = before, got' = got
  PROVE  GotRows(n)'
BY DEF GotRows, Told

\* The accesses of a row of DST.
LEMMA DstStep ==
  ASSUME TypeOK, FifosOK, Host, op.file = "dst", NEW r \in 0..LastRow, NEW k \in 1..2, array_en,
         DstRow(r, k), Head(script) = ReadRow("dst", r)[k]
  PROVE  /\ FifosOK' /\ array_en'
         /\ k < 2 => DstRow(r, k + 1)'
         /\ k = 2 => Resting' /\ GotRows(r + 1)'
<1>1. r \in Nat /\ r + 1 - 1 = r
  BY Bounds
<1>2. /\ k = 1 => Head(script) = With("row", r)
      /\ k = 2 => Head(script) = With("array", "none")
  BY <1>1, ReadAccesses
<1>3. /\ UNCHANGED <<fifo, dst0, saved, op, calls, before>>
      /\ k = 1 => array_row' = r /\ array_en' = array_en /\ got' = got
      /\ k = 2 => /\ UNCHANGED <<array_en, array_row>>
                  /\ got' = got \o <<IF array_row = 0 THEN dst0 ELSE Row("dst", array_row)>>
  <2>1. CASE k = 1
    <3>1. Head(script).do = "row" /\ Head(script).arg = r /\ k # 2
      BY <1>2, <2>1 DEF With
    <3>. QED  BY <2>1, <3>1, ArrayStep, Zenon
  <2>2. CASE k = 2
    <3>1. Head(script).do = "array" /\ k # 1
      BY <1>2, <2>2 DEF With
    <3>. QED  BY <2>2, <3>1, ArrayStep, Zenon
  <2>3. k = 1 \/ k = 2
    OBVIOUS
  <2>. QED  BY <2>1, <2>2, <2>3, Zenon
<1>4. Resting' /\ FifosOK'
  BY <1>3, Untouched DEF DstRow
<1>5. CASE k = 1
  BY <1>3, <1>4, <1>5, SameRows DEF DstRow
<1>6. CASE k = 2
  <2>. DEFINE v == IF array_row = 0 THEN dst0 ELSE Row("dst", array_row)
  <2>1. Told => v = IF op.file = "dst" /\ r = 0 THEN before.dst0 ELSE Row(op.file, r)
    BY <1>6 DEF Told, DstRow, Resting
  <2>2. GotRows(r)
    BY DEF DstRow
  <2>3. got' = got \o <<v>>
    BY <1>3, <1>6
  <2>. HIDE DEF v
  <2>4. GotRows(r + 1)'
    BY <1>1, <1>3, <2>1, <2>2, <2>3, GotMore
  <2>. QED  BY <1>3, <1>4, <1>6, <2>4
<1>. QED  BY <1>5, <1>6

\* The accesses of a row of SRCA.
LEMMA SrcaStep ==
  ASSUME TypeOK, FifosOK, calls >= 1, Host, op.file = "srca", NEW r \in 0..LastRow,
         NEW k \in 1..23, array_en, SrcaRow(r, k), Head(script) = ReadRow("srca", r)[k]
  PROVE  /\ FifosOK' /\ array_en'
         /\ k < 23 => SrcaRow(r, k + 1)'
         /\ k = 23 => Resting' /\ GotRows(r + 1)'
<1>1. r \in Nat /\ 0 \in Nat /\ MathThread \in Threads /\ op' = op /\ calls' = calls
      /\ before' = before
  BY Bounds, Dispatch
<1>2. calls \in Nat /\ {"save", "move", "store"} \subseteq Names
  BY DEF TypeOK, CallOK, Names
<1>3. PICK save \in Insns : save = Instruction("save", 0)
  BY <1>1, <1>2 DEF Instruction, Insns
<1>4. PICK move \in Insns : move = Instruction("move", r)
  BY <1>1, <1>2 DEF Instruction, Insns
<1>5. PICK store \in Insns : store = Instruction("store", 0)
  BY <1>1, <1>2 DEF Instruction, Insns
<1>6. /\ save = Instruction("save", 0)' /\ move = Instruction("move", r)'
      /\ store = Instruction("store", 0)'
  BY <1>1, <1>3, <1>4, <1>5 DEF Instruction
<1>7. got \o <<>> = got
  BY ConcatEmptySeq DEF TypeOK, CallOK
<1>8. CASE k \in 1..7
  <2>1. /\ Injected(MathThread, save, k)
        /\ before.clean => AllFresh /\ dst0 = before.dst0 /\ (Ran(k) => saved = before.dst0)
        /\ GotRows(r)
    BY <1>3, <1>8 DEF SrcaRow, SavesRow
  <2>2. Head(script) = Inject(With("save", 0), MathThread)[k]
    BY <1>1, <1>8, SrcaAccesses
  <2>3. /\ UNCHANGED <<dst0, saved, array_en, array_row>> /\ got' = got
        /\ \A u \in Threads : Fresh(u) => Fresh(u)'
        /\ FifosOK'
        /\ k < 7 => Injected(MathThread, save, k + 1)' /\ (Ran(k + 1)' <=> Ran(k))
        /\ k = 7 => Quiet'
    BY <1>1, <1>2, <1>3, <1>7, <1>8, <2>1, <2>2, InjectStep
  <2>4. GotRows(r)' /\ (AllFresh => AllFresh')
    BY <1>1, <2>1, <2>3, SameRows DEF AllFresh
  <2>5. CASE k < 7
    <3>1. SavesRow(k + 1)'
      BY <1>1, <1>6, <2>1, <2>3, <2>4, <2>5 DEF SavesRow
    <3>. QED  BY <1>8, <2>3, <2>4, <2>5, <3>1 DEF SrcaRow
  <2>6. CASE k = 7
    <3>1. Fresh(MathThread)
      BY <2>1, <2>6 DEF Injected, Fresh
    <3>2. Kept'
      BY <1>1, <2>1, <2>3, <2>4, <2>6, <3>1 DEF Kept, Ran
    <3>3. MovesRow(r, 1)'
      BY <2>3, <2>6, <3>2 DEF MovesRow, Injected, Ran
    <3>4. SrcaRow(r, 8)'
      BY <2>4, <3>3 DEF SrcaRow
    <3>. QED  BY <2>3, <2>6, <3>4
  <2>. QED  BY <1>8, <2>5, <2>6
<1>9. CASE k \in 8..14
  <2>. DEFINE j == k - 7
  <2>1. /\ j \in 1..7 /\ Injected(MathThread, move, j)
        /\ Kept /\ (Ran(j) => dst0 = Row("srca", r)) /\ GotRows(r)
    BY <1>4, <1>9 DEF SrcaRow, MovesRow
  <2>2. Head(script) = Inject(With("move", r), MathThread)[j]
    <3>1. 7 + j = k
      BY <1>9
    <3>. HIDE DEF j
    <3>. QED  BY <1>1, <2>1, <3>1, SrcaAccesses
  <2>3. /\ UNCHANGED <<dst0, saved, array_en, array_row>> /\ got' = got
        /\ \A u \in Threads : Fresh(u) => Fresh(u)'
        /\ FifosOK'
        /\ j < 7 => Injected(MathThread, move, j + 1)' /\ (Ran(j + 1)' <=> Ran(j))
        /\ j = 7 => Quiet'
    <3>. HIDE DEF j
    <3>. QED  BY <1>1, <1>2, <1>4, <1>7, <2>1, <2>2, InjectStep
  <2>4. GotRows(r)' /\ Kept'
    BY <1>1, <2>1, <2>3, SameRows DEF AllFresh, Kept
  <2>5. CASE j < 7
    <3>1. MovesRow(r, j + 1)'
      <4>. HIDE DEF j
      <4>. QED  BY <1>1, <1>6, <2>1, <2>3, <2>4, <2>5 DEF MovesRow
    <3>2. (k + 1) - 7 = j + 1 /\ 8 <= k + 1 /\ k + 1 <= 14
      BY <1>9, <2>5
    <3>. HIDE DEF j
    <3>3. MovesRow(r, (k + 1) - 7)'
      BY <3>1, <3>2
    <3>4. SrcaRow(r, k + 1)'
      BY <1>9, <2>4, <3>2, <3>3 DEF SrcaRow
    <3>. QED  BY <2>3, <3>2, <3>4
  <2>6. CASE j = 7
    <3>1. k = 14 /\ dst0 = Row("srca", r)
      BY <1>9, <2>1, <2>6 DEF Ran
    <3>2. SrcaRow(r, 15)'
      BY <2>3, <2>4, <2>6, <3>1 DEF SrcaRow
    <3>. QED  BY <2>3, <3>1, <3>2
  <2>. QED  BY <2>1, <2>5, <2>6
<1>10. CASE k \in {15, 16}
  <2>1. /\ Quiet /\ Kept /\ dst0 = Row("srca", r) /\ GotRows(r)
        /\ k = 16 => array_row = 0
    BY <1>10 DEF SrcaRow
  <2>2. /\ k = 15 => Head(script) = With("row", 0)
        /\ k = 16 => Head(script) = With("array", "none")
    BY <1>1, SrcaAccesses
  <2>3. /\ UNCHANGED <<fifo, dst0, saved, op, calls, before>>
        /\ k = 15 => array_row' = 0 /\ array_en' = array_en /\ got' = got
        /\ k = 16 => /\ UNCHANGED <<array_en, array_row>>
                     /\ got' = got \o <<IF array_row = 0 THEN dst0 ELSE Row("dst", array_row)>>
    <3>1. CASE k = 15
      <4>1. Head(script).do = "row" /\ Head(script).arg = 0 /\ k # 16
        BY <2>2, <3>1 DEF With
      <4>. QED  BY <3>1, <4>1, ArrayStep, Zenon
    <3>2. CASE k = 16
      <4>1. Head(script).do = "array" /\ k # 15
        BY <2>2, <3>2 DEF With
      <4>. QED  BY <3>2, <4>1, ArrayStep, Zenon
    <3>. QED  BY <1>10, <3>1, <3>2
  <2>4. Quiet' /\ Kept' /\ FifosOK'
    BY <2>1, <2>3, Untouched
  <2>5. CASE k = 15
    <3>1. GotRows(r)'
      BY <1>1, <2>1, <2>3, <2>5, SameRows
    <3>2. SrcaRow(r, 16)'
      BY <2>1, <2>3, <2>4, <2>5, <3>1 DEF SrcaRow
    <3>. QED  BY <2>3, <2>4, <2>5, <3>2
  <2>6. CASE k = 16
    <3>1. Told => dst0 = IF op.file = "dst" /\ r = 0 THEN before.dst0 ELSE Row(op.file, r)
      BY <2>1
    <3>2. got' = got \o <<dst0>>
      BY <2>1, <2>3, <2>6
    <3>3. GotRows(r + 1)'
      BY <1>1, <2>1, <3>1, <3>2, GotMore
    <3>4. StoresRow(1)'
      BY <2>4 DEF StoresRow, Injected, Ran
    <3>5. SrcaRow(r, 17)'
      BY <3>3, <3>4 DEF SrcaRow
    <3>. QED  BY <2>3, <2>4, <2>6, <3>5
  <2>. QED  BY <1>10, <2>5, <2>6
<1>11. CASE k \in 17..23
  <2>. DEFINE j == k - 16
  <2>1. /\ j \in 1..7 /\ Injected(MathThread, store, j)
        /\ Kept /\ (before.clean /\ Ran(j) => dst0 = before.dst0) /\ GotRows(r + 1)
    BY <1>5, <1>11 DEF SrcaRow, StoresRow
  <2>2. Head(script) = Inject(With("store", 0), MathThread)[j]
    <3>1. 16 + j = k
      BY <1>11
    <3>. HIDE DEF j
    <3>. QED  BY <1>1, <2>1, <3>1, SrcaAccesses
  <2>3. /\ UNCHANGED <<dst0, saved, array_en, array_row>> /\ got' = got
        /\ \A u \in Threads : Fresh(u) => Fresh(u)'
        /\ FifosOK'
        /\ j < 7 => Injected(MathThread, store, j + 1)' /\ (Ran(j + 1)' <=> Ran(j))
        /\ j = 7 => Quiet'
    <3>. HIDE DEF j
    <3>. QED  BY <1>1, <1>2, <1>5, <1>7, <2>1, <2>2, InjectStep
  <2>4. GotRows(r + 1)' /\ Kept'
    BY <1>1, <2>1, <2>3, SameRows DEF AllFresh, Kept
  <2>5. CASE j < 7
    <3>1. StoresRow(j + 1)'
      <4>. HIDE DEF j
      <4>. QED  BY <1>1, <1>6, <2>1, <2>3, <2>4, <2>5 DEF StoresRow
    <3>2. (k + 1) - 16 = j + 1 /\ 17 <= k + 1 /\ k + 1 <= 23
      BY <1>11, <2>5
    <3>. HIDE DEF j
    <3>3. StoresRow((k + 1) - 16)'
      BY <3>1, <3>2
    <3>4. SrcaRow(r, k + 1)'
      BY <1>11, <2>4, <3>2, <3>3 DEF SrcaRow
    <3>. QED  BY <1>11, <2>3, <3>2, <3>4
  <2>6. CASE j = 7
    <3>1. k = 23 /\ (before.clean => dst0 = before.dst0)
      BY <1>11, <2>1, <2>6 DEF Ran
    <3>2. Resting'
      BY <1>1, <2>3, <2>4, <2>6, <3>1 DEF Resting, Kept
    <3>. QED  BY <2>3, <2>4, <3>1, <3>2
  <2>. QED  BY <2>1, <2>5, <2>6
<1>. QED  BY <1>8, <1>9, <1>10, <1>11

\* Row r is next, or the two accesses after the last one.
Begins(r) ==
  /\ op.file \in {"dst", "srca"} /\ script = Remaining(op.file, r)
  /\ array_en /\ Resting /\ GotRows(r)

BeginsReading == \A r \in 0..(LastRow + 1) : Begins(r) => script # <<>> /\ Reading

LEMMA RowBegins == BeginsReading
<1>. SUFFICES ASSUME NEW r \in 0..(LastRow + 1), Begins(r)  PROVE script # <<>> /\ Reading
  BY DEF BeginsReading
<1>. DEFINE s == ReadRow(op.file, r)
            q == Remaining(op.file, r + 1)
<1>1. op.file \in {"dst", "srca"} /\ script = Remaining(op.file, r)
  BY DEF Begins
<1>2. CASE r <= LastRow
  <2>1. r \in 0..LastRow /\ r \in Nat /\ r + 1 \in 0..(LastRow + 1)
    BY <1>2, Bounds
  <2>2. s \in Seq(OnTensix) /\ Len(s) \in {2, 23} /\ q \in Seq(OnTensix)
    BY <1>1, <2>1, ReadAccesses, SrcaAccesses, RemainingDef
  <2>3. script = s \o q
    BY <1>1, <2>1, RemainingDef
  <2>. HIDE DEF s, q
  <2>4. From(s, 1) \o q = s \o q
    BY ONLY <2>2, LeftEnds
  <2>5. script # <<>>
    <3>1. Len(script) = Len(s) + Len(q) /\ Len(q) \in Nat
      BY ONLY <2>2, <2>3, ConcatProperties, LenIsNat
    <3>2. Len(script) # 0
      BY ONLY <2>2, <3>1
    <3>. QED  BY <3>2
  <2>6. 1 \in 1..Len(s)
    <3>1. Len(s) \in {2, 23}
      BY <2>2
    <3>. QED  BY ONLY <3>1
  <2>7. RowAt(r, 1)
    <3>1. script = From(s, 1) \o q /\ array_en /\ Resting /\ GotRows(r)
      BY <2>3, <2>4 DEF Begins
    <3>2. DstRow(r, 1)
      BY <3>1 DEF DstRow
    <3>3. SrcaRow(r, 1)
      BY <3>1 DEF SrcaRow, SavesRow, Resting, Injected, Ran
    <3>. QED  BY <3>1, <3>2, <3>3 DEF RowAt, s, q
  <2>. QED  BY <2>1, <2>5, <2>6, <2>7 DEF Reading, s
<1>3. CASE r = LastRow + 1
  <2>1. Off \in Seq(OnTensix) /\ Len(Off) = 2 /\ script = Off
    BY <1>1, <1>3, RemainingDef
  <2>2. From(Off, 1) = Off
    BY ONLY <2>1, SubSeqFull DEF From
  <2>3. script # <<>>
    <3>1. Len(script) # 0
      BY ONLY <2>1
    <3>. QED  BY <3>1
  <2>4. OffAt(1)
    BY <1>3, <2>1, <2>2 DEF OffAt, Begins
  <2>. QED  BY <2>3, <2>4 DEF Reading
<1>. QED  BY <1>2, <1>3, Bounds

\* read_regfile makes its next access.
LEMMA FileHost ==
  ASSUME TypeOK, FifosOK, FileOK, Host, op.method = "read_regfile"
  PROVE  FileOK' /\ FifosOK'
<1>1. /\ outcome = "busy" /\ op \in Ops /\ calls >= 1 /\ calls \in Nat
      /\ UNCHANGED <<op, calls, before>>
      /\ script' = Tail(script) /\ outcome' = (IF script' = <<>> THEN "ok" ELSE "busy")
  BY Dispatch DEF TypeOK, CallOK, FifosOK
<1>2. PICK file \in {"dst", "srca"} : file = op.file
  BY <1>1 DEF Ops
<1>3. Reading
  BY <1>1 DEF FileOK
<1>4. ASSUME NEW r \in 0..(LastRow + 1), Begins(r)'  PROVE FileOK'
  <2>1. BeginsReading'
    BY RowBegins, PTL
  <2>2. script' # <<>> /\ Reading'
    BY <1>4, <2>1 DEF BeginsReading
  <2>. QED  BY <1>1, <2>2 DEF FileOK, Ended
<1>5. CASE StartAt
  <2>. DEFINE a == With("enable", TRUE)
              s == <<a>>
              q == Remaining(file, 0)
  <2>1. s \in Seq(OnTensix) /\ Len(s) = 1 /\ s[1] = a
    BY DEF OnTensix, With
  <2>2. q \in Seq(OnTensix) /\ script = s \o q
    BY <1>2, <1>5, Bounds, RemainingDef DEF StartAt
  <2>. HIDE DEF a, s, q
  <2>3. Head(script) = a /\ Tail(script) = q
    <3>1. From(s, 1) \o q = s \o q /\ From(s, Len(s) + 1) \o q = q
      BY ONLY <2>1, <2>2, LeftEnds
    <3>2. 1 \in 1..Len(s)
      BY <2>1
    <3>3. Head(From(s, 1) \o q) = s[1] /\ Tail(From(s, 1) \o q) = From(s, 1 + 1) \o q
      BY ONLY <2>1, <2>2, <3>2, LeftOver
    <3>. QED  BY ONLY <2>1, <2>2, <3>1, <3>3
  <2>4. Head(script).do = "enable" /\ Head(script).arg = TRUE
    BY <2>3 DEF a, With
  <2>5. /\ UNCHANGED <<fifo, dst0, saved>> /\ array_en' = TRUE /\ got' = got
    BY <2>4, ArrayStep, Zenon
  <2>6. Resting' /\ FifosOK' /\ GotRows(0)'
    BY <1>1, <1>5, <2>5, Untouched, SameRows DEF StartAt
  <2>7. Begins(0)'
    BY <1>1, <1>2, <2>3, <2>5, <2>6 DEF Begins, q
  <2>. QED  BY <1>4, <2>6, <2>7, Bounds
<1>6. ASSUME NEW r \in 0..LastRow, NEW k \in 1..Len(ReadRow(op.file, r)), RowAt(r, k)
      PROVE  FileOK' /\ FifosOK'
  <2>. DEFINE s == ReadRow(file, r)
              q == Remaining(file, r + 1)
  <2>1. r \in Nat /\ r + 1 \in 0..(LastRow + 1)
    BY Bounds
  <2>2. /\ s \in Seq(OnTensix) /\ q \in Seq(OnTensix)
        /\ file = "dst" => Len(s) = 2
        /\ file = "srca" => Len(s) = 23
    BY <2>1, ReadAccesses, SrcaAccesses, RemainingDef
  <2>3. k \in 1..Len(s) /\ script = From(s, k) \o q /\ array_en
        /\ IF file = "dst" THEN DstRow(r, k) ELSE SrcaRow(r, k)
    BY <1>2, <1>6 DEF RowAt
  <2>4. s = ReadRow(file, r) /\ q = Remaining(file, r + 1)
    OBVIOUS
  <2>. HIDE DEF s, q
  <2>5. Head(script) = s[k] /\ Tail(script) = From(s, k + 1) \o q
    <3>1. /\ s \in Seq(OnTensix) /\ q \in Seq(OnTensix) /\ k \in 1..Len(s)
          /\ script = From(s, k) \o q
      BY <2>2, <2>3
    <3>2. Head(From(s, k) \o q) = s[k] /\ Tail(From(s, k) \o q) = From(s, k + 1) \o q
      BY ONLY <3>1, LeftOver
    <3>. QED  BY ONLY <3>1, <3>2
  <2>6. From(s, Len(s) + 1) \o q = q
    BY ONLY <2>2, LeftEnds
  <2>7. /\ FifosOK' /\ array_en'
        /\ k < Len(s) => (IF file = "dst" THEN DstRow(r, k + 1)' ELSE SrcaRow(r, k + 1)')
        /\ k = Len(s) => Resting' /\ GotRows(r + 1)'
    <3>1. CASE file = "dst"
      <4>1. k \in 1..2 /\ op.file = "dst" /\ Head(script) = ReadRow("dst", r)[k] /\ DstRow(r, k)
        BY <1>2, <2>2, <2>3, <2>4, <2>5, <3>1
      <4>. QED  BY <2>2, <2>3, <3>1, <4>1, DstStep
    <3>2. CASE file = "srca"
      <4>1. k \in 1..23 /\ op.file = "srca" /\ Head(script) = ReadRow("srca", r)[k]
            /\ SrcaRow(r, k)
        BY <1>2, <2>2, <2>3, <2>4, <2>5, <3>2
      <4>. QED  BY <1>1, <2>2, <2>3, <3>2, <4>1, SrcaStep
    <3>. QED  BY <3>1, <3>2
  <2>8. CASE k < Len(s)
    <3>1. k + 1 \in 1..Len(s)
      BY <2>2, <2>8
    <3>2. RowAt(r, k + 1)'
      BY <1>1, <1>2, <2>4, <2>5, <2>7, <2>8 DEF RowAt, From
    <3>3. script' # <<>>
      <4>1. From(s, k + 1) \o q # <<>>
        BY ONLY <2>2, <3>1, LeftOver
      <4>. QED  BY <1>1, <2>5, <4>1
    <3>4. (\E i \in 1..Len(ReadRow(op.file, r)) : RowAt(r, i))'
      BY <1>1, <1>2, <2>4, <3>1, <3>2
    <3>5. Reading'
      BY <3>4 DEF Reading
    <3>. QED  BY <1>1, <2>7, <3>3, <3>5 DEF FileOK, Ended
  <2>9. CASE k = Len(s)
    <3>1. script' = Remaining(file, r + 1)
      BY <1>1, <2>4, <2>5, <2>6, <2>9
    <3>2. Begins(r + 1)'
      BY <1>1, <1>2, <2>7, <2>9, <3>1 DEF Begins
    <3>. QED  BY <1>4, <2>1, <2>7, <3>2
  <2>. QED  BY <2>2, <2>3, <2>8, <2>9
<1>7. ASSUME NEW k \in 1..2, OffAt(k)  PROVE FileOK' /\ FifosOK'
  <2>1. /\ Off \in Seq(OnTensix) /\ Len(Off) = 2
        /\ Off[1] = With("enable", FALSE) /\ Off[2] = With("row", 0)
    BY <1>2, RemainingDef
  <2>2. script = From(Off, k) /\ k \in 1..Len(Off)
    BY <1>7, <2>1 DEF OffAt
  <2>3. Head(script) = Off[k] /\ Tail(script) = From(Off, k + 1)
        /\ (From(Off, k + 1) = <<>> <=> k = Len(Off))
    BY ONLY <2>1, <2>2, Left
  <2>4. CASE k = 1
    <3>1. Head(script).do = "enable" /\ Head(script).arg = FALSE
      BY <2>1, <2>3, <2>4 DEF With
    <3>2. UNCHANGED <<fifo, dst0, saved>> /\ array_en' = FALSE /\ got' = got
      BY <3>1, ArrayStep, Zenon
    <3>3. Resting' /\ FifosOK' /\ GotRows(LastRow + 1)'
      BY <1>1, <1>7, <3>2, Untouched, SameRows DEF OffAt
    <3>4. script' = From(Off, 2) /\ script' # <<>>
      <4>1. k + 1 = 2 /\ k # Len(Off)
        BY <2>1, <2>4
      <4>. QED  BY ONLY <1>1, <2>3, <4>1
    <3>5. OffAt(2)'
      BY <3>2, <3>3, <3>4 DEF OffAt, From, Off, With
    <3>6. Reading'
      BY <3>5 DEF Reading
    <3>. QED  BY <1>1, <3>3, <3>4, <3>6 DEF FileOK, Ended
  <2>5. CASE k = 2
    <3>1. Head(script).do = "row"
      BY <2>1, <2>3, <2>5 DEF With
    <3>2. UNCHANGED <<fifo, dst0, saved, array_en>> /\ got' = got
      BY <3>1, ArrayStep, Zenon
    <3>3. Resting' /\ FifosOK' /\ GotRows(LastRow + 1)'
      BY <1>1, <1>7, <3>2, Untouched, SameRows DEF OffAt
    <3>4. ~array_en' /\ script' = <<>>
      BY <1>1, <1>7, <2>1, <2>3, <2>5, <3>2 DEF OffAt
    <3>. QED  BY <1>1, <3>3, <3>4 DEF FileOK, Ended
  <2>. QED  BY <2>4, <2>5
<1>. QED  BY <1>3, <1>5, <1>6, <1>7 DEF Reading
---------------------------------------------------------------------------
(* The other steps.                                                        *)

\* The program pushes, or a thread executes.
LEMMA ThreadStep ==
  ASSUME TypeOK, FifosOK, calls >= 1, NEW u \in Threads, ProgramPushes(u) \/ ExecuteNext(u)
  PROVE  /\ UNCHANGED <<op, script, got, outcome, calls, before, claim, array_en, array_row>>
         /\ Quiet => Quiet' /\ executed' = executed
         /\ Quiet /\ Fresh(MathThread) => UNCHANGED <<dst0, saved>>
         /\ \A w \in Threads : Fresh(w) => Fresh(w)'
         /\ FifosOK'
         /\ \A t \in Threads, e \in Insns, j \in 1..7 :
              e.call = calls /\ Injected(t, e, j) =>
                /\ Injected(t, e, j)' /\ (Ran(j) => Ran(j)')
                /\ \/ /\ executed' = executed /\ (Ran(j)' <=> Ran(j))
                      /\ Fresh(MathThread) => UNCHANGED <<dst0, saved>>
                   \/ Ran(j)' /\ ~Ran(j) /\ Executes(e)
<1>1. CASE ProgramPushes(u)
  BY <1>1, ProgramStep
<1>2. CASE ExecuteNext(u)
  BY <1>2, ExecuteStep
<1>. QED  BY <1>1, <1>2

\* A row of a register file goes on.
LEMMA RowStep ==
  ASSUME TypeOK, FifosOK, calls >= 1, NEW u \in Threads, ProgramPushes(u) \/ ExecuteNext(u)
  PROVE  /\ Resting => Resting'
         /\ \A k \in 1..7 : SavesRow(k) => SavesRow(k)'
         /\ \A r \in Nat, k \in 1..7 : MovesRow(r, k) => MovesRow(r, k)'
         /\ \A k \in 1..7 : StoresRow(k) => StoresRow(k)'
         /\ Quiet /\ Kept => Quiet' /\ Kept' /\ dst0' = dst0
<1>1. /\ UNCHANGED <<op, script, got, outcome, calls, before, claim, array_en, array_row>>
      /\ Quiet => Quiet' /\ executed' = executed
      /\ Quiet /\ Fresh(MathThread) => UNCHANGED <<dst0, saved>>
      /\ AllFresh => Fresh(MathThread) /\ AllFresh'
      /\ Fresh(MathThread) => Fresh(MathThread)'
  <2>1. \A w \in Threads : Fresh(w) => Fresh(w)'
    BY ThreadStep
  <2>2. UNCHANGED <<op, script, got, outcome, calls, before, claim, array_en, array_row>>
    BY ThreadStep
  <2>3. /\ Quiet => Quiet' /\ executed' = executed
        /\ Quiet /\ Fresh(MathThread) => UNCHANGED <<dst0, saved>>
    BY ThreadStep
  <2>. QED  BY <2>1, <2>2, <2>3, Bounds DEF AllFresh
<1>2. calls \in Nat /\ {"save", "move", "store"} \subseteq Names /\ MathThread \in Threads
  BY Bounds DEF TypeOK, CallOK, Names
<1>3. ASSUME NEW x \in {"save", "move", "store"}, NEW r \in Nat, NEW k \in 1..7,
             Injected(MathThread, Instruction(x, r), k)
      PROVE  /\ Injected(MathThread, Instruction(x, r), k)' /\ (Ran(k) => Ran(k)')
             /\ \/ /\ Ran(k)' <=> Ran(k)
                   /\ Fresh(MathThread) => UNCHANGED <<dst0, saved>>
                \/ /\ Ran(k)' /\ ~Ran(k)
                   /\ saved' = IF x = "save" THEN dst0 ELSE saved
                   /\ x = "save" => dst0' = dst0
                   /\ x = "move" => dst0' = Row("srca", r)
                   /\ x = "store" => dst0' = saved
  <2>1. PICK e \in Insns : e = Instruction(x, r)
    BY <1>2 DEF Instruction, Insns
  <2>2. e.call = calls /\ e.do = x /\ e.row = r /\ Injected(MathThread, e, k)
    BY <1>3, <2>1 DEF Instruction
  <2>3. /\ Injected(MathThread, e, k)' /\ (Ran(k) => Ran(k)')
        /\ \/ /\ Ran(k)' <=> Ran(k)
              /\ Fresh(MathThread) => UNCHANGED <<dst0, saved>>
           \/ Ran(k)' /\ ~Ran(k) /\ Executes(e)
    BY <1>2, <2>2, ThreadStep
  <2>4. Injected(MathThread, Instruction(x, r), k)'
    BY <1>1, <2>1, <2>3 DEF Injected, OnlyLast, Instruction
  <2>5. Executes(e) => /\ saved' = IF x = "save" THEN dst0 ELSE saved
                       /\ x = "save" => dst0' = dst0
                       /\ x = "move" => dst0' = Row("srca", r)
                       /\ x = "store" => dst0' = saved
    BY <2>2 DEF Executes
  <2>. QED  BY <2>3, <2>4, <2>5
<1>4. Resting => Resting'
  BY <1>1 DEF Resting
<1>5. ASSUME NEW k \in 1..7, SavesRow(k)  PROVE SavesRow(k)'
  BY <1>1, <1>3, <1>5 DEF SavesRow
<1>6. ASSUME NEW r \in Nat, NEW k \in 1..7, MovesRow(r, k)  PROVE MovesRow(r, k)'
  BY <1>1, <1>3, <1>6 DEF MovesRow, Kept
<1>7. ASSUME NEW k \in 1..7, StoresRow(k)  PROVE StoresRow(k)'
  BY <1>1, <1>3, <1>7 DEF StoresRow, Kept
<1>8. Quiet /\ Kept => Quiet' /\ Kept' /\ dst0' = dst0
  BY <1>1 DEF Kept
<1>. QED  BY <1>4, <1>5, <1>6, <1>7, <1>8

\* A thread's step is not noticed by the call.
LEMMA ThreadKeeps ==
  ASSUME TypeOK, InstructionInv, NEW u \in Threads, ProgramPushes(u) \/ ExecuteNext(u)
  PROVE  InstructionInv'
<1>1. CASE calls = 0
  <2>1. /\ op = [method |-> "none"] /\ outcome # "busy" /\ TensixOK /\ FifosOK /\ calls \in Nat
    BY <1>1 DEF TypeOK, CallOK, InstructionInv, FifosOK
  <2>2. UNCHANGED <<op, outcome, calls>>
    BY DEF ProgramPushes, ExecuteNext
  <2>3. FifosOK'
    <3>1. CASE ProgramPushes(u)
      <4>1. Added(u, OfProgram) /\ OfProgram \in Insns /\ OfProgram.call <= calls
            /\ OfProgram.do \notin {"save", "move", "store"}
        BY <1>1, <3>1 DEF ProgramPushes, Added, OfProgram, Insns, Names
      <4>. QED  BY <2>1, <2>2, <4>1, AddedEntries
    <3>2. CASE ExecuteNext(u)
      BY <2>1, <3>2, TakenEntries
    <3>. QED  BY <3>1, <3>2
  <2>. QED  BY <2>1, <2>2, <2>3 DEF InstructionInv, InjectOK, FileOK, Ended
<1>2. CASE calls # 0
  <2>1. calls >= 1 /\ calls \in Nat /\ FifosOK /\ InjectOK /\ FileOK
        /\ (outcome = "busy" => op \in Ops)
    BY <1>2 DEF TypeOK, CallOK, InstructionInv
  <2>2. /\ UNCHANGED <<op, script, got, outcome, calls, before, claim, array_en, array_row>>
        /\ Quiet => Quiet' /\ executed' = executed
        /\ FifosOK'
    BY <2>1, ThreadStep
  <2>3. InjectOK'
    <3>1. ASSUME outcome = "busy", op.method = "inject_instruction"
          PROVE  \E k \in 1..7 : InjectAt(k)'
      <4>1. PICK k \in 1..7 : InjectAt(k)
        BY <2>1, <3>1 DEF InjectOK
      <4>2. PICK t \in Threads : t = op.thread
        BY <2>1, <3>1 DEF Ops
      <4>3. PICK e \in Insns : e = Instruction("other", 0)
        BY <2>1 DEF Instruction, Insns, Names
      <4>4. e.call = calls /\ e.do = "other" /\ Injected(t, e, k)
            /\ executed = IF Ran(k) THEN <<"other">> ELSE <<>>
        BY <4>1, <4>2, <4>3 DEF InjectAt, Instruction
      <4>5. /\ Injected(t, e, k)'
            /\ \/ executed' = executed /\ (Ran(k)' <=> Ran(k))
               \/ Ran(k)' /\ ~Ran(k) /\ Executes(e)
        BY <2>1, <4>4, ThreadStep
      <4>6. executed' = IF Ran(k)' THEN <<"other">> ELSE <<>>
        BY <4>4, <4>5 DEF Executes
      <4>7. Injected(op.thread, Instruction("other", 0), k)'
        BY <2>2, <4>2, <4>3, <4>5 DEF Injected, OnlyLast, Instruction
      <4>8. script' = From(Inject(With("other", 0), op'.thread), k)
        BY <2>2, <4>1 DEF InjectAt
      <4>. QED  BY <4>6, <4>7, <4>8 DEF InjectAt
    <3>. QED  BY <2>1, <2>2, <3>1 DEF InjectOK, Ended
  <2>4. FileOK'
    <3>1. /\ Resting => Resting'
          /\ \A k \in 1..7 : SavesRow(k) => SavesRow(k)'
          /\ \A r \in Nat, k \in 1..7 : MovesRow(r, k) => MovesRow(r, k)'
          /\ \A k \in 1..7 : StoresRow(k) => StoresRow(k)'
          /\ Quiet /\ Kept => Quiet' /\ Kept' /\ dst0' = dst0
      BY <2>1, RowStep
    <3>2. \A n : GotRows(n) => GotRows(n)'
      BY <2>2, SameRows
    <3>3. StartAt => StartAt'
      BY <2>2, <3>1, <3>2 DEF StartAt
    <3>4. ASSUME NEW r \in 0..LastRow, NEW k \in 1..23, SrcaRow(r, k)  PROVE SrcaRow(r, k)'
      <4>1. r \in Nat /\ GotRows(IF k <= 16 THEN r ELSE r + 1)'
        BY <3>2, <3>4, Bounds DEF SrcaRow
      <4>2. k <= 7 => SavesRow(k)'
        BY <3>1, <3>4 DEF SrcaRow
      <4>3. 8 <= k /\ k <= 14 => MovesRow(r, k - 7)'
        <5>1. 8 <= k /\ k <= 14 => k - 7 \in 1..7
          OBVIOUS
        <5>. QED  BY <3>1, <3>4, <4>1, <5>1 DEF SrcaRow
      <4>4. k \in {15, 16} => (Quiet /\ Kept /\ dst0 = Row("srca", r))'
        BY <3>1, <3>4 DEF SrcaRow
      <4>5. k >= 17 => StoresRow(k - 16)'
        <5>1. k >= 17 => k - 16 \in 1..7
          OBVIOUS
        <5>. QED  BY <3>1, <3>4, <5>1 DEF SrcaRow
      <4>. QED  BY <2>2, <3>4, <4>1, <4>2, <4>3, <4>4, <4>5 DEF SrcaRow
    <3>5. ASSUME NEW r \in 0..LastRow, NEW k \in 1..2, DstRow(r, k)  PROVE DstRow(r, k)'
      BY <2>2, <3>1, <3>2, <3>5 DEF DstRow
    <3>6. ASSUME NEW r \in 0..LastRow, NEW k \in 1..Len(ReadRow(op.file, r)), RowAt(r, k),
                 op.file \in {"dst", "srca"}
          PROVE  RowAt(r, k)' /\ k \in 1..Len(ReadRow(op'.file, r))
      <4>1. r \in Nat
        BY Bounds
      <4>2. /\ op.file = "dst" => k \in 1..2 /\ DstRow(r, k)
            /\ op.file # "dst" => k \in 1..23 /\ SrcaRow(r, k)
        BY <3>6, <4>1, ReadAccesses, SrcaAccesses DEF RowAt
      <4>3. IF op'.file = "dst" THEN DstRow(r, k)' ELSE SrcaRow(r, k)'
        BY <2>2, <3>4, <3>5, <4>2
      <4>4. /\ script' = From(ReadRow(op'.file, r), k) \o Remaining(op'.file, r + 1)
            /\ array_en'
        BY <2>2, <3>6 DEF RowAt
      <4>. QED  BY <2>2, <4>3, <4>4 DEF RowAt
    <3>7. ASSUME NEW k \in 1..2, OffAt(k)  PROVE OffAt(k)'
      BY <2>2, <3>1, <3>2, <3>7 DEF OffAt
    <3>8. ASSUME outcome = "busy", op.method = "read_regfile", Reading  PROVE Reading'
      <4>1. op.file \in {"dst", "srca"}
        BY <2>1, <3>8 DEF Ops
      <4>2. ASSUME NEW r \in 0..LastRow, NEW k \in 1..Len(ReadRow(op.file, r)), RowAt(r, k)
            PROVE  (\E q \in 0..LastRow : \E i \in 1..Len(ReadRow(op.file, q)) : RowAt(q, i))'
        <5>1. RowAt(r, k)' /\ k \in 1..Len(ReadRow(op'.file, r))
          BY <3>6, <4>1, <4>2
        <5>. QED  BY <5>1
      <4>. QED  BY <3>3, <3>7, <3>8, <4>2 DEF Reading
    <3>. QED  BY <2>1, <2>2, <3>1, <3>2, <3>8 DEF FileOK, Ended
  <2>. QED  BY <2>2, <2>3, <2>4 DEF InstructionInv
<1>. QED  BY <1>1, <1>2

\* A call starts: what is in the FIFOs is of earlier ones.
LEMMA CallStarts ==
  ASSUME TypeOK, InstructionInv, NEW o \in Ops, Call(o)
  PROVE  InstructionInv'
<1>. DEFINE b == \A t \in Threads : \A i \in DOMAIN fifo[t] : fifo[t][i] = OfProgram
<1>1. /\ op' = o /\ script' = Script(o) /\ got' = <<>> /\ executed' = <<>> /\ outcome' # "ok"
      /\ calls' = calls + 1 /\ before' = [dst0 |-> dst0, clean |-> b]
      /\ outcome' = "busy" <=> Script(o) # <<>>
  BY Zenon DEF Call
<1>2. UNCHANGED tensix
  BY DEF Call
<1>3. calls \in Nat /\ FifosOK /\ TensixOK
  BY DEF TypeOK, CallOK, InstructionInv
<1>4. \A u \in Threads : \A i \in 1..Len(fifo[u]) : fifo[u][i].call \in Nat
  BY <1>3, Lengths DEF Insns
<1>5. Quiet' /\ FifosOK'
  BY <1>1, <1>2, <1>3, <1>4 DEF Quiet, FifosOK, tensix
<1>6. before'.clean => AllFresh' /\ dst0' = before'.dst0
  <2>1. before'.clean = b /\ before'.dst0 = dst0
    BY <1>1
  <2>2. b => \A u \in Threads : \A i \in 1..Len(fifo[u]) : fifo[u][i] = OfProgram
    <3>1. \A u \in Threads : DOMAIN fifo[u] = 1..Len(fifo[u])
      BY <1>3, LenProperties DEF TensixOK
    <3>. QED  BY <3>1
  <2>. HIDE DEF b
  <2>. QED  BY <1>2, <2>1, <2>2 DEF AllFresh, Fresh, tensix
<1>. HIDE DEF b
<1>7. ASSUME o.method = "inject_instruction"  PROVE InjectAt(1)'
  <2>1. o.thread \in Threads /\ "other" \in Names
    BY <1>7 DEF Ops, Names
  <2>2. Script(o) = Inject(With("other", 0), o.thread)
    BY <1>7 DEF Script
  <2>. DEFINE s == Inject(With("other", 0), o.thread)
  <2>3. s \in Seq(OnTensix)
    BY <2>1, InjectAccesses
  <2>. HIDE DEF s
  <2>4. s = From(s, 1)
    BY ONLY <2>3, SubSeqFull DEF From
  <2>5. script' = From(Inject(With("other", 0), op'.thread), 1)
    BY <1>1, <2>2, <2>4 DEF s
  <2>. QED  BY <1>1, <1>5, <2>5 DEF InjectAt, Injected, Ran
<1>8. ASSUME o.method = "read_regfile"  PROVE StartAt'
  <2>1. o.file \in {"dst", "srca"}
    BY <1>8 DEF Ops
  <2>2. script' = <<With("enable", TRUE)>> \o Remaining(op'.file, 0)
    BY <1>1, <1>8, <2>1, RemainingDef DEF Script
  <2>3. GotRows(0)'
    <3>. DEFINE f == [i \in 1..0 |-> IF op'.file = "dst" /\ i = 1 THEN before'.dst0
                                     ELSE Row(op'.file, i - 1)]
    <3>1. f = <<>>
      OBVIOUS
    <3>. QED  BY <1>1, <3>1 DEF GotRows
  <2>. QED  BY <1>5, <1>6, <2>2, <2>3 DEF StartAt, Resting
<1>9. InjectOK'
  <2>1. (1 \in 1..7)
    OBVIOUS
  <2>. QED  BY <1>1, <1>7, <2>1 DEF InjectOK, Ended
<1>10. FileOK'
  BY <1>1, <1>8 DEF FileOK, Reading, Ended
<1>. QED  BY <1>5, <1>9, <1>10 DEF InstructionInv

\* The invariant of the injections and of the register files is inductive.
LEMMA InstructionStep == TypeOK /\ InstructionInv /\ [Next]_vars => InstructionInv'
<1>. SUFFICES ASSUME TypeOK, InstructionInv, [Next]_vars  PROVE InstructionInv'
  OBVIOUS
<1>1. ASSUME NEW o \in Ops, Call(o)  PROVE InstructionInv'
  BY <1>1, CallStarts
<1>2. CASE Host
  <2>1. FifosOK /\ InjectOK /\ FileOK /\ op' = op
    BY <1>2, Dispatch DEF InstructionInv
  <2>2. CASE op.method = "inject_instruction"
    <3>1. InjectOK' /\ FifosOK'
      BY <1>2, <2>1, <2>2, InjectHost
    <3>2. FileOK'
      BY <2>1, <2>2 DEF FileOK, Ended
    <3>. QED  BY <3>1, <3>2 DEF InstructionInv
  <2>3. CASE op.method = "read_regfile"
    <3>1. FileOK' /\ FifosOK'
      BY <1>2, <2>1, <2>3, FileHost
    <3>2. InjectOK'
      BY <2>1, <2>3 DEF InjectOK, Ended
    <3>. QED  BY <3>1, <3>2 DEF InstructionInv
  <2>4. CASE ~Injecting
    <3>1. op' = op /\ calls' = calls /\ outcome = "busy"
      BY <1>2, Dispatch
    <3>2. Head(script).do \in {"select", "data", "reg0", "reg1", "reg2", "sentinel", "await", "line"}
      <4>1. script \in Seq(OnBus) /\ script # <<>>
        BY <2>4, <3>1 DEF TypeOK, ScriptOK
      <4>2. Head(script) \in OnBus
        BY <4>1, HeadTailProperties
      <4>. QED  BY <4>2 DEF OnBus
    <3>3. UNCHANGED fifo
      BY <1>2, <3>2 DEF Host, Select, ReadData, SetLines, WriteReg2, WriteSentinel, Await,
                        ReadLine, Poll, Claim, Stage, Push, SetArray, ReadArray, Due, tensix
    <3>4. FifosOK'
      BY <2>1, <3>1, <3>3 DEF FifosOK
    <3>5. InjectOK' /\ FileOK'
      BY <2>4, <3>1 DEF Injecting, InjectOK, FileOK, Ended
    <3>. QED  BY <3>4, <3>5 DEF InstructionInv
  <2>. QED  BY <2>2, <2>3, <2>4 DEF Injecting
<1>3. CASE AccessFails
  <2>1. UNCHANGED <<tensix, op, calls>> /\ outcome' = "raised"
    BY <1>3 DEF AccessFails
  <2>2. FifosOK'
    BY <2>1 DEF InstructionInv, FifosOK, tensix
  <2>. QED  BY <2>1, <2>2 DEF InstructionInv, InjectOK, FileOK, Ended
<1>4. CASE UNCHANGED <<tensix, op, script, got, outcome, calls, history>>
  <2>1. UNCHANGED <<claim, staged, fifo, dst0, saved, array_en, array_row, op, script, got,
                    outcome, calls, before, executed>>
    BY <1>4 DEF tensix, history
  <2>2. /\ FifosOK' /\ (Quiet' <=> Quiet) /\ (Kept' <=> Kept) /\ (Resting' <=> Resting)
        /\ (AllFresh' <=> AllFresh)
    BY <2>1, Untouched DEF InstructionInv, AllFresh
  <2>3. ASSUME NEW t \in Threads, NEW x, NEW row, NEW j
        PROVE  /\ Injected(t, Instruction(x, row), j)' <=> Injected(t, Instruction(x, row), j)
               /\ Ran(j)' <=> Ran(j)
    BY <2>1, <2>2 DEF Injected, Instruction, OnlyLast, Ran
  <2>4. \A n : GotRows(n)' <=> GotRows(n)
    BY <2>1 DEF GotRows, Told
  <2>5. InjectOK'
    <3>1. ASSUME outcome = "busy", op.method = "inject_instruction", NEW k \in 1..7, InjectAt(k)
          PROVE  InjectAt(k)'
      <4>1. op.thread \in Threads
        BY <3>1 DEF TypeOK, CallOK, Ops
      <4>2. Injected(op.thread, Instruction("other", 0), k)'
        BY <2>1, <2>2, <3>1 DEF InjectAt, Injected, Instruction, OnlyLast
      <4>. QED  BY <2>1, <2>3, <3>1, <4>1, <4>2 DEF InjectAt
    <3>. QED  BY <2>1, <2>2, <3>1 DEF InstructionInv, InjectOK, Ended
  <2>6. FileOK'
    <3>1. StartAt => StartAt'
      BY <2>1, <2>2, <2>4 DEF StartAt
    <3>2. \A k \in 1..2 : OffAt(k) => OffAt(k)'
      BY <2>1, <2>2, <2>4 DEF OffAt
    <3>3. \A r, k : RowAt(r, k) => RowAt(r, k)'
      <4>1. \A r, k : DstRow(r, k) => DstRow(r, k)'
        BY <2>1, <2>2, <2>4 DEF DstRow
      <4>2. \A k : SavesRow(k) => SavesRow(k)'
        BY <2>1, <2>2, <2>3, Bounds DEF SavesRow
      <4>3. \A r, k : MovesRow(r, k) => MovesRow(r, k)'
        BY <2>1, <2>2, <2>3, Bounds DEF MovesRow
      <4>4. \A k : StoresRow(k) => StoresRow(k)'
        BY <2>1, <2>2, <2>3, Bounds DEF StoresRow
      <4>5. \A r, k : SrcaRow(r, k) => SrcaRow(r, k)'
        BY <2>1, <2>2, <2>4, <4>2, <4>3, <4>4 DEF SrcaRow
      <4>. QED  BY <2>1, <4>1, <4>5 DEF RowAt
    <3>4. Reading => Reading'
      <4>1. ASSUME NEW r \in 0..LastRow, NEW k \in 1..Len(ReadRow(op.file, r)), RowAt(r, k)
            PROVE  (\E q \in 0..LastRow : \E i \in 1..Len(ReadRow(op.file, q)) : RowAt(q, i))'
        BY <2>1, <3>3, <4>1
      <4>. QED  BY <3>1, <3>2, <4>1 DEF Reading
    <3>. QED  BY <2>1, <2>2, <2>4, <3>4 DEF InstructionInv, FileOK, Ended
  <2>. QED  BY <2>2, <2>5, <2>6 DEF InstructionInv
<1>5. TakeSample \/ UNCHANGED vars => UNCHANGED <<tensix, op, script, got, outcome, calls, history>>
  BY DEF TakeSample, vars
<1>6. ASSUME NEW t \in Threads, ProgramPushes(t) \/ ExecuteNext(t)  PROVE InstructionInv'
  BY <1>6, ThreadKeeps
<1>. QED  BY <1>1, <1>2, <1>3, <1>4, <1>5, <1>6 DEF Next, Host

LEMMA InstructionInit == Init => InstructionInv
<1>. SUFFICES ASSUME Init  PROVE InstructionInv
  OBVIOUS
<1>1. \A u \in Threads : Len(fifo[u]) = 0
  BY DEF Init
<1>2. FifosOK
  BY <1>1 DEF Init, FifosOK, Ops
<1>. QED  BY <1>2 DEF Init, InstructionInv, InjectOK, FileOK, Ended

\* An injected instruction has been executed once when inject_instruction
\* returns, and the FIFO is the program's again: the FIFO is checked for room
\* once more after it was claimed, so that what the program pushed in between
\* cannot make the push get lost (_start_insn_push, _insn_push, _end_insn_push).
THEOREM InjectedExactlyOnce == Spec => []InjectedOnce
<1>1. InstructionInv => InjectedOnce
  BY DEF InstructionInv, InjectOK, InjectedOnce
<1>. QED  BY TypeCorrect, InstructionInit, InstructionStep, <1>1, PTL DEF Spec

\* read_regfile returns the rows of the file, and leaves row 0 of DST, which a
\* row of SRCA is moved over, as it was, for any number of rows and whatever
\* the program executes meanwhile, unless an instruction of an earlier call
\* that raised is still to be executed (read_regfile_data).
THEOREM FilesAreExact == Spec => []FileExact
<1>1. InstructionInv => FileExact
  <2>. SUFFICES ASSUME InstructionInv, Ended("read_regfile"), Told
                PROVE  /\ got = [i \in 1..(LastRow + 1) |->
                                   IF op.file = "dst" /\ i = 1 THEN before.dst0
                                   ELSE Row(op.file, i - 1)]
                       /\ before.clean => dst0 = before.dst0 /\ ~array_en
    BY DEF FileExact, Told
  <2>. QED  BY DEF InstructionInv, FileOK, Resting, GotRows
<1>. QED  BY TypeCorrect, InstructionInit, InstructionStep, <1>1, PTL DEF Spec
=============================================================================
