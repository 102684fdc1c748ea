-------------------------- MODULE GdbPackets_proofs --------------------------
(***************************************************************************)
(* Theorems about GdbPackets for any payloads and any number of packets,   *)
(* breaks, errors and packets in two pieces: the messages are those of the *)
(* packets, in their order, and the answers are taken for the right ones.  *)
(*                                                                         *)
(* The inductive invariant gives every byte in the buffer and every piece  *)
(* on the wire a tag: the packet it is of and its place in the frame.  The *)
(* tags follow each other without a gap (Tagged) and no packet in flight   *)
(* is older than one delivered (Ordered); what was read of a frame is the  *)
(* beginning of its payload (InFrame); and as long as no packet was sent   *)
(* again, there is one thing for the client to wait for: a frame that      *)
(* begins in flight, a message that is handled, or a reply (Answering).    *)
(***************************************************************************)
EXTENDS GdbPackets, FiniteSetTheorems, SequenceTheorems, TLAPS

---------------------------------------------------------------------------
(* What is in flight.                                                      *)

\* Of which packet a byte or a piece is, and from where to where it lies in
\* the frame.  A break or an acknowledgment is of none, and has from = 0.
Tags == [of : Nat, from : Nat, to : Nat]

EndsFrame(out, t) == t.from = 0 \/ t.to = Len(Frame(out[t.of]))

\* A byte in the buffer.
OnByte(out, byte, t) ==
  /\ t.of \in 0..Len(out)
  /\ t.from = 0 => byte \in {BREAK, PLUS}
  /\ t.from # 0 => /\ t.of # 0 /\ t.to = t.from
                   /\ t.from <= Len(Frame(out[t.of])) /\ byte = Frame(out[t.of])[t.from]

\* A piece on the wire: a frame, or its beginning, or its end.
OnPiece(out, bytes, t) ==
  /\ t.of \in 0..Len(out)
  /\ t.from = 0 => bytes \in {<<BREAK>>, <<PLUS>>}
  /\ t.from # 0 => /\ t.of # 0 /\ t.from <= t.to /\ t.to <= Len(Frame(out[t.of]))
                   /\ Len(bytes) = (t.to - t.from) + 1
                   /\ \A i \in 1..Len(bytes) : bytes[i] = Frame(out[t.of])[t.from + i - 1]
                   /\ t.from = 1 \/ t.to = Len(Frame(out[t.of]))

\* The next one goes on where the last one has ended.
Follows(out, s, t) ==
  IF EndsFrame(out, s) THEN t.from <= 1 ELSE t.of = s.of /\ t.from = s.to + 1

Linked(out, tags, n) ==
  /\ \A j, k \in 1..n : j <= k => tags[j].of <= tags[k].of
  /\ \A k \in 1..(n - 1) : Follows(out, tags[k], tags[k + 1])

\* The bytes of the buffer come first, then the pieces on the wire.
Placing(out, buffer, pieces, tags) ==
  /\ tags \in [1..(Len(buffer) + Len(pieces)) -> Tags]
  /\ \A k \in 1..Len(buffer) : OnByte(out, buffer[k], tags[k])
  /\ \A k \in 1..Len(pieces) : OnPiece(out, pieces[k], tags[Len(buffer) + k])
  /\ Linked(out, tags, Len(buffer) + Len(pieces))

\* No frame is without its end.
Complete(out, tags, n) == n > 0 => EndsFrame(out, tags[n])

Flying == Len(input_buffer) + Len(wire)
Tagged(tags) ==
  Placing(outgoing, input_buffer, wire, tags) /\ Complete(outgoing, tags, Flying)

\* The packets that were delivered are no later than those in flight.
Ordering(out, messages, tags, n) ==
  \E f \in [1..Len(messages) -> 1..Len(out)] :
    /\ \A i \in 1..Len(messages) : messages[i] = out[f[i]]
    /\ \A i \in 1..(Len(messages) - 1) : f[i] <= f[i + 1]
    /\ \A i \in 1..Len(messages), k \in 1..n : f[i] <= tags[k].of

Ordered(tags) == Ordering(outgoing, delivered, tags, Flying)

\* The escaped form of the first m bytes of a payload is e[m] long.
Special == {HASH, DOLLAR, STAR, ESCAPE}
Escapes(p, e) ==
  /\ e \in [0..Len(p) -> Nat] /\ e[0] = 0 /\ e[Len(p)] = Len(Escaped(p))
  /\ \A m \in 0..Len(p) : e[m] <= Len(Escaped(p))
  /\ \A m \in 1..Len(p) :
       /\ p[m] \in Special => /\ e[m] = e[m - 1] + 2
                              /\ Escaped(p)[e[m - 1] + 1] = ESCAPE
                              /\ Escaped(p)[e[m - 1] + 2] = Flip(p[m])
       /\ p[m] \notin Special => /\ e[m] = e[m - 1] + 1
                                 /\ Escaped(p)[e[m - 1] + 1] = p[m]

\* So far the message is a beginning of the payload.
Parsed(p) ==
  /\ server = "body" =>
       \E e \in [0..Len(p) -> Nat], m \in 0..Len(p) :
         /\ Escapes(p, e) /\ next_message = SubSeq(p, 1, m)
         /\ ~should_escape => position = e[m] + 1
         /\ should_escape => m < Len(p) /\ p[m + 1] \in Special /\ position = e[m] + 2
  /\ server = "digit1" => next_message = p /\ position = Len(Frame(p)) - 2
  /\ server = "digit2" => next_message = p /\ position = Len(Frame(p)) - 1

InFrame(tags) ==
  server \in {"body", "digit1", "digit2"} =>
    /\ position \in 1..Len(input_buffer)
    /\ \A j \in 1..position : tags[j].from = j /\ tags[j].of = tags[1].of
    /\ Parsed(outgoing[tags[1].of])

\* The client waits for the answer to its last packet.
Waits == client # "ready" /\ Len(answered) = Len(outgoing) - 1
Replies == {k \in 1..Len(answers) : answers[k].text = "reply"}
Handling == server \in {"handle", "watch"}

\* A frame begins in flight only where there is a tag of a first byte.
Begin(tags, n) == {k \in 1..n : tags[k].from = 1}
Alone(tags, n) == \A j, k \in Begin(tags, n) : j = k

\* coming: the beginning of a packet is in flight.
Dialogue(coming) ==
  /\ client = "ready" => Len(answered) = Len(outgoing)
  /\ Len(answered) <= Len(outgoing)
  /\ \A i \in 1..Len(answered) :
       answered[i] \in 1..Len(delivered) /\ delivered[answered[i]] = outgoing[i]
  /\ coming => Waits /\ ~Handling /\ Replies = {}
  /\ Handling => /\ Waits /\ Replies = {}
                 /\ Len(delivered) > 0 /\ delivered[Len(delivered)] = outgoing[Len(outgoing)]
  /\ \A k \in Replies : /\ Waits /\ Replies = {k} /\ answers[k].of \in 1..Len(delivered)
                        /\ delivered[answers[k].of] = outgoing[Len(outgoing)]

\* It is that of the last packet, and only one.
Fresh(out, tags, n) == Alone(tags, n) /\ \A k \in Begin(tags, n) : tags[k].of = Len(out)

Answering(tags) ==
  Fresh(outgoing, tags, Flying) /\ Dialogue(Begin(tags, Flying) # {})

AtStart == server \in {"read", "handle", "watch"} => position = 0

Good(tags) ==
  Tagged(tags) /\ Ordered(tags) /\ InFrame(tags) /\ (repeated \/ Answering(tags))
StreamOK == torn \/ \E tags \in [1..Flying -> Tags] : Good(tags)
---------------------------------------------------------------------------
(* Induction, and sequences that are joined.                               *)

\* Otherwise n \notin S, and x + 1 is an injection of the elements of S up to
\* n, which are finitely many, into those of them that are not 0.
LEMMA Induction ==
  ASSUME NEW S \in SUBSET Nat, 0 \in S, \A n \in S : n + 1 \in S
  PROVE  S = Nat
<1>1. SUFFICES ASSUME NEW n \in Nat, n \notin S PROVE FALSE
  OBVIOUS
<1>. DEFINE X == {x \in S : x <= n}
            next == [x \in X |-> x + 1]
<1>2. \A x \in X : x + 1 \in X \ {0}
  BY <1>1
<1>3. IsFiniteSet(X) /\ 0 \in X
  <2>1. X \in SUBSET Nat /\ \A x \in X : x <= n
    OBVIOUS
  <2>2. IsFiniteSet(X)
    BY <1>1, <2>1, FS_BoundedSetOfNaturals
  <2>. QED  BY <2>2, <1>1
<1>4. IsFiniteSet(X \ {0}) /\ Cardinality(X \ {0}) < Cardinality(X)
  <2>1. Cardinality(X) \in Nat
    BY <1>3, FS_CardinalityType
  <2>2. IsFiniteSet(X \ {0}) /\ Cardinality(X \ {0}) = Cardinality(X) - 1
    BY <1>3, FS_RemoveElement
  <2>. QED  BY <2>1, <2>2
<1>5. next \in [X -> X \ {0}]
  BY <1>2
<1>6. \E x, y \in X : x # y /\ next[x] = next[y]
  <2>. HIDE DEF X, next
  <2>. QED  BY <1>3, <1>4, <1>5, FS_PigeonHole
<1>. QED  BY <1>6

\* Up to a bound.
LEMMA BoundedInduction ==
  ASSUME NEW n \in Nat, NEW S, 0 \in S, \A m \in 0..(n - 1) : m \in S => m + 1 \in S
  PROVE  0..n \subseteq S
<1>. DEFINE X == {m \in Nat : m <= n => m \in S}
<1>1. X \in SUBSET Nat /\ 0 \in X
  OBVIOUS
<1>2. ASSUME NEW m \in X  PROVE m + 1 \in X
  OBVIOUS
<1>3. X = Nat
  <2>. HIDE DEF X
  <2>. QED  BY <1>1, <1>2, Induction
<1>. QED  BY <1>3

LEMMA LenIsNat ==
  ASSUME NEW T, NEW s \in Seq(T)
  PROVE  Len(s) \in Nat /\ (s = <<>> <=> Len(s) = 0)
BY EmptySeq, LenProperties

\* The elements of two sequences, one after the other.
LEMMA Joined ==
  ASSUME NEW T, NEW s \in Seq(T), NEW r \in Seq(T)
  PROVE  /\ s \o r \in Seq(T) /\ Len(s \o r) = Len(s) + Len(r)
         /\ \A k \in 1..Len(s) : (s \o r)[k] = s[k]
         /\ \A k \in 1..Len(r) : (s \o r)[Len(s) + k] = r[k]
<1>1. /\ s \o r \in Seq(T) /\ Len(s \o r) = Len(s) + Len(r)
      /\ \A k \in 1..(Len(s) + Len(r)) :
           (s \o r)[k] = IF k <= Len(s) THEN s[k] ELSE r[k - Len(s)]
  BY ConcatProperties
<1>2. Len(s) \in Nat /\ Len(r) \in Nat
  BY LenIsNat
<1>3. ASSUME NEW k \in 1..Len(s)  PROVE (s \o r)[k] = s[k]
  BY <1>1, <1>2
<1>4. ASSUME NEW k \in 1..Len(r)  PROVE (s \o r)[Len(s) + k] = r[k]
  <2>1. /\ Len(s) + k \in 1..(Len(s) + Len(r)) /\ ~(Len(s) + k <= Len(s))
        /\ (Len(s) + k) - Len(s) = k
    BY <1>2
  <2>. QED  BY ONLY <1>1, <2>1
<1>. QED  BY <1>1, <1>3, <1>4

\* f[m] is the first m of the sequences of w, joined.
Joins(w, f) ==
  f[0] = <<>> /\ \A i \in 1..Len(w) : f[i] = f[i - 1] \o w[i]

LEMMA JoinsExist ==
  ASSUME NEW T, NEW w \in Seq(Seq(T))
  PROVE  \E f \in [0..Len(w) -> Seq(T)] : Joins(w, f)
<1>. DEFINE n == Len(w)
            Upto(m, f) == f[0] = <<>> /\ \A i \in 1..m : f[i] = f[i - 1] \o w[i]
            S == {m \in 0..n : \E f \in [0..m -> Seq(T)] : Upto(m, f)}
<1>1. n \in Nat /\ \A i \in 1..n : w[i] \in Seq(T)
  BY LenIsNat, ElementOfSeq
<1>2. 0 \in S
  <2>. DEFINE f == [r \in 0..0 |-> <<>>]
  <2>1. f \in [0..0 -> Seq(T)]
    BY EmptySeq
  <2>2. Upto(0, f)
    OBVIOUS
  <2>. HIDE DEF f
  <2>3. \E g \in [0..0 -> Seq(T)] : Upto(0, g)
    BY ONLY <2>1, <2>2
  <2>4. 0 \in 0..n
    BY <1>1
  <2>. QED  BY ONLY <2>3, <2>4
<1>3. ASSUME NEW m \in 0..(n - 1), m \in S  PROVE m + 1 \in S
  <2>1. PICK f \in [0..m -> Seq(T)] : Upto(m, f)
    BY <1>3
  <2>. DEFINE g == [i \in 0..(m + 1) |-> IF i = m + 1 THEN f[m] \o w[m + 1] ELSE f[i]]
  <2>2. f[m] \o w[m + 1] \in Seq(T)
    <3>1. f[m] \in Seq(T) /\ w[m + 1] \in Seq(T)
      BY <1>1
    <3>. QED  BY <3>1, Joined
  <2>3. g \in [0..(m + 1) -> Seq(T)]
    BY <1>1, <2>2
  <2>4. Upto(m + 1, g)
    <3>1. g[0] = <<>>
      BY <1>1, <2>1
    <3>2. ASSUME NEW i \in 1..(m + 1)  PROVE g[i] = g[i - 1] \o w[i]
      <4>1. CASE i = m + 1
        <5>1. i - 1 = m /\ i \in 0..(m + 1) /\ m \in 0..(m + 1) /\ m # m + 1
          BY <1>1, <4>1
        <5>. QED  BY ONLY <4>1, <5>1
      <4>2. CASE i # m + 1
        <5>1. i \in 1..m /\ i \in 0..(m + 1) /\ i - 1 \in 0..(m + 1) /\ i - 1 # m + 1
          BY <1>1, <4>2
        <5>2. g[i] = f[i] /\ g[i - 1] = f[i - 1]
          BY ONLY <4>2, <5>1
        <5>. QED  BY <2>1, <5>1, <5>2
      <4>. HIDE DEF g, n, S
      <4>. QED  BY ONLY <4>1, <4>2
    <3>. HIDE DEF g, n, S
    <3>. QED  BY ONLY <3>1, <3>2
  <2>. HIDE DEF g
  <2>5. m + 1 \in 0..n
    BY <1>1
  <2>. QED  BY <2>3, <2>4, <2>5
<1>4. n \in S
  <2>1. 0..n \subseteq S
    <3>. HIDE DEF S
    <3>. QED  BY <1>1, <1>2, <1>3, BoundedInduction
  <2>2. n \in 0..n
    BY <1>1
  <2>. HIDE DEF S
  <2>. QED  BY <2>1, <2>2
<1>. QED  BY <1>4 DEF Joins

LEMMA FlattenJoins ==
  ASSUME NEW T, NEW w \in Seq(Seq(T))
  PROVE  \E f \in [0..Len(w) -> Seq(T)] : Joins(w, f) /\ FlattenSeq(w) = f[Len(w)]
<1>. DEFINE n == Len(w)
            flatten == CHOOSE flatten : flatten =
                         [i \in 1..n |-> IF i = 1 THEN w[i] ELSE flatten[i - 1] \o w[i]]
<1>0. n \in Nat /\ \A i \in 1..n : w[i] \in Seq(T)
  BY LenIsNat, ElementOfSeq
<1>1. PICK f \in [0..n -> Seq(T)] : Joins(w, f)
  BY JoinsExist
<1>2. f[0] = <<>> /\ \A i \in 1..n : f[i] = f[i - 1] \o w[i]
  BY <1>1 DEF Joins
<1>3. \A i \in 1..n : f[i] = IF i = 1 THEN w[i] ELSE f[i - 1] \o w[i]
  <2>1. 1 \in 1..n => f[1] = w[1]
    <3>1. ASSUME 1 \in 1..n  PROVE f[1] = w[1]
      <4>1. f[1] = f[1 - 1] \o w[1] /\ w[1] \in Seq(T)
        BY ONLY <1>0, <1>2, <3>1
      <4>2. <<>> \o w[1] = w[1]
        BY <4>1, ConcatEmptySeq
      <4>3. 1 - 1 = 0
        OBVIOUS
      <4>. QED  BY <1>2, <4>1, <4>2, <4>3
    <3>. QED  BY <3>1
  <2>. QED  BY <1>2, <2>1
<1>4. flatten = [i \in 1..n |-> IF i = 1 THEN w[i] ELSE flatten[i - 1] \o w[i]]
  <2>. DEFINE g == [i \in 1..n |-> f[i]]
  <2>1. ASSUME NEW i \in 1..n  PROVE g[i] = IF i = 1 THEN w[i] ELSE g[i - 1] \o w[i]
    <3>1. CASE i = 1
      BY <1>3, <3>1
    <3>2. CASE i # 1
      <4>1. i - 1 \in 1..n
        BY <1>0, <3>2
      <4>. QED  BY <1>3, <3>2, <4>1
    <3>. QED  BY <3>1, <3>2
  <2>2. g = [i \in 1..n |-> IF i = 1 THEN w[i] ELSE g[i - 1] \o w[i]]
    BY <2>1
  <2>. HIDE DEF g
  <2>. QED  BY <2>2, Zenon
<1>5. n # 0 => FlattenSeq(w) = flatten[n]
  BY Zenon DEF FlattenSeq
<1>. HIDE DEF flatten
<1>6. FlattenSeq(w) = f[n]
  <2>1. CASE n = 0
    <3>1. FlattenSeq(w) = w /\ w = <<>>
      BY <2>1, LenIsNat DEF FlattenSeq
    <3>. QED  BY <1>2, <2>1, <3>1
  <2>2. CASE n # 0
    <3>. DEFINE S == {m \in 0..n : m # 0 => flatten[m] = f[m]}
    <3>1. 0 \in S
      BY <1>0
    <3>2. ASSUME NEW m \in 0..(n - 1), m \in S  PROVE m + 1 \in S
      <4>1. m + 1 \in 1..n /\ m + 1 \in 0..n /\ (m + 1) - 1 = m /\ (m + 1 = 1 <=> m = 0)
        BY <1>0
      <4>2. flatten[m + 1] = IF m + 1 = 1 THEN w[m + 1] ELSE flatten[(m + 1) - 1] \o w[m + 1]
        BY <1>4, <4>1
      <4>3. f[m + 1] = IF m + 1 = 1 THEN w[m + 1] ELSE f[(m + 1) - 1] \o w[m + 1]
        BY <1>3, <4>1
      <4>. QED  BY <3>2, <4>1, <4>2, <4>3
    <3>3. 0..n \subseteq S
      <4>. HIDE DEF S
      <4>. QED  BY <1>0, <3>1, <3>2, BoundedInduction
    <3>4. n \in 0..n
      BY <1>0
    <3>5. n \in S
      <4>. HIDE DEF S
      <4>. QED  BY <3>3, <3>4
    <3>6. flatten[n] = f[n]
      BY ONLY <2>2, <3>5
    <3>. QED  BY <1>5, <2>2, <3>6
  <2>. QED  BY <2>1, <2>2
<1>. QED  BY <1>1, <1>6

\* In s, which is w joined, the i-th sequence of w ends at e[i].
Layout(w, s, e) ==
  /\ e[0] = 0 /\ e[Len(w)] = Len(s)
  /\ \A i \in 1..Len(w) :
       e[i] = e[i - 1] + Len(w[i]) /\ \A o \in 1..Len(w[i]) : s[e[i - 1] + o] = w[i][o]

LEMMA FlattenLayout ==
  ASSUME NEW T, NEW w \in Seq(Seq(T))
  PROVE  /\ FlattenSeq(w) \in Seq(T)
         /\ \E e \in [0..Len(w) -> Nat] : Layout(w, FlattenSeq(w), e)
<1>. DEFINE n == Len(w)
<1>0. n \in Nat /\ \A i \in 1..n : w[i] \in Seq(T)
  BY LenIsNat, ElementOfSeq
<1>1. PICK f \in [0..n -> Seq(T)] : Joins(w, f) /\ FlattenSeq(w) = f[n]
  BY FlattenJoins
<1>2. f[0] = <<>> /\ \A i \in 1..n : f[i] = f[i - 1] \o w[i]
  BY <1>1 DEF Joins
<1>. DEFINE e == [i \in 0..n |-> Len(f[i])]
            Right(m) == \A i \in 1..m : \A o \in 1..Len(w[i]) : f[m][Len(f[i - 1]) + o] = w[i][o]
<1>3. e \in [0..n -> Nat] /\ \A i \in 0..n : f[i] \in Seq(T) /\ Len(f[i]) \in Nat
  BY <1>1, LenIsNat
<1>4. ASSUME NEW i \in 1..n
      PROVE  /\ i - 1 \in 0..n /\ i \in 0..n /\ Len(f[i]) = Len(f[i - 1]) + Len(w[i])
             /\ \A k \in 1..Len(f[i - 1]) : f[i][k] = f[i - 1][k]
             /\ \A k \in 1..Len(w[i]) : f[i][Len(f[i - 1]) + k] = w[i][k]
  <2>1. i - 1 \in 0..n /\ i \in 0..n
    BY <1>0
  <2>2. w[i] \in Seq(T) /\ f[i] = f[i - 1] \o w[i] /\ f[i - 1] \in Seq(T)
    BY ONLY <1>0, <1>2, <1>3, <1>4, <2>1
  <2>. QED  BY <2>1, <2>2, Joined
<1>5. \A m \in 0..n : Right(m)
  <2>. DEFINE S == {m \in 0..n : Right(m)}
  <2>1. 0 \in S
    BY <1>0
  <2>2. ASSUME NEW m \in 0..(n - 1), m \in S  PROVE m + 1 \in S
    <3>1. m + 1 \in 1..n /\ m + 1 \in 0..n /\ (m + 1) - 1 = m
      BY <1>0
    <3>2. ASSUME NEW i \in 1..(m + 1), NEW o \in 1..Len(w[i])
          PROVE  f[m + 1][Len(f[i - 1]) + o] = w[i][o]
      <4>1. CASE i = m + 1
        BY ONLY <1>4, <3>1, <3>2, <4>1
      <4>2. CASE i # m + 1
        <5>1. i \in 1..m /\ i \in 1..n
          BY <1>0, <4>2
        <5>2. f[m][Len(f[i - 1]) + o] = w[i][o]
          BY <2>2, <5>1
        <5>3. Len(f[i - 1]) + o \in 1..Len(f[i])
          <6>1. i - 1 \in 0..n /\ Len(f[i]) = Len(f[i - 1]) + Len(w[i])
            BY ONLY <1>4, <5>1
          <6>2. Len(f[i - 1]) \in Nat /\ Len(w[i]) \in Nat
            BY <1>0, <1>3, <5>1, <6>1, LenIsNat
          <6>. QED  BY ONLY <3>2, <6>1, <6>2
        <5>4. Len(f[i]) <= Len(f[m])
          <6>. DEFINE R == {k \in 0..n : k >= i => Len(f[i]) <= Len(f[k])}
          <6>1. 0 \in R
            BY <1>0
          <6>2. ASSUME NEW k \in 0..(n - 1), k \in R  PROVE k + 1 \in R
            <7>1. k + 1 \in 1..n /\ k + 1 \in 0..n /\ (k + 1) - 1 = k
              BY <1>0
            <7>2. /\ Len(f[k + 1]) = Len(f[k]) + Len(w[k + 1])
                  /\ Len(w[k + 1]) \in Nat /\ Len(f[k]) \in Nat /\ Len(f[k + 1]) \in Nat
              <8>1. w[k + 1] \in Seq(T)
                BY <1>0, <7>1
              <8>2. Len(f[k + 1]) = Len(f[(k + 1) - 1]) + Len(w[k + 1])
                BY ONLY <1>4, <7>1
              <8>3. k \in 0..n
                BY <1>0
              <8>4. Len(f[k]) \in Nat /\ Len(f[k + 1]) \in Nat
                BY ONLY <1>3, <7>1, <8>3
              <8>5. Len(w[k + 1]) \in Nat
                BY <8>1, LenIsNat
              <8>. QED  BY <7>1, <8>2, <8>4, <8>5
            <7>3. Len(f[i]) \in Nat
              <8>1. i \in 0..n
                BY <1>0, <5>1
              <8>. QED  BY <1>3, <8>1
            <7>4. CASE k >= i
              <8>1. Len(f[i]) <= Len(f[k])
                BY <6>2, <7>4
              <8>2. Len(f[i]) <= Len(f[k + 1])
                <9>. DEFINE a == Len(f[i])
                            b == Len(f[k])
                            c == Len(w[k + 1])
                            d == Len(f[k + 1])
                <9>1. /\ a \in Nat /\ b \in Nat /\ c \in Nat /\ d \in Nat
                      /\ a <= b /\ d = b + c
                  BY <7>2, <7>3, <8>1, Zenon
                <9>. HIDE DEF a, b, c, d
                <9>2. a <= d
                  BY ONLY <9>1
                <9>. QED  BY <9>2 DEF a, d
              <8>. QED  BY <7>1, <8>2
            <7>5. CASE ~(k >= i)
              <8>1. k + 1 >= i => k + 1 = i
                BY <7>5, <5>1
              <8>2. k + 1 = i => Len(f[i]) <= Len(f[k + 1])
                BY <7>3
              <8>. QED  BY <7>1, <8>1, <8>2
            <7>. QED  BY <7>4, <7>5
          <6>3. 0..n \subseteq R
            <7>. HIDE DEF R
            <7>. QED  BY <1>0, <6>1, <6>2, BoundedInduction
          <6>4. m \in R
            <7>1. m \in 0..n
              BY <1>0
            <7>. HIDE DEF R
            <7>. QED  BY <6>3, <7>1
          <6>. QED  BY <5>1, <6>4
        <5>5. Len(f[i - 1]) + o \in 1..Len(f[m])
          <6>1. Len(f[i]) \in Nat /\ Len(f[m]) \in Nat
            BY <1>0, <1>3, <5>1
          <6>. QED  BY ONLY <5>3, <5>4, <6>1
        <5>6. f[m + 1][Len(f[i - 1]) + o] = f[m][Len(f[i - 1]) + o]
          <6>1. \A k \in 1..Len(f[(m + 1) - 1]) : f[m + 1][k] = f[(m + 1) - 1][k]
            BY ONLY <1>4, <3>1
          <6>. QED  BY ONLY <3>1, <5>5, <6>1
        <5>. QED  BY <5>2, <5>6
      <4>. QED  BY <4>1, <4>2
    <3>. QED  BY <3>1, <3>2
  <2>3. 0..n \subseteq S
    <3>. HIDE DEF S
    <3>. QED  BY <1>0, <2>1, <2>2, BoundedInduction
  <2>. QED  BY <2>3
<1>6. Layout(w, FlattenSeq(w), e)
  <2>1. e[0] = 0 /\ e[n] = Len(f[n])
    BY <1>0, <1>2
  <2>2. ASSUME NEW i \in 1..n
        PROVE  /\ e[i] = e[i - 1] + Len(w[i])
               /\ \A o \in 1..Len(w[i]) : f[n][e[i - 1] + o] = w[i][o]
    <3>1. i \in 0..n /\ i - 1 \in 0..n /\ n \in 0..n
      BY <1>0
    <3>2. e[i] = Len(f[i]) /\ e[i - 1] = Len(f[i - 1])
      BY <3>1
    <3>3. Right(n)
      BY <1>5, <3>1
    <3>. HIDE DEF e
    <3>4. e[i] = e[i - 1] + Len(w[i])
      BY <1>4, <3>2
    <3>5. \A o \in 1..Len(w[i]) : f[n][e[i - 1] + o] = w[i][o]
      BY <3>2, <3>3
    <3>. QED  BY <3>4, <3>5
  <2>. HIDE DEF e
  <2>. QED  BY <1>1, <2>1, <2>2 DEF Layout
<1>7. FlattenSeq(w) \in Seq(T)
  BY <1>0, <1>1
<1>. HIDE DEF e
<1>. QED  BY <1>3, <1>6, <1>7

\* Later ones end later, and each place lies in one of them.
LEMMA LayoutFacts ==
  ASSUME NEW T, NEW w \in Seq(Seq(T)), NEW s \in Seq(T),
         NEW e \in [0..Len(w) -> Nat], Layout(w, s, e)
  PROVE  /\ \A i, j \in 0..Len(w) : i <= j => e[i] <= e[j]
         /\ \A p \in 1..Len(s) : \E i \in 1..Len(w) : e[i - 1] < p /\ p <= e[i]
<1>. DEFINE n == Len(w)
<1>0. n \in Nat /\ \A i \in 1..n : w[i] \in Seq(T) /\ Len(w[i]) \in Nat
  BY LenIsNat, ElementOfSeq
<1>1. e[0] = 0 /\ e[n] = Len(s) /\ \A i \in 1..n : e[i] = e[i - 1] + Len(w[i])
  BY DEF Layout
<1>2. ASSUME NEW m \in 0..(n - 1)
      PROVE  /\ m + 1 \in 0..n /\ m \in 0..n /\ m + 1 \in 1..n /\ (m + 1) - 1 = m
             /\ e[m] \in Nat /\ e[m + 1] \in Nat /\ e[m] <= e[m + 1]
  <2>1. m + 1 \in 0..n /\ m \in 0..n /\ m + 1 \in 1..n /\ (m + 1) - 1 = m
    BY <1>0
  <2>2. e[m] \in Nat /\ e[m + 1] \in Nat
    BY <2>1
  <2>3. e[m + 1] = e[m] + Len(w[m + 1]) /\ Len(w[m + 1]) \in Nat
    BY <1>0, <1>1, <2>1
  <2>. DEFINE x == e[m]
              y == e[m + 1]
              l == Len(w[m + 1])
  <2>4. x \in Nat /\ y \in Nat /\ l \in Nat /\ y = x + l
    BY ONLY <2>2, <2>3
  <2>. HIDE DEF x, y, l
  <2>5. x <= y
    BY ONLY <2>4
  <2>. QED  BY ONLY <2>1, <2>2, <2>5 DEF x, y
<1>3. ASSUME NEW i \in 0..n, NEW j \in 0..n, i <= j  PROVE e[i] <= e[j]
  <2>. DEFINE S == {m \in 0..n : i <= m => e[i] <= e[m]}
  <2>0. e[i] \in Nat
    OBVIOUS
  <2>1. 0 \in S
    <3>1. 0 \in 0..n /\ (i <= 0 => i = 0)
      BY <1>0
    <3>. QED  BY <2>0, <3>1
  <2>2. ASSUME NEW m \in 0..(n - 1), m \in S  PROVE m + 1 \in S
    <3>1. CASE i <= m
      <4>1. e[i] <= e[m] /\ m + 1 \in 0..n /\ e[m] \in Nat /\ e[m + 1] \in Nat /\ e[m] <= e[m + 1]
        BY <1>2, <2>2, <3>1
      <4>2. e[i] <= e[m + 1]
        <5>. DEFINE x == e[i]
                    y == e[m]
                    z == e[m + 1]
        <5>1. x \in Nat /\ y \in Nat /\ z \in Nat /\ x <= y /\ y <= z
          BY ONLY <2>0, <4>1
        <5>. HIDE DEF x, y, z
        <5>2. x <= z
          BY ONLY <5>1
        <5>. QED  BY ONLY <5>2 DEF x, z
      <4>. QED  BY <4>1, <4>2
    <3>2. CASE ~(i <= m)
      <4>1. m + 1 \in 0..n /\ (i <= m + 1 => i = m + 1)
        BY <1>2, <3>2
      <4>2. i = m + 1 => e[i] <= e[m + 1]
        BY <2>0
      <4>. QED  BY <4>1, <4>2
    <3>. QED  BY <3>1, <3>2
  <2>3. 0..n \subseteq S
    <3>. HIDE DEF S
    <3>. QED  BY <1>0, <2>1, <2>2, BoundedInduction
  <2>. QED  BY <1>3, <2>3
<1>4. ASSUME NEW p \in 1..Len(s)
      PROVE  \E i \in 1..n : e[i - 1] < p /\ p <= e[i]
  <2>. DEFINE Lies == \E i \in 1..n : e[i - 1] < p /\ p <= e[i]
              S == {m \in 0..n : p <= e[m] => Lies}
  <2>1. 0 \in S
    <3>1. 0 \in 0..n /\ ~(p <= e[0])
      BY <1>0, <1>1
    <3>. QED  BY ONLY <3>1
  <2>2. ASSUME NEW m \in 0..(n - 1), m \in S  PROVE m + 1 \in S
    <3>1. CASE p <= e[m]
      <4>. HIDE DEF Lies
      <4>. QED  BY <1>2, <2>2, <3>1
    <3>2. CASE ~(p <= e[m])
      <4>1. (m + 1) - 1 = m /\ m + 1 \in 1..n /\ m + 1 \in 0..n /\ e[m] \in Nat
        BY ONLY <1>2, <2>2
      <4>2. e[(m + 1) - 1] < p
        BY <3>2, <4>1
      <4>3. p <= e[m + 1] => Lies
        BY ONLY <4>1, <4>2
      <4>. HIDE DEF Lies
      <4>. QED  BY ONLY <4>1, <4>3
    <3>. QED  BY <3>1, <3>2
  <2>3. 0..n \subseteq S
    <3>. HIDE DEF S
    <3>. QED  BY <1>0, <2>1, <2>2, BoundedInduction
  <2>4. n \in S
    <3>. HIDE DEF S
    <3>1. n \in 0..n
      BY <1>0
    <3>. QED  BY <2>3, <3>1
  <2>. QED  BY <1>1, <2>4
<1>. QED  BY <1>3, <1>4
---------------------------------------------------------------------------
(* Frames.                                                                 *)

Bytes == 0 .. 255

LEMMA FlipByte ==
  ASSUME NEW b \in Bytes
  PROVE  Flip(b) \in Bytes
BY DEF Flip, Bytes

LEMMA FlipSpecial ==
  ASSUME NEW b \in Special
  PROVE  b \in Bytes /\ Flip(b) # DOLLAR /\ Flip(Flip(b)) = b
<1>1. b \in {35, 36, 42, 125}
  BY DEF Special, HASH, DOLLAR, STAR, ESCAPE
<1>2. CASE b = 35
  <2>1. 35 \div 32 = 1 /\ 1 % 2 = 1 /\ 3 \div 32 = 0 /\ 0 % 2 = 0
    OBVIOUS
  <2>2. Flip(35) = 3 /\ Flip(3) = 35
    BY <2>1 DEF Flip
  <2>. QED  BY <1>2, <2>2 DEF Bytes, DOLLAR
<1>3. CASE b = 36
  <2>1. 36 \div 32 = 1 /\ 1 % 2 = 1 /\ 4 \div 32 = 0 /\ 0 % 2 = 0
    OBVIOUS
  <2>2. Flip(36) = 4 /\ Flip(4) = 36
    BY <2>1 DEF Flip
  <2>. QED  BY <1>3, <2>2 DEF Bytes, DOLLAR
<1>4. CASE b = 42
  <2>1. 42 \div 32 = 1 /\ 1 % 2 = 1 /\ 10 \div 32 = 0 /\ 0 % 2 = 0
    OBVIOUS
  <2>2. Flip(42) = 10 /\ Flip(10) = 42
    BY <2>1 DEF Flip
  <2>. QED  BY <1>4, <2>2 DEF Bytes, DOLLAR
<1>5. CASE b = 125
  <2>1. 125 \div 32 = 3 /\ 3 % 2 = 1 /\ 93 \div 32 = 2 /\ 2 % 2 = 0
    OBVIOUS
  <2>2. Flip(125) = 93 /\ Flip(93) = 125
    BY <2>1 DEF Flip
  <2>. QED  BY <1>5, <2>2 DEF Bytes, DOLLAR
<1>. QED  BY <1>1, <1>2, <1>3, <1>4, <1>5

\* What a byte becomes, and the escaped form of a payload.
Chunk(b) == IF b \in Special THEN <<ESCAPE, Flip(b)>> ELSE <<b>>

LEMMA ChunkBytes ==
  ASSUME NEW b \in Bytes
  PROVE  /\ Chunk(b) \in Seq(Bytes)
         /\ b \in Special => Len(Chunk(b)) = 2 /\ Chunk(b)[1] = ESCAPE /\ Chunk(b)[2] = Flip(b)
         /\ b \notin Special => Len(Chunk(b)) = 1 /\ Chunk(b)[1] = b
<1>1. Flip(b) \in Bytes
  BY FlipByte
<1>2. ESCAPE \in Bytes
  BY DEF Bytes, ESCAPE
<1>. QED  BY <1>1, <1>2 DEF Chunk

LEMMA EscapedBytes ==
  ASSUME NEW p \in Seq(Bytes)
  PROVE  /\ Escaped(p) \in Seq(Bytes)
         /\ \E e \in [0..Len(p) -> Nat] : Escapes(p, e)
         /\ \A k \in 1..Len(Escaped(p)) : Escaped(p)[k] # DOLLAR
<1>. DEFINE n == Len(p)
            w == [i \in 1..n |-> Chunk(p[i])]
<1>1. n \in Nat /\ \A i \in 1..n : p[i] \in Bytes
  BY LenIsNat, ElementOfSeq
<1>2. w \in Seq(Seq(Bytes)) /\ Len(w) = n /\ \A i \in 1..n : w[i] = Chunk(p[i])
  <2>1. \A i \in 1..n : Chunk(p[i]) \in Seq(Bytes)
    BY <1>1, ChunkBytes
  <2>. QED  BY <1>1, <2>1
<1>3. Escaped(p) = FlattenSeq(w)
  BY Zenon DEF Escaped, Chunk, Special
<1>. DEFINE s == Escaped(p)
<1>. HIDE DEF w, s
<1>4. s \in Seq(Bytes) /\ \E e \in [0..n -> Nat] : Layout(w, s, e)
  BY <1>2, <1>3, FlattenLayout DEF s
<1>5. PICK e \in [0..n -> Nat] : Layout(w, s, e)
  BY <1>4
<1>6. /\ e[0] = 0 /\ e[n] = Len(s)
      /\ \A i \in 1..n : e[i] = e[i - 1] + Len(Chunk(p[i]))
                         /\ \A o \in 1..Len(Chunk(p[i])) : s[e[i - 1] + o] = Chunk(p[i])[o]
  <2>1. e[0] = 0 /\ e[n] = Len(s)
    BY <1>2, <1>5 DEF Layout
  <2>2. ASSUME NEW i \in 1..n
        PROVE  /\ e[i] = e[i - 1] + Len(Chunk(p[i]))
               /\ \A o \in 1..Len(Chunk(p[i])) : s[e[i - 1] + o] = Chunk(p[i])[o]
    <3>1. i \in 1..Len(w) /\ w[i] = Chunk(p[i])
      BY <1>2
    <3>2. e[i] = e[i - 1] + Len(w[i]) /\ \A o \in 1..Len(w[i]) : s[e[i - 1] + o] = w[i][o]
      BY ONLY <1>5, <3>1 DEF Layout
    <3>. QED  BY <3>1, <3>2, Zenon
  <2>. QED  BY <2>1, <2>2
<1>7. ASSUME NEW m \in 1..n
      PROVE  /\ p[m] \in Special => /\ e[m] = e[m - 1] + 2
                                    /\ s[e[m - 1] + 1] = ESCAPE
                                    /\ s[e[m - 1] + 2] = Flip(p[m])
             /\ p[m] \notin Special => /\ e[m] = e[m - 1] + 1
                                       /\ s[e[m - 1] + 1] = p[m]
  <2>1. p[m] \in Bytes
    BY <1>1
  <2>2. CASE p[m] \in Special
    <3>1. Len(Chunk(p[m])) = 2 /\ Chunk(p[m])[1] = ESCAPE /\ Chunk(p[m])[2] = Flip(p[m])
      BY <2>1, <2>2, ChunkBytes
    <3>2. 1 \in 1..Len(Chunk(p[m])) /\ 2 \in 1..Len(Chunk(p[m]))
      BY <3>1
    <3>. QED  BY <1>6, <2>2, <3>1, <3>2
  <2>3. CASE p[m] \notin Special
    <3>1. Len(Chunk(p[m])) = 1 /\ Chunk(p[m])[1] = p[m]
      BY <2>1, <2>3, ChunkBytes
    <3>2. 1 \in 1..Len(Chunk(p[m]))
      BY <3>1
    <3>. QED  BY <1>6, <2>3, <3>1, <3>2
  <2>. QED  BY <2>2, <2>3
<1>8. Escapes(p, e)
  <2>1. \A m \in 0..n : e[m] <= e[n]
    <3>1. \A i, j \in 0..n : i <= j => e[i] <= e[j]
      BY <1>2, <1>4, <1>5, LayoutFacts
    <3>2. n \in 0..n /\ \A m \in 0..n : m <= n
      BY <1>1
    <3>. QED  BY <3>1, <3>2
  <2>. QED  BY <1>5, <1>6, <1>7, <2>1 DEF Escapes, s
<1>9. ASSUME NEW k \in 1..Len(s)  PROVE s[k] # DOLLAR
  <2>1. PICK m \in 1..n : e[m - 1] < k /\ k <= e[m]
    <3>1. \A q \in 1..Len(s) : \E i \in 1..Len(w) : e[i - 1] < q /\ q <= e[i]
      BY <1>2, <1>4, <1>5, LayoutFacts
    <3>. QED  BY <1>2, <3>1
  <2>2. e[m - 1] \in Nat /\ e[m] \in Nat /\ k \in Int
    <3>1. m - 1 \in 0..n /\ m \in 0..n
      BY <1>1
    <3>. QED  BY <3>1
  <2>3. CASE p[m] \in Special
    <3>1. k = e[m - 1] + 1 \/ k = e[m - 1] + 2
      BY <1>7, <2>1, <2>2, <2>3
    <3>2. ESCAPE # DOLLAR /\ Flip(p[m]) # DOLLAR
      BY <2>3, FlipSpecial DEF ESCAPE, DOLLAR
    <3>. QED  BY <1>7, <2>3, <3>1, <3>2
  <2>4. CASE p[m] \notin Special
    <3>1. k = e[m - 1] + 1
      BY <1>7, <2>1, <2>2, <2>4
    <3>2. p[m] # DOLLAR
      BY <2>4 DEF Special
    <3>. QED  BY <1>7, <2>4, <3>1, <3>2
  <2>. QED  BY <2>3, <2>4
<1>. QED  BY <1>4, <1>8, <1>9 DEF s

LEMMA TotalIsNat ==
  ASSUME NEW s \in Seq(Bytes)
  PROVE  Total(s) \in Nat
<1>. DEFINE n == Len(s)
            sum == CHOOSE sum : sum = [i \in 0..n |-> IF i = 0 THEN 0 ELSE sum[i - 1] + s[i]]
            Sums(m, f) == \A i \in 0..m : f[i] = IF i = 0 THEN 0 ELSE f[i - 1] + s[i]
            S == {m \in 0..n : \E f \in [0..m -> Nat] : Sums(m, f)}
<1>1. n \in Nat /\ \A i \in 1..n : s[i] \in Nat
  <2>1. n \in Nat /\ \A i \in 1..n : s[i] \in Bytes
    BY LenIsNat, ElementOfSeq
  <2>2. \A b \in Bytes : b \in Nat
    BY DEF Bytes
  <2>. QED  BY <2>1, <2>2
<1>2. 0 \in S
  <2>. DEFINE f == [i \in 0..0 |-> 0]
  <2>1. f \in [0..0 -> Nat] /\ Sums(0, f)
    OBVIOUS
  <2>. HIDE DEF f
  <2>2. \E g \in [0..0 -> Nat] : Sums(0, g)
    BY ONLY <2>1
  <2>3. 0 \in 0..n
    BY <1>1
  <2>. QED  BY ONLY <2>2, <2>3
<1>3. ASSUME NEW m \in 0..(n - 1), m \in S  PROVE m + 1 \in S
  <2>1. PICK f \in [0..m -> Nat] : Sums(m, f)
    BY <1>3
  <2>. DEFINE g == [i \in 0..(m + 1) |-> IF i = m + 1 THEN f[m] + s[m + 1] ELSE f[i]]
  <2>2. g \in [0..(m + 1) -> Nat]
    <3>1. f[m] \in Nat /\ s[m + 1] \in Nat
      BY <1>1
    <3>. QED  BY <3>1
  <2>3. ASSUME NEW i \in 0..(m + 1)  PROVE g[i] = IF i = 0 THEN 0 ELSE g[i - 1] + s[i]
    <3>1. CASE i = m + 1
      <4>1. g[i] = f[m] + s[i] /\ i # 0 /\ i - 1 = m /\ m # m + 1 /\ m \in 0..(m + 1)
        BY <1>1, <3>1
      <4>2. g[m] = f[m]
        BY <4>1
      <4>. QED  BY <4>1, <4>2
    <3>2. CASE i # m + 1
      <4>1. i \in 0..m /\ g[i] = f[i]
        BY <3>2
      <4>2. f[i] = IF i = 0 THEN 0 ELSE f[i - 1] + s[i]
        BY <2>1, <4>1
      <4>3. i # 0 => g[i - 1] = f[i - 1]
        BY <4>1
      <4>. QED  BY <4>1, <4>2, <4>3
    <3>. QED  BY <3>1, <3>2
  <2>. HIDE DEF g
  <2>4. m + 1 \in 0..n
    BY <1>1
  <2>. QED  BY <2>2, <2>3, <2>4
<1>4. PICK f \in [0..n -> Nat] : Sums(n, f)
  <2>1. 0..n \subseteq S
    <3>. HIDE DEF S
    <3>. QED  BY <1>1, <1>2, <1>3, BoundedInduction
  <2>2. n \in 0..n
    BY <1>1
  <2>3. n \in S
    <3>. HIDE DEF S
    <3>. QED  BY <2>1, <2>2
  <2>. QED  BY ONLY <2>3
<1>5. sum = [i \in 0..n |-> IF i = 0 THEN 0 ELSE sum[i - 1] + s[i]]
  <2>1. f = [i \in 0..n |-> IF i = 0 THEN 0 ELSE f[i - 1] + s[i]]
    BY <1>4
  <2>. QED  BY <2>1, Zenon
<1>6. Total(s) = sum[n]
  BY Zenon DEF Total
<1>. HIDE DEF sum
<1>7. sum[n] \in Nat
  <2>. DEFINE R == {m \in 0..n : sum[m] \in Nat}
  <2>1. 0 \in R
    BY <1>1, <1>5
  <2>2. ASSUME NEW m \in 0..(n - 1), m \in R  PROVE m + 1 \in R
    <3>1. m + 1 \in 0..n /\ m + 1 \in 1..n /\ m + 1 # 0 /\ (m + 1) - 1 = m
      BY <1>1
    <3>2. sum[m + 1] = sum[m] + s[m + 1]
      BY <1>5, <3>1
    <3>. QED  BY <1>1, <2>2, <3>1, <3>2
  <2>3. 0..n \subseteq R
    <3>. HIDE DEF R
    <3>. QED  BY <1>1, <2>1, <2>2, BoundedInduction
  <2>. QED  BY <1>1, <2>3
<1>. QED  BY <1>6, <1>7

LEMMA HexDigits ==
  ASSUME NEW n \in 0..15
  PROVE  HexDigit(n) \in 48..102
BY DEF HexDigit

LEMMA EscapesEnds ==
  ASSUME NEW p, NEW e, Escapes(p, e)
  PROVE  e[0] = 0 /\ e[Len(p)] = Len(Escaped(p))
BY DEF Escapes

LEMMA EscapesLess ==
  ASSUME NEW p, NEW e, Escapes(p, e), NEW k \in 0..Len(p)
  PROVE  e[k] <= Len(Escaped(p))
BY DEF Escapes

LEMMA EscapesAt ==
  ASSUME NEW p, NEW e, Escapes(p, e), NEW k \in 1..Len(p)
  PROVE  /\ p[k] \in Special => /\ e[k] = e[k - 1] + 2 /\ Escaped(p)[e[k - 1] + 1] = ESCAPE
                                /\ Escaped(p)[e[k - 1] + 2] = Flip(p[k])
         /\ p[k] \notin Special => e[k] = e[k - 1] + 1 /\ Escaped(p)[e[k - 1] + 1] = p[k]
BY Zenon DEF Escapes

\* A frame begins with the only "$" in it, and ends with a digit.
LEMMA FrameBytes ==
  ASSUME NEW p \in Seq(Bytes)
  PROVE  /\ Frame(p) \in Seq(Bytes) /\ Len(Escaped(p)) \in Nat
         /\ Len(Frame(p)) = Len(Escaped(p)) + 4
         /\ Frame(p)[1] = DOLLAR
         /\ \A k \in 1..Len(Escaped(p)) : Frame(p)[k + 1] = Escaped(p)[k]
         /\ Frame(p)[Len(Escaped(p)) + 2] = HASH
         /\ Frame(p)[Len(Escaped(p)) + 3] \in 48..102
         /\ Frame(p)[Len(Escaped(p)) + 4] \in 48..102
         /\ \A k \in 2..Len(Frame(p)) : Frame(p)[k] # DOLLAR
<1>. DEFINE body == Escaped(p)
            n == Len(body)
            sum == Total(body) % 256
            a == HexDigit(sum \div 16)
            b == HexDigit(sum % 16)
            head == <<DOLLAR>> \o body
            tail == <<HASH, a, b>>
<1>1. body \in Seq(Bytes) /\ n \in Nat /\ \A k \in 1..n : body[k] # DOLLAR
  BY EscapedBytes, LenIsNat
<1>2. Frame(p) = head \o tail
  BY Zenon DEF Frame
<1>. HIDE DEF body
<1>3. sum \in 0..255
  <2>. DEFINE t == Total(body)
  <2>1. t \in Nat
    BY <1>1, TotalIsNat
  <2>. HIDE DEF t
  <2>2. t % 256 \in 0..255
    BY <2>1
  <2>. QED  BY <2>2 DEF t
<1>. HIDE DEF sum
<1>4. sum \div 16 \in 0..15 /\ sum % 16 \in 0..15
  BY <1>3
<1>5. a \in 48..102 /\ b \in 48..102
  BY <1>4, HexDigits
<1>. HIDE DEF a, b
<1>6. <<DOLLAR>> \in Seq(Bytes) /\ Len(<<DOLLAR>>) = 1 /\ <<DOLLAR>>[1] = DOLLAR
  BY DEF Bytes, DOLLAR
<1>7. tail \in Seq(Bytes) /\ Len(tail) = 3 /\ tail[1] = HASH /\ tail[2] = a /\ tail[3] = b
  BY <1>5 DEF Bytes, HASH
<1>8. /\ head \in Seq(Bytes) /\ Len(head) = 1 + n /\ head[1] = DOLLAR
      /\ \A k \in 1..n : head[1 + k] = body[k]
  <2>1. /\ head \in Seq(Bytes) /\ Len(head) = Len(<<DOLLAR>>) + Len(body)
        /\ \A k \in 1..Len(<<DOLLAR>>) : head[k] = <<DOLLAR>>[k]
        /\ \A k \in 1..Len(body) : head[Len(<<DOLLAR>>) + k] = body[k]
    BY <1>1, <1>6, Joined
  <2>2. 1 \in 1..Len(<<DOLLAR>>)
    BY <1>6
  <2>. QED  BY <1>6, <2>1, <2>2
<1>. HIDE DEF head, tail
<1>. DEFINE f == Frame(p)
<1>9. /\ f \in Seq(Bytes) /\ Len(f) = Len(head) + Len(tail)
      /\ \A k \in 1..Len(head) : f[k] = head[k]
      /\ \A k \in 1..Len(tail) : f[Len(head) + k] = tail[k]
  <2>1. /\ head \o tail \in Seq(Bytes) /\ Len(head \o tail) = Len(head) + Len(tail)
        /\ \A k \in 1..Len(head) : (head \o tail)[k] = head[k]
        /\ \A k \in 1..Len(tail) : (head \o tail)[Len(head) + k] = tail[k]
    <3>1. head \in Seq(Bytes) /\ tail \in Seq(Bytes)
      BY <1>7, <1>8
    <3>. QED  BY ONLY <3>1, Joined
  <2>. QED  BY <1>2, <2>1, Zenon DEF f
<1>. HIDE DEF f
<1>10. Len(f) = n + 4
  BY <1>1, <1>7, <1>8, <1>9
<1>11. f[1] = DOLLAR /\ \A k \in 1..n : f[k + 1] = body[k]
  <2>1. 1 \in 1..Len(head) /\ \A k \in 1..n : k + 1 \in 1..Len(head) /\ k + 1 = 1 + k
    BY <1>1, <1>8
  <2>. QED  BY <1>8, <1>9, <2>1
<1>12. f[n + 2] = HASH /\ f[n + 3] = a /\ f[n + 4] = b
  <2>1. /\ 1 \in 1..Len(tail) /\ 2 \in 1..Len(tail) /\ 3 \in 1..Len(tail)
        /\ Len(head) + 1 = n + 2 /\ Len(head) + 2 = n + 3 /\ Len(head) + 3 = n + 4
    BY <1>1, <1>7, <1>8
  <2>. QED  BY <1>7, <1>9, <2>1
<1>13. ASSUME NEW k \in 2..Len(f)  PROVE f[k] # DOLLAR
  <2>1. k - 1 \in 1..n \/ k \in {n + 2, n + 3, n + 4}
    BY <1>1, <1>10
  <2>2. CASE k - 1 \in 1..n
    <3>1. (k - 1) + 1 = k
      OBVIOUS
    <3>2. f[(k - 1) + 1] = body[k - 1]
      BY <1>11, <2>2
    <3>. QED  BY <1>1, <2>2, <3>1, <3>2
  <2>3. CASE k \in {n + 2, n + 3, n + 4}
    <3>1. f[k] \in {HASH, a, b}
      BY <1>12, <2>3
    <3>. QED  BY <1>5, <3>1 DEF HASH, DOLLAR
  <2>. QED  BY <2>1, <2>2, <2>3
<1>. QED  BY <1>1, <1>5, <1>9, <1>10, <1>11, <1>12, <1>13 DEF f, body
---------------------------------------------------------------------------
(* Types.                                                                  *)

Answers == [text : {"+", "-", "reply"}, of : Nat]

LEMMA SubSeqType ==
  ASSUME NEW T, NEW s \in Seq(T), NEW m \in Nat \ {0}, NEW n \in Nat, n <= Len(s)
  PROVE  /\ SubSeq(s, m, n) \in Seq(T)
         /\ Len(SubSeq(s, m, n)) = IF m <= n THEN (n - m) + 1 ELSE 0
         /\ \A i \in 1..Len(SubSeq(s, m, n)) : SubSeq(s, m, n)[i] = s[m + i - 1]
<1>1. \A i \in m..n : s[i] \in T
  <2>1. Len(s) \in Nat
    BY LenIsNat
  <2>. QED  BY <2>1, ElementOfSeq
<1>2. /\ SubSeq(s, m, n) \in Seq(T)
      /\ Len(SubSeq(s, m, n)) = IF m <= n THEN n - m + 1 ELSE 0
      /\ \A i \in 1..(n - m + 1) : SubSeq(s, m, n)[i] = s[m + i - 1]
  BY <1>1, SubSeqProperties
<1>. QED  BY <1>2

StreamTypes ==
  /\ should_ack \in BOOLEAN /\ first_digit \in BOOLEAN /\ should_escape \in BOOLEAN
  /\ wire \in Seq(Seq(Bytes)) /\ input_buffer \in Seq(Bytes)
  /\ next_message \in Seq(Bytes) /\ position \in Nat /\ checksum \in Nat
  /\ server \in Reading \cup {"handle", "watch", "closed"}

ClientTypes ==
  /\ client \in {"ready", "ack", "reply", "closed"}
  /\ answers \in Seq(Answers)
  /\ outgoing \in Seq(Payloads) /\ Len(outgoing) <= MaxPackets
  /\ breaks \in 0 .. MaxBreaks /\ tears \in 0 .. MaxTears /\ errors \in 0 .. MaxErrors

HistoryTypes ==
  delivered \in Seq(Seq(Bytes)) /\ answered \in Seq(Nat)

LEMMA TypeParts ==
  TypeOK <=> StreamTypes /\ ClientTypes /\ HistoryTypes
BY Zenon DEF TypeOK, StreamTypes, ClientTypes, HistoryTypes, Bytes, Answers

LEMMA TypePartsNext ==
  StreamTypes' /\ ClientTypes' /\ HistoryTypes' => TypeOK'
BY Zenon DEF TypeOK, StreamTypes, ClientTypes, HistoryTypes, Bytes, Answers, Reading

LEMMA PayloadBytes ==
  \A p \in Payloads : p \in Seq(Bytes)
BY PacketsAssumption DEF Bytes

LEMMA TypeInit == Init => TypeOK
<1>. SUFFICES ASSUME Init PROVE StreamTypes /\ ClientTypes /\ HistoryTypes
  BY TypeParts
<1>1. StreamTypes
  BY PacketsAssumption, EmptySeq DEF Init, StreamTypes, Reading
<1>2. ClientTypes
  BY PacketsAssumption, EmptySeq DEF Init, ClientTypes
<1>3. HistoryTypes
  BY EmptySeq DEF Init, HistoryTypes
<1>. QED  BY <1>1, <1>2, <1>3

\* A byte of the buffer.
LEMMA ByteType ==
  ASSUME TypeOK, Available
  PROVE  Byte \in Bytes
<1>1. input_buffer \in Seq(Bytes) /\ position \in Nat
  BY TypeParts DEF StreamTypes
<1>2. position + 1 \in 1..Len(input_buffer)
  <2>1. Len(input_buffer) \in Nat
    BY <1>1, LenIsNat
  <2>. QED  BY <1>1, <2>1 DEF Available
<1>. QED  BY <1>1, <1>2, ElementOfSeq DEF Byte

LEMMA ReadTypes ==
  ASSUME TypeOK, ReadStep
  PROVE  TypeOK'
<1>. USE DEF Reading
<1>0. StreamTypes /\ ClientTypes /\ HistoryTypes
  BY TypeParts
<1>1. CASE Refill
  <2>1. PICK n \in 1 .. Len(wire) :
          /\ input_buffer' = FlattenSeq(SubSeq(wire, 1, n))
          /\ wire' = SubSeq(wire, n + 1, Len(wire))
          /\ server' = IF position < Len(FlattenSeq(SubSeq(wire, 1, n))) THEN server ELSE "closed"
    BY <1>1, Zenon DEF Refill
  <2>2. wire \in Seq(Seq(Bytes)) /\ Len(wire) \in Nat
    BY <1>0, LenIsNat DEF StreamTypes
  <2>3. SubSeq(wire, 1, n) \in Seq(Seq(Bytes)) /\ SubSeq(wire, n + 1, Len(wire)) \in Seq(Seq(Bytes))
    BY <2>2, SubSeqType
  <2>4. input_buffer' \in Seq(Bytes) /\ wire' \in Seq(Seq(Bytes))
    BY <2>1, <2>3, FlattenLayout
  <2>5. server' \in Reading \cup {"handle", "watch", "closed"}
    BY <1>0, <2>1 DEF StreamTypes
  <2>6. StreamTypes'
    BY <1>0, <1>1, <2>4, <2>5 DEF Refill, StreamTypes
  <2>7. ClientTypes' /\ HistoryTypes'
    BY <1>0, <1>1 DEF Refill, ClientTypes, HistoryTypes, bounds
  <2>. QED  BY <2>6, <2>7, TypePartsNext
<1>2. CASE EndOfStream
  <2>1. StreamTypes' /\ ClientTypes' /\ HistoryTypes'
    BY <1>0, <1>2 DEF EndOfStream, StreamTypes, ClientTypes, HistoryTypes, bounds, network,
                      stream, history
  <2>. QED  BY <2>1, TypePartsNext
<1>3. CASE ReadAck
  <2>1. input_buffer' \in Seq(Bytes)
    <3>1. input_buffer \in Seq(Bytes) /\ Len(input_buffer) \in Nat /\ position \in Nat
      BY <1>0, LenIsNat DEF StreamTypes
    <3>2. input_buffer # <<>>
      BY <1>3, <3>1, EmptySeq DEF ReadAck, Available
    <3>. QED  BY <1>3, <3>1, <3>2, HeadTailProperties DEF ReadAck, AfterAck
  <2>2. StreamTypes' /\ ClientTypes' /\ HistoryTypes'
    BY <1>0, <1>3, <2>1 DEF ReadAck, StreamTypes, ClientTypes, HistoryTypes, bounds, network,
                            history
  <2>. QED  BY <2>2, TypePartsNext
<1>4. CASE ReadStart
  <2>1. StreamTypes' /\ ClientTypes' /\ HistoryTypes'
    BY <1>0, <1>4, EmptySeq DEF ReadStart, StreamTypes, ClientTypes, HistoryTypes, bounds,
                                network, history
  <2>. QED  BY <2>1, TypePartsNext
<1>5. CASE Discard
  <2>1. answers' \in Seq(Answers)
    <3>1. Error \in Answers /\ answers \in Seq(Answers)
      BY <1>0 DEF Error, Answers, ClientTypes
    <3>. QED  BY <1>5, <3>1, AppendProperties DEF Discard
  <2>2. StreamTypes' /\ ClientTypes' /\ HistoryTypes'
    BY <1>0, <1>5, <2>1, EmptySeq DEF Discard, StreamTypes, ClientTypes, HistoryTypes, bounds
  <2>. QED  BY <2>2, TypePartsNext
<1>6. CASE ReadBody
  <2>1. Byte \in Bytes /\ Unescaped(Byte) \in Bytes
    <3>1. Byte \in Bytes
      BY <1>6, ByteType DEF ReadBody
    <3>. QED  BY <3>1, FlipByte DEF Unescaped
  <2>2. next_message \in Seq(Bytes) /\ checksum \in Nat /\ position \in Nat
    BY <1>0 DEF StreamTypes
  <2>3. /\ Append(next_message, Byte) \in Seq(Bytes)
        /\ Append(next_message, Unescaped(Byte)) \in Seq(Bytes)
        /\ checksum + Byte \in Nat /\ position + 1 \in Nat
    <3>1. checksum + Byte \in Nat /\ position + 1 \in Nat
      BY <2>1, <2>2 DEF Bytes
    <3>. QED  BY <2>1, <2>2, <3>1, AppendProperties
  <2>. HIDE DEF Reading
  <2>4. /\ position' = position + 1
        /\ \/ next_message' = Append(next_message, Unescaped(Byte))
           \/ next_message' = Append(next_message, Byte)
           \/ next_message' = next_message
        /\ checksum' = checksum + Byte \/ checksum' = checksum
        /\ should_escape' = TRUE \/ should_escape' = FALSE \/ should_escape' = should_escape
        /\ server' = "digit1" \/ server' = server
        /\ UNCHANGED <<should_ack, wire, input_buffer, first_digit>>
    BY <1>6, Zenon DEF ReadBody, network
  <2>5. StreamTypes'
    BY <1>0, <2>3, <2>4 DEF StreamTypes, Reading
  <2>6. ClientTypes' /\ HistoryTypes'
    BY <1>0, <1>6 DEF ReadBody, ClientTypes, HistoryTypes, bounds, network, history
  <2>. QED  BY <2>5, <2>6, TypePartsNext
<1>7. CASE ReadDigit1
  <2>1. StreamTypes' /\ ClientTypes' /\ HistoryTypes'
    BY <1>0, <1>7 DEF ReadDigit1, StreamTypes, ClientTypes, HistoryTypes, bounds, network,
                      history
  <2>. QED  BY <2>1, TypePartsNext
<1>8. CASE ReadDigit2
  <2>1. input_buffer \in Seq(Bytes) /\ Len(input_buffer) \in Nat /\ position \in Nat
    BY <1>0, LenIsNat DEF StreamTypes
  <2>2. SubSeq(input_buffer, position + 2, Len(input_buffer)) \in Seq(Bytes)
    BY <2>1, SubSeqType
  <2>3. Error \in Answers /\ answers \in Seq(Answers)
    BY <1>0 DEF Error, Answers, ClientTypes
  <2>4. Append(answers, Error) \in Seq(Answers)
    BY <2>3, AppendProperties
  <2>5. Append(delivered, next_message) \in Seq(Seq(Bytes))
    BY <1>0, AppendProperties DEF HistoryTypes, StreamTypes
  <2>6. /\ input_buffer' = SubSeq(input_buffer, position + 2, Len(input_buffer))
        /\ position' = 0
        /\ \/ /\ server' = "handle" /\ delivered' = Append(delivered, next_message)
              /\ UNCHANGED answers
           \/ /\ server' = "read" /\ answers' = Append(answers, Error) /\ UNCHANGED delivered
        /\ UNCHANGED <<should_ack, wire, next_message, should_escape, checksum, first_digit,
                       client, outgoing, breaks, tears, errors, answered>>
    BY <1>8, Zenon DEF ReadDigit2, bounds
  <2>7. StreamTypes'
    BY <1>0, <2>2, <2>6 DEF StreamTypes
  <2>8. ClientTypes' /\ HistoryTypes'
    BY <1>0, <2>4, <2>5, <2>6 DEF ClientTypes, HistoryTypes
  <2>. QED  BY <2>7, <2>8, TypePartsNext
<1>. QED
  BY <1>1, <1>2, <1>3, <1>4, <1>5, <1>6, <1>7, <1>8 DEF ReadStep

LEMMA ReplyType ==
  ASSUME TypeOK
  PROVE  Reply \in Seq(Answers) /\ Error \in Answers
<1>1. Len(delivered) \in Nat
  BY TypeParts, LenIsNat DEF HistoryTypes
<1>. DEFINE a == [text |-> "+", of |-> 0]
            b == [text |-> "reply", of |-> Len(delivered)]
<1>2. a \in Answers /\ b \in Answers /\ Error \in Answers
  BY <1>1 DEF Answers, Error
<1>3. Reply = (IF should_ack THEN <<a>> ELSE <<>>) \o <<b>>
  BY Zenon DEF Reply
<1>. HIDE DEF a, b
<1>4. <<a>> \in Seq(Answers) /\ <<b>> \in Seq(Answers) /\ <<>> \in Seq(Answers)
  BY <1>2
<1>5. (<<a>> \o <<b>>) \in Seq(Answers) /\ (<<>> \o <<b>>) \in Seq(Answers)
  BY <1>4, Joined
<1>. QED  BY <1>2, <1>3, <1>5

LEMMA ServeTypes ==
  ASSUME TypeOK, Handle \/ SeeBreak \/ CoreStops
  PROVE  TypeOK'
<1>0. StreamTypes /\ ClientTypes /\ HistoryTypes
  BY TypeParts
<1>1. answers \o Reply \in Seq(Answers) /\ Append(answers, Error) \in Seq(Answers)
  <2>1. answers \in Seq(Answers) /\ Reply \in Seq(Answers) /\ Error \in Answers
    BY <1>0, ReplyType DEF ClientTypes
  <2>. QED  BY <2>1, Joined, AppendProperties
<1>2. CASE Handle
  <2>1. /\ server' \in {"watch", "read"}
        /\ answers' = answers \o Reply \/ answers' = Append(answers, Error) \/ answers' = answers
        /\ errors' = errors \/ (errors < MaxErrors /\ errors' = errors + 1)
        /\ UNCHANGED <<should_ack, wire, stream, client, outgoing, breaks, tears, history>>
    BY <1>2 DEF Handle
  <2>2. errors' \in 0..MaxErrors
    <3>1. errors \in 0..MaxErrors /\ MaxErrors \in Nat
      BY <1>0, PacketsAssumption DEF ClientTypes
    <3>. QED  BY <2>1, <3>1
  <2>3. StreamTypes'
    BY <1>0, <2>1 DEF StreamTypes, stream, Reading
  <2>4. ClientTypes'
    BY <1>0, <1>1, <2>1, <2>2 DEF ClientTypes
  <2>5. HistoryTypes'
    BY <1>0, <2>1 DEF HistoryTypes, history
  <2>. QED  BY <2>3, <2>4, <2>5, TypePartsNext
<1>3. CASE SeeBreak \/ CoreStops
  <2>1. wire' = wire \/ (wire # <<>> /\ wire' = Tail(wire))
    BY <1>3 DEF SeeBreak, CoreStops, BreakWaits
  <2>2. wire' \in Seq(Seq(Bytes))
    <3>1. wire \in Seq(Seq(Bytes))
      BY <1>0 DEF StreamTypes
    <3>. QED  BY <2>1, <3>1, HeadTailProperties
  <2>3. StopWatching
    BY <1>3 DEF SeeBreak, CoreStops
  <2>4. StreamTypes'
    BY <1>0, <2>2, <2>3 DEF StreamTypes, StopWatching, stream, Reading
  <2>5. ClientTypes'
    BY <1>0, <1>1, <2>3 DEF ClientTypes, StopWatching, bounds
  <2>6. HistoryTypes'
    BY <1>0, <2>3 DEF HistoryTypes, StopWatching
  <2>. QED  BY <2>4, <2>5, <2>6, TypePartsNext
<1>. QED  BY <1>2, <1>3

\* What is on the wire after a packet was sent, in one piece or in two.
LEMMA SendTypes ==
  ASSUME NEW frame \in Seq(Bytes), TypeOK, Send(frame)
  PROVE  wire' \in Seq(Seq(Bytes)) /\ tears' \in 0..MaxTears
<1>0. wire \in Seq(Seq(Bytes)) /\ tears \in 0..MaxTears /\ MaxTears \in Nat
  BY TypeParts, PacketsAssumption DEF StreamTypes, ClientTypes
<1>1. CASE wire' = Append(wire, frame) /\ UNCHANGED tears
  BY <1>0, <1>1, AppendProperties
<1>2. CASE /\ tears < MaxTears /\ tears' = tears + 1
           /\ \E n \in 1 .. Len(frame) - 1 :
                wire' = wire \o <<SubSeq(frame, 1, n), SubSeq(frame, n + 1, Len(frame))>>
  <2>1. tears' \in 0..MaxTears
    BY <1>0, <1>2
  <2>2. PICK n \in 1 .. (Len(frame) - 1) :
          wire' = wire \o <<SubSeq(frame, 1, n), SubSeq(frame, n + 1, Len(frame))>>
    BY <1>2
  <2>. DEFINE a == SubSeq(frame, 1, n)
              b == SubSeq(frame, n + 1, Len(frame))
  <2>3. a \in Seq(Bytes) /\ b \in Seq(Bytes)
    <3>1. Len(frame) \in Nat
      BY LenIsNat
    <3>. QED  BY <3>1, SubSeqType
  <2>. HIDE DEF a, b
  <2>4. <<a, b>> \in Seq(Seq(Bytes))
    BY <2>3
  <2>5. wire \o <<a, b>> \in Seq(Seq(Bytes))
    BY ONLY <1>0, <2>4, Joined
  <2>. QED  BY <2>1, <2>2, <2>5 DEF a, b
<1>. QED  BY <1>1, <1>2 DEF Send

\* A client that waits has sent a packet: the one it may have to send again.
Asked == client \in {"ack", "reply"} => outgoing # <<>>

LEMMA ClientStepTypes ==
  ASSUME TypeOK, Asked, SendPacket \/ SendBreak \/ Receive \/ Close
  PROVE  TypeOK'
<1>0. StreamTypes /\ ClientTypes /\ HistoryTypes
  BY TypeParts
<1>1. CASE SendPacket
  <2>1. PICK p \in Payloads : outgoing' = Append(outgoing, p) /\ Send(Frame(p))
    BY <1>1, Zenon DEF SendPacket
  <2>2. p \in Seq(Bytes) /\ Frame(p) \in Seq(Bytes)
    BY PayloadBytes, FrameBytes
  <2>3. wire' \in Seq(Seq(Bytes)) /\ tears' \in 0..MaxTears
    BY <2>1, <2>2, SendTypes
  <2>4. outgoing' \in Seq(Payloads) /\ Len(outgoing') <= MaxPackets
    <3>1. outgoing \in Seq(Payloads) /\ Len(outgoing) \in Nat /\ MaxPackets \in Nat
          /\ Len(outgoing) < MaxPackets
      BY <1>0, <1>1, LenIsNat, PacketsAssumption DEF SendPacket, ClientTypes
    <3>2. Len(Append(outgoing, p)) = Len(outgoing) + 1 /\ Append(outgoing, p) \in Seq(Payloads)
      BY <3>1, AppendProperties
    <3>. QED  BY <2>1, <3>1, <3>2
  <2>5. /\ client' \in {"ack", "reply"}
        /\ UNCHANGED <<should_ack, answers, stream, server, breaks, errors, history>>
    BY <1>1 DEF SendPacket
  <2>6. StreamTypes'
    BY <1>0, <2>3, <2>5 DEF StreamTypes, stream
  <2>7. ClientTypes' /\ HistoryTypes'
    BY <1>0, <2>3, <2>4, <2>5 DEF ClientTypes, HistoryTypes, history
  <2>. QED  BY <2>6, <2>7, TypePartsNext
<1>2. CASE SendBreak
  <2>1. wire' \in Seq(Seq(Bytes))
    <3>1. <<BREAK>> \in Seq(Bytes) /\ wire \in Seq(Seq(Bytes))
      BY <1>0 DEF Bytes, BREAK, StreamTypes
    <3>. QED  BY <1>2, <3>1, AppendProperties DEF SendBreak
  <2>2. breaks' \in 0..MaxBreaks
    BY <1>0, <1>2, PacketsAssumption DEF SendBreak, ClientTypes
  <2>3. UNCHANGED <<should_ack, answers, stream, server, client, outgoing, tears, errors, history>>
    BY <1>2 DEF SendBreak
  <2>4. StreamTypes'
    BY <1>0, <2>1, <2>3 DEF StreamTypes, stream
  <2>5. ClientTypes' /\ HistoryTypes'
    BY <1>0, <2>2, <2>3 DEF ClientTypes, HistoryTypes, history
  <2>. QED  BY <2>4, <2>5, TypePartsNext
<1>3. CASE Receive
  <2>1. answers \in Seq(Answers) /\ answers # <<>> /\ wire \in Seq(Seq(Bytes))
        /\ tears \in 0..MaxTears /\ answered \in Seq(Nat) /\ client \in {"ack", "reply"}
    BY <1>0, <1>3 DEF Receive, ClientTypes, StreamTypes, HistoryTypes
  <2>2. Head(answers) \in Answers /\ Tail(answers) \in Seq(Answers)
    BY <2>1, HeadTailProperties
  <2>. DEFINE a == Head(answers)
  <2>3. /\ answers' = Tail(answers)
        /\ UNCHANGED <<should_ack, stream, server, outgoing, breaks, errors, delivered, torn,
                       stray>>
        /\ \/ client' = "reply" /\ UNCHANGED <<wire, tears, repeated, answered>>
           \/ Send(Frame(Last(outgoing))) /\ UNCHANGED <<client, answered>>
           \/ /\ client' = "ready" /\ answered' = Append(answered, a.of)
              /\ wire' = IF should_ack THEN Append(wire, <<PLUS>>) ELSE wire
              /\ UNCHANGED <<tears, repeated>>
           \/ UNCHANGED <<wire, tears, client, repeated, answered>>
    BY <1>3, Zenon DEF Receive
  <2>4. /\ wire' \in Seq(Seq(Bytes)) /\ tears' \in 0..MaxTears
        /\ client' \in {"ready", "ack", "reply"} /\ answered' \in Seq(Nat)
    <3>1. CASE client' = "reply" /\ UNCHANGED <<wire, tears, repeated, answered>>
      BY <2>1, <3>1
    <3>2. CASE Send(Frame(Last(outgoing))) /\ UNCHANGED <<client, answered>>
      <4>1. Last(outgoing) \in Payloads
        <5>1. outgoing \in Seq(Payloads) /\ outgoing # <<>>
          BY <1>0, <2>1 DEF ClientTypes, Asked
        <5>2. Len(outgoing) \in 1..Len(outgoing)
          BY <5>1, LenIsNat
        <5>. QED  BY <5>1, <5>2, ElementOfSeq DEF Last
      <4>2. Frame(Last(outgoing)) \in Seq(Bytes)
        BY <4>1, PayloadBytes, FrameBytes
      <4>. QED  BY <2>1, <3>2, <4>2, SendTypes
    <3>3. CASE /\ client' = "ready" /\ answered' = Append(answered, a.of)
               /\ wire' = IF should_ack THEN Append(wire, <<PLUS>>) ELSE wire
               /\ UNCHANGED <<tears, repeated>>
      <4>1. a.of \in Nat
        BY <2>2 DEF Answers
      <4>2. <<PLUS>> \in Seq(Bytes)
        BY DEF PLUS, Bytes
      <4>3. Append(answered, a.of) \in Seq(Nat) /\ Append(wire, <<PLUS>>) \in Seq(Seq(Bytes))
        BY <2>1, <4>1, <4>2, AppendProperties
      <4>. QED  BY <2>1, <3>3, <4>3
    <3>4. CASE UNCHANGED <<wire, tears, client, repeated, answered>>
      BY <2>1, <3>4
    <3>. QED  BY <2>3, <3>1, <3>2, <3>3, <3>4
  <2>5. StreamTypes'
    BY <1>0, <2>3, <2>4 DEF StreamTypes, stream
  <2>6. ClientTypes' /\ HistoryTypes'
    BY <1>0, <2>2, <2>3, <2>4 DEF ClientTypes, HistoryTypes
  <2>. QED  BY <2>5, <2>6, TypePartsNext
<1>4. CASE Close
  <2>1. StreamTypes' /\ ClientTypes' /\ HistoryTypes'
    BY <1>0, <1>4 DEF Close, StreamTypes, ClientTypes, HistoryTypes, bounds, network, stream,
                      history
  <2>. QED  BY <2>1, TypePartsNext
<1>. QED  BY <1>1, <1>2, <1>3, <1>4

LEMMA AskedNext ==
  ASSUME TypeOK, Asked, [Next]_vars
  PROVE  Asked'
<1>1. CASE client' = client /\ outgoing' = outgoing
  BY <1>1 DEF Asked
<1>2. CASE client' = "closed"
  BY <1>2 DEF Asked
<1>3. CASE SendPacket
  <2>1. PICK p \in Payloads : outgoing' = Append(outgoing, p)
    BY <1>3, Zenon DEF SendPacket
  <2>2. outgoing \in Seq(Payloads)
    BY TypeParts DEF ClientTypes
  <2>. QED  BY <2>1, <2>2, AppendProperties DEF Asked
<1>4. CASE Receive
  <2>1. client \in {"ack", "reply"} /\ outgoing' = outgoing
    BY <1>4 DEF Receive
  <2>. QED  BY <2>1 DEF Asked
<1>5. CASE ReadStep
  <2>1. client' = client /\ outgoing' = outgoing
    BY <1>5 DEF ReadStep, Refill, EndOfStream, ReadAck, ReadStart, Discard, ReadBody,
                ReadDigit1, ReadDigit2
  <2>. QED  BY <1>1, <2>1
<1>6. CASE Handle \/ SeeBreak \/ CoreStops \/ SendBreak \/ UNCHANGED vars
  <2>1. client' = client /\ outgoing' = outgoing
    BY <1>6 DEF Handle, SeeBreak, CoreStops, StopWatching, SendBreak, vars
  <2>. QED  BY <1>1, <2>1
<1>7. CASE Close
  BY <1>2, <1>7 DEF Close
<1>. QED
  BY <1>3, <1>4, <1>5, <1>6, <1>7 DEF Next

LEMMA TypeNext ==
  ASSUME TypeOK, Asked, [Next]_vars
  PROVE  TypeOK'
<1>1. CASE UNCHANGED vars
  <2>1. StreamTypes /\ ClientTypes /\ HistoryTypes
    BY TypeParts
  <2>2. StreamTypes' /\ ClientTypes' /\ HistoryTypes'
    BY <1>1, <2>1 DEF vars, network, stream, bounds, history, StreamTypes, ClientTypes,
                      HistoryTypes
  <2>. QED  BY <2>2, TypePartsNext
<1>. QED
  BY <1>1, ReadTypes, ServeTypes, ClientStepTypes DEF Next

\* The stream, the session and the client keep their types, however the bytes
\* arrive and whatever requests raise.
THEOREM TypeCorrect == Spec => []TypeOK
<1>1. Init => TypeOK /\ Asked
  BY TypeInit DEF Init, Asked
<1>2. (TypeOK /\ Asked) /\ [Next]_vars => (TypeOK /\ Asked)'
  BY TypeNext, AskedNext
<1>. QED  BY <1>1, <1>2, PTL DEF Spec
---------------------------------------------------------------------------
(* What happens to the tags when bytes and pieces come and go.             *)

\* Each tag of the first is of a packet of the second, and a frame begins in
\* the first only where one begins in the second.
Fewer(tags, n, more, m) ==
  /\ \A k \in 1..n : \E j \in 1..m : tags[k].of = more[j].of
  /\ \A k \in Begin(tags, n) : \E j \in Begin(more, m) : tags[k].of = more[j].of
  /\ Alone(more, m) => Alone(tags, n)

Shift(tags, n, d) == [k \in 1..(n - d) |-> tags[k + d]]
Without(tags, n, b) == [k \in 1..(n - 1) |-> IF k < b THEN tags[k] ELSE tags[k + 1]]
Extend(tags, n, t) == [k \in 1..(n + 1) |-> IF k <= n THEN tags[k] ELSE t]

\* The first d bytes of the buffer go.
LEMMA ShiftTags ==
  ASSUME NEW out, NEW buffer \in Seq(Bytes), NEW pieces \in Seq(Seq(Bytes)), NEW tags,
         Placing(out, buffer, pieces, tags),
         NEW rest \in Seq(Bytes), NEW d \in 0..Len(buffer), Len(rest) = Len(buffer) - d,
         \A k \in 1..Len(rest) : rest[k] = buffer[k + d]
  PROVE  LET n == Len(buffer) + Len(pieces)
             less == Shift(tags, n, d)
         IN /\ Placing(out, rest, pieces, less)
            /\ Complete(out, tags, n) => Complete(out, less, Len(rest) + Len(pieces))
            /\ Fewer(less, Len(rest) + Len(pieces), tags, n)
<1>. DEFINE b == Len(buffer)
            w == Len(pieces)
            r == Len(rest)
            n == b + w
            m == r + w
            less == Shift(tags, n, d)
<1>1. b \in Nat /\ w \in Nat /\ r = b - d /\ r \in Nat /\ d \in 0..b
  BY LenIsNat
<1>. HIDE DEF b, w, r
<1>2. n \in Nat /\ m \in Nat /\ m = n - d /\ m <= n
  BY <1>1
<1>3. /\ tags \in [1..n -> Tags]
      /\ \A k \in 1..b : OnByte(out, buffer[k], tags[k])
      /\ \A k \in 1..w : OnPiece(out, pieces[k], tags[b + k])
      /\ \A j, k \in 1..n : j <= k => tags[j].of <= tags[k].of
      /\ \A k \in 1..(n - 1) : Follows(out, tags[k], tags[k + 1])
  BY DEF Placing, Linked, b, w
<1>4. /\ less \in [1..m -> Tags]
      /\ \A k \in 1..m : k + d \in 1..n /\ less[k] = tags[k + d]
  <2>1. less = [k \in 1..m |-> tags[k + d]]
    BY <1>2 DEF Shift
  <2>. HIDE DEF n, less
  <2>2. \A k \in 1..m : k + d \in 1..n
    BY <1>1, <1>2
  <2>. HIDE DEF m
  <2>. QED  BY <1>3, <2>1, <2>2
<1>. HIDE DEF n, m, less
<1>5. Placing(out, rest, pieces, less)
  <2>1. ASSUME NEW k \in 1..r  PROVE OnByte(out, rest[k], less[k])
    <3>1. k + d \in 1..b /\ k \in 1..m
      BY <1>1 DEF m
    <3>2. rest[k] = buffer[k + d]
      BY DEF r
    <3>. QED  BY <1>3, <1>4, <3>1, <3>2
  <2>2. ASSUME NEW k \in 1..w  PROVE OnPiece(out, pieces[k], less[r + k])
    <3>1. r + k \in 1..m /\ (r + k) + d = b + k
      BY <1>1 DEF m
    <3>. QED  BY <1>3, <1>4, <3>1
  <2>3. ASSUME NEW j \in 1..m, NEW k \in 1..m, j <= k  PROVE less[j].of <= less[k].of
    <3>1. j + d \in 1..n /\ k + d \in 1..n
      BY <1>4
    <3>2. j + d <= k + d
      <4>1. j \in Int /\ k \in Int /\ d \in Int
        BY <1>1
      <4>. QED  BY ONLY <2>3, <4>1
    <3>. QED  BY <1>3, <1>4, <3>1, <3>2
  <2>4. ASSUME NEW k \in 1..(m - 1)  PROVE Follows(out, less[k], less[k + 1])
    <3>1. k \in 1..m /\ k + 1 \in 1..m /\ k + d \in 1..(n - 1) /\ (k + 1) + d = (k + d) + 1
      BY <1>1, <1>2
    <3>. QED  BY <1>3, <1>4, <3>1
  <2>. QED  BY <1>4, <2>1, <2>2, <2>3, <2>4 DEF Placing, Linked, m, w, r
<1>6. Complete(out, tags, n) => Complete(out, less, m)
  <2>1. m > 0 => m \in 1..m /\ m + d = n /\ n > 0
    BY <1>1, <1>2
  <2>. QED  BY <1>4, <2>1 DEF Complete
<1>7. Fewer(less, m, tags, n)
  <2>1. \A k \in 1..m : \E j \in 1..n : less[k].of = tags[j].of
    BY <1>4
  <2>2. \A k \in Begin(less, m) : k \in 1..m /\ k + d \in Begin(tags, n) /\ less[k].of = tags[k + d].of
    BY <1>4 DEF Begin
  <2>3. \A j, k \in 1..m : j + d = k + d => j = k
    BY <1>1
  <2>. QED  BY <2>1, <2>2, <2>3 DEF Fewer, Alone
<1>. QED  BY <1>5, <1>6, <1>7 DEF n, m, less, b, w, r

\* A tag of a single byte of a break is of no frame.
LEMMA BreakTag ==
  ASSUME NEW out \in Seq(Payloads), NEW t \in Tags, OnPiece(out, <<BREAK>>, t)
  PROVE  t.from = 0
<1>. SUFFICES ASSUME t.from # 0 PROVE FALSE
  OBVIOUS
<1>. DEFINE frame == Frame(out[t.of])
            L == Len(Escaped(out[t.of]))
<1>1. t.from \in Nat /\ t.to \in Nat /\ t.of \in Nat
  BY DEF Tags
<1>2. /\ t.of \in 0..Len(out) /\ t.of # 0 /\ t.from <= t.to
      /\ Len(<<BREAK>>) = (t.to - t.from) + 1
      /\ \A i \in 1..Len(<<BREAK>>) : <<BREAK>>[i] = frame[t.from + i - 1]
      /\ t.from = 1 \/ t.to = Len(frame)
  BY DEF OnPiece
<1>3. t.of \in 1..Len(out) /\ Len(out) \in Nat
  BY <1>1, <1>2, LenIsNat
<1>4. out[t.of] \in Seq(Bytes)
  BY <1>3, ElementOfSeq, PayloadBytes
<1>5. L \in Nat /\ Len(frame) = L + 4 /\ frame[1] = DOLLAR /\ frame[L + 4] \in 48..102
  BY <1>4, FrameBytes
<1>. HIDE DEF frame, L
<1>6. Len(<<BREAK>>) = 1 /\ <<BREAK>>[1] = 3 /\ DOLLAR = 36
  BY DEF BREAK, DOLLAR
<1>7. t.to = t.from /\ t.from + 1 - 1 = t.from /\ 1 \in 1..Len(<<BREAK>>)
  BY <1>1, <1>2, <1>6
<1>8. frame[t.from] = 3
  BY <1>2, <1>6, <1>7
<1>9. CASE t.from = 1
  BY <1>5, <1>6, <1>8, <1>9
<1>10. CASE t.to = Len(frame)
  <2>1. frame[t.from] \in 48..102
    BY <1>5, <1>7, <1>10
  <2>. QED  BY <1>8, <2>1
<1>. QED  BY <1>2, <1>9, <1>10

\* A break is taken off the wire.
LEMMA RemoveTags ==
  ASSUME NEW out \in Seq(Payloads), NEW buffer \in Seq(Bytes), NEW pieces \in Seq(Seq(Bytes)),
         NEW tags, Placing(out, buffer, pieces, tags), pieces # <<>>, pieces[1] = <<BREAK>>
  PROVE  LET n == Len(buffer) + Len(pieces)
             less == Without(tags, n, Len(buffer) + 1)
         IN /\ Placing(out, buffer, Tail(pieces), less)
            /\ Complete(out, tags, n) => Complete(out, less, Len(buffer) + Len(Tail(pieces)))
            /\ Fewer(less, Len(buffer) + Len(Tail(pieces)), tags, n)
<1>. DEFINE b == Len(buffer)
            w == Len(pieces)
            n == b + w
            v == Len(Tail(pieces))
            m == b + v
            less == Without(tags, n, b + 1)
<1>1. /\ b \in Nat /\ w \in Nat /\ w >= 1 /\ v = w - 1
      /\ \A k \in 1..v : Tail(pieces)[k] = pieces[k + 1]
  BY LenIsNat, HeadTailProperties
<1>. HIDE DEF b, w, v
<1>2. n \in Nat /\ m \in Nat /\ m = n - 1 /\ b + 1 \in 1..n /\ n > 0
  BY <1>1
<1>3. /\ tags \in [1..n -> Tags]
      /\ \A k \in 1..b : OnByte(out, buffer[k], tags[k])
      /\ \A k \in 1..w : OnPiece(out, pieces[k], tags[b + k])
      /\ \A j, k \in 1..n : j <= k => tags[j].of <= tags[k].of
      /\ \A k \in 1..(n - 1) : Follows(out, tags[k], tags[k + 1])
  BY DEF Placing, Linked, b, w
<1>4. /\ less \in [1..m -> Tags]
      /\ \A k \in 1..b : k \in 1..m /\ k \in 1..n /\ less[k] = tags[k]
      /\ \A k \in (b + 1)..m : k \in 1..m /\ k + 1 \in 1..n /\ less[k] = tags[k + 1]
  <2>1. \A k \in 1..m : k \in 1..n /\ k + 1 \in 1..n
    BY <1>1, <1>2
  <2>2. less \in [1..m -> Tags]
    BY <1>2, <1>3, <2>1 DEF Without
  <2>3. \A k \in 1..b : k \in 1..m /\ k \in 1..n /\ k < b + 1
    BY <1>1
  <2>4. \A k \in (b + 1)..m : k \in 1..m /\ k + 1 \in 1..n /\ ~(k < b + 1)
    BY <1>1
  <2>. QED  BY <1>2, <2>2, <2>3, <2>4 DEF Without
<1>5. tags[b + 1].from = 0
  <2>0. 1 \in 1..w
    BY <1>1
  <2>1. OnPiece(out, <<BREAK>>, tags[b + 1])
    BY <1>3, <2>0
  <2>2. tags[b + 1] \in Tags
    BY <1>2, <1>3
  <2>. QED  BY <2>1, <2>2, BreakTag
<1>6. EndsFrame(out, tags[b + 1])
  BY <1>5 DEF EndsFrame
<1>7. b >= 1 => EndsFrame(out, tags[b])
  <2>1. SUFFICES ASSUME b >= 1, ~EndsFrame(out, tags[b]) PROVE FALSE
    OBVIOUS
  <2>2. b \in 1..(n - 1) /\ b \in 1..n
    BY <1>1, <2>1
  <2>3. tags[b + 1].from = tags[b].to + 1 /\ tags[b] \in Tags
    BY <1>3, <2>1, <2>2 DEF Follows
  <2>. DEFINE x == tags[b].to
              y == tags[b + 1].from
  <2>4. x \in Nat /\ y = 0 /\ y = x + 1
    BY ONLY <1>5, <2>3 DEF Tags
  <2>. HIDE DEF x, y
  <2>. QED  BY ONLY <2>4
<1>8. m >= b + 1 => tags[b + 2].from <= 1
  <2>1. SUFFICES ASSUME m >= b + 1 PROVE tags[b + 2].from <= 1
    OBVIOUS
  <2>2. b + 1 \in 1..(n - 1) /\ (b + 1) + 1 = b + 2
    BY <1>1, <1>2, <2>1
  <2>. QED  BY <1>3, <1>6, <2>2 DEF Follows
<1>. HIDE DEF n, m, less
<1>9. Placing(out, buffer, Tail(pieces), less)
  <2>1. ASSUME NEW k \in 1..b  PROVE OnByte(out, buffer[k], less[k])
    BY <1>3, <1>4
  <2>2. ASSUME NEW k \in 1..v  PROVE OnPiece(out, Tail(pieces)[k], less[b + k])
    <3>1. b + k \in (b + 1)..m /\ k + 1 \in 1..w /\ (b + k) + 1 = b + (k + 1)
      BY <1>1 DEF m
    <3>. QED  BY <1>1, <1>3, <1>4, <3>1
  <2>3. ASSUME NEW j \in 1..m, NEW k \in 1..m, j <= k  PROVE less[j].of <= less[k].of
    <3>1. CASE k <= b
      <4>1. j \in 1..b /\ k \in 1..b
        BY <1>1, <2>3, <3>1
      <4>. QED  BY <1>3, <1>4, <2>3, <4>1
    <3>2. CASE ~(k <= b) /\ j <= b
      <4>1. j \in 1..b /\ k \in (b + 1)..m /\ j <= k + 1
        BY <1>1, <1>2, <3>2
      <4>. QED  BY <1>3, <1>4, <4>1
    <3>3. CASE ~(k <= b) /\ ~(j <= b)
      <4>1. j \in (b + 1)..m /\ k \in (b + 1)..m /\ j + 1 <= k + 1
        BY <1>1, <1>2, <2>3, <3>3
      <4>. QED  BY <1>3, <1>4, <4>1
    <3>. QED  BY <3>1, <3>2, <3>3
  <2>4. ASSUME NEW k \in 1..(m - 1)  PROVE Follows(out, less[k], less[k + 1])
    <3>1. CASE k < b
      <4>1. k \in 1..b /\ k + 1 \in 1..b /\ k \in 1..(n - 1)
        BY <1>1, <1>2, <3>1
      <4>. QED  BY <1>3, <1>4, <4>1
    <3>2. CASE k = b
      <4>1. k \in 1..b /\ k + 1 \in (b + 1)..m /\ (k + 1) + 1 = b + 2 /\ m >= b + 1 /\ b >= 1
        BY <1>1, <1>2, <3>2
      <4>2. less[k] = tags[b] /\ less[k + 1] = tags[b + 2]
        BY <1>4, <3>2, <4>1
      <4>. QED  BY <1>7, <1>8, <4>1, <4>2 DEF Follows
    <3>3. CASE k > b
      <4>1. k \in (b + 1)..m /\ k + 1 \in (b + 1)..m /\ k + 1 \in 1..(n - 1)
        BY <1>1, <1>2, <3>3
      <4>. QED  BY <1>3, <1>4, <4>1
    <3>. QED  BY <1>1, <3>1, <3>2, <3>3
  <2>. QED  BY <1>4, <2>1, <2>2, <2>3, <2>4 DEF Placing, Linked, m, b, v
<1>10. Complete(out, tags, n) => Complete(out, less, m)
  <2>1. SUFFICES ASSUME Complete(out, tags, n), m > 0  PROVE EndsFrame(out, less[m])
    BY DEF Complete
  <2>2. EndsFrame(out, tags[n])
    BY <1>2, <2>1 DEF Complete
  <2>3. CASE m = b
    BY <1>1, <1>4, <1>7, <2>1, <2>3
  <2>4. CASE m # b
    <3>1. m \in (b + 1)..m /\ m + 1 = n
      BY <1>1, <1>2, <2>4 DEF m
    <3>. QED  BY <1>4, <2>2, <3>1
  <2>. QED  BY <2>3, <2>4
<1>11. Fewer(less, m, tags, n)
  <2>. DEFINE at == [k \in 1..m |-> IF k <= b THEN k ELSE k + 1]
  <2>1. ASSUME NEW k \in 1..m  PROVE at[k] \in 1..n /\ less[k] = tags[at[k]]
    <3>1. CASE k <= b
      BY <1>1, <1>4, <3>1
    <3>2. CASE ~(k <= b)
      <4>1. k \in (b + 1)..m
        BY <1>1, <1>2, <3>2
      <4>. QED  BY <1>4, <3>2, <4>1
    <3>. QED  BY <3>1, <3>2
  <2>2. \A j, k \in 1..m : at[j] = at[k] => j = k
    BY <1>1
  <2>. HIDE DEF at
  <2>3. \A k \in Begin(less, m) : k \in 1..m /\ at[k] \in Begin(tags, n)
    BY <2>1 DEF Begin
  <2>4. \A k \in 1..m : \E j \in 1..n : less[k].of = tags[j].of
    BY <2>1
  <2>5. \A k \in Begin(less, m) : \E j \in Begin(tags, n) : less[k].of = tags[j].of
    BY <2>1, <2>3
  <2>6. Alone(tags, n) => Alone(less, m)
    <3>1. SUFFICES ASSUME Alone(tags, n), NEW j \in Begin(less, m), NEW k \in Begin(less, m)
                   PROVE  j = k
      BY DEF Alone
    <3>2. j \in 1..m /\ k \in 1..m /\ at[j] \in Begin(tags, n) /\ at[k] \in Begin(tags, n)
      BY ONLY <2>3, <3>1
    <3>3. at[j] = at[k]
      BY ONLY <3>1, <3>2 DEF Alone
    <3>. QED  BY ONLY <2>2, <3>2, <3>3
  <2>. QED  BY <2>4, <2>5, <2>6 DEF Fewer
<1>. QED  BY <1>9, <1>10, <1>11 DEF n, m, less, b, v, w

\* A piece more on the wire, with the tag t.
Fits(out, buffer, pieces, tags, n, piece, t) ==
  /\ buffer \in Seq(Bytes) /\ pieces \in Seq(Seq(Bytes)) /\ n = Len(buffer) + Len(pieces)
  /\ Placing(out, buffer, pieces, tags)
  /\ piece \in Seq(Bytes) /\ t \in Tags /\ OnPiece(out, piece, t)
  /\ \A k \in 1..n : tags[k].of <= t.of
  /\ n > 0 => Follows(out, tags[n], t)
Extends(tags, n, t, more) == more[n + 1] = t /\ \A k \in 1..n : more[k] = tags[k]

LEMMA ExtendTags ==
  ASSUME NEW out, NEW buffer, NEW pieces, NEW tags, NEW n, NEW piece, NEW t,
         Fits(out, buffer, pieces, tags, n, piece, t)
  PROVE  /\ Placing(out, buffer, Append(pieces, piece), Extend(tags, n, t))
         /\ Len(buffer) + Len(Append(pieces, piece)) = n + 1
         /\ Extends(tags, n, t, Extend(tags, n, t))
<1>. DEFINE b == Len(buffer)
            w == Len(pieces)
            more == Extend(tags, n, t)
            longer == Append(pieces, piece)
<1>0. /\ buffer \in Seq(Bytes) /\ pieces \in Seq(Seq(Bytes)) /\ n = b + w
      /\ Placing(out, buffer, pieces, tags)
      /\ piece \in Seq(Bytes) /\ t \in Tags /\ OnPiece(out, piece, t)
      /\ \A k \in 1..n : tags[k].of <= t.of
      /\ n > 0 => Follows(out, tags[n], t)
  BY DEF Fits
<1>1. /\ b \in Nat /\ w \in Nat /\ Len(longer) = w + 1 /\ longer[w + 1] = piece
      /\ \A k \in 1..w : longer[k] = pieces[k]
  BY <1>0, LenIsNat, AppendProperties
<1>. HIDE DEF b, w, longer
<1>2. n \in Nat /\ n = b + w /\ b + (w + 1) = n + 1
  BY <1>0, <1>1
<1>3. /\ tags \in [1..n -> Tags]
      /\ \A k \in 1..b : OnByte(out, buffer[k], tags[k])
      /\ \A k \in 1..w : OnPiece(out, pieces[k], tags[b + k])
      /\ \A j, k \in 1..n : j <= k => tags[j].of <= tags[k].of
      /\ \A k \in 1..(n - 1) : Follows(out, tags[k], tags[k + 1])
  BY <1>0 DEF Placing, Linked, b, w
<1>4. /\ more \in [1..(n + 1) -> Tags] /\ more[n + 1] = t
      /\ \A k \in 1..n : more[k] = tags[k]
  <2>1. /\ n + 1 \in 1..(n + 1) /\ ~(n + 1 <= n)
        /\ \A k \in 1..n : k \in 1..(n + 1) /\ k <= n
        /\ \A k \in 1..(n + 1) : k <= n => k \in 1..n
    BY <1>2
  <2>2. more = [k \in 1..(n + 1) |-> IF k <= n THEN tags[k] ELSE t]
    BY DEF Extend
  <2>. HIDE DEF more
  <2>3. ASSUME NEW k \in 1..(n + 1)  PROVE (IF k <= n THEN tags[k] ELSE t) \in Tags
    BY <1>0, <1>3, <2>1
  <2>4. more \in [1..(n + 1) -> Tags]
    BY <2>2, <2>3
  <2>. QED  BY ONLY <2>1, <2>2, <2>4
<1>5. /\ \A k \in 1..n : tags[k].of <= t.of
      /\ n > 0 => Follows(out, tags[n], t)
  BY <1>0
<1>. HIDE DEF more
<1>6. ASSUME NEW k \in 1..b  PROVE OnByte(out, buffer[k], more[k])
  <2>1. k \in 1..n
    BY <1>0, <1>1
  <2>. QED  BY <1>3, <1>4, <2>1
<1>7. ASSUME NEW k \in 1..(w + 1)  PROVE OnPiece(out, longer[k], more[b + k])
  <2>1. CASE k = w + 1
    <3>1. b + k = n + 1
      BY ONLY <1>1, <1>2, <2>1
    <3>. QED  BY ONLY <1>0, <1>1, <1>4, <2>1, <3>1
  <2>2. CASE k # w + 1
    <3>0. k \in 1..(w + 1) /\ b \in Nat /\ w \in Nat /\ n = b + w
      BY <1>0, <1>1
    <3>1. k \in 1..w /\ b + k \in 1..n
      BY ONLY <2>2, <3>0
    <3>. QED  BY <1>1, <1>3, <1>4, <3>1
  <2>. QED  BY <2>1, <2>2
<1>8. ASSUME NEW j \in 1..(n + 1), NEW k \in 1..(n + 1), j <= k
      PROVE  more[j].of <= more[k].of
  <2>1. CASE k <= n
    <3>1. j \in 1..n /\ k \in 1..n
      BY <1>2, <1>8, <2>1
    <3>. QED  BY <1>3, <1>4, <1>8, <3>1
  <2>2. CASE k = n + 1 /\ j <= n
    <3>1. j \in 1..n
      BY <1>2, <2>2
    <3>. QED  BY <1>4, <1>5, <2>2, <3>1
  <2>3. CASE k = n + 1 /\ j = n + 1
    BY <1>0, <1>4, <2>3 DEF Tags
  <2>4. k <= n \/ k = n + 1
    BY <1>2
  <2>5. j <= n \/ j = n + 1
    BY <1>2
  <2>. QED  BY <2>1, <2>2, <2>3, <2>4, <2>5
<1>9. ASSUME NEW k \in 1..((n + 1) - 1)  PROVE Follows(out, more[k], more[k + 1])
  <2>1. CASE k = n
    BY <1>2, <1>4, <1>5, <2>1
  <2>2. CASE k # n
    <3>1. k \in 1..(n - 1) /\ k \in 1..n /\ k + 1 \in 1..n
      BY <1>2, <2>2
    <3>. QED  BY <1>3, <1>4, <3>1
  <2>. QED  BY <2>1, <2>2
<1>10. Placing(out, buffer, longer, more)
  <2>1. Len(buffer) = b /\ Len(longer) = w + 1 /\ b + (w + 1) = n + 1
    BY <1>1, <1>2 DEF b
  <2>. QED  BY ONLY <1>4, <1>6, <1>7, <1>8, <1>9, <2>1 DEF Placing, Linked
<1>11. b + Len(longer) = n + 1
  BY <1>1, <1>2
<1>. QED  BY <1>4, <1>10, <1>11 DEF Extends, more, b, w, longer

\* The packets of the tags were sent, and their frames are sequences of bytes.
LEMMA TagFacts ==
  ASSUME NEW out \in Seq(Payloads), NEW buffer \in Seq(Bytes), NEW pieces \in Seq(Seq(Bytes)),
         NEW tags, Placing(out, buffer, pieces, tags),
         NEW k \in 1..(Len(buffer) + Len(pieces))
  PROVE  /\ tags[k] \in Tags /\ tags[k].of \in 0..Len(out)
         /\ tags[k].from # 0 => tags[k].of \in 1..Len(out) /\ out[tags[k].of] \in Seq(Bytes)
<1>. DEFINE b == Len(buffer)
            w == Len(pieces)
            t == tags[k]
<1>1. b \in Nat /\ w \in Nat /\ Len(out) \in Nat
  BY LenIsNat
<1>2. /\ tags \in [1..(b + w) -> Tags]
      /\ \A j \in 1..b : OnByte(out, buffer[j], tags[j])
      /\ \A j \in 1..w : OnPiece(out, pieces[j], tags[b + j])
  BY DEF Placing
<1>3. t \in Tags /\ t.of \in Nat
  BY <1>2 DEF Tags
<1>. HIDE DEF b, w
<1>4. t.of \in 0..Len(out) /\ (t.from # 0 => t.of # 0)
  <2>1. CASE k <= b
    <3>1. k \in 1..b
      BY <1>1, <2>1 DEF b, w
    <3>. QED  BY <1>2, <3>1 DEF OnByte
  <2>2. CASE ~(k <= b)
    <3>1. k - b \in 1..w /\ b + (k - b) = k
      BY <1>1, <2>2 DEF b, w
    <3>2. OnPiece(out, pieces[k - b], tags[k])
      BY <1>2, <3>1
    <3>. QED  BY <3>2 DEF OnPiece
  <2>. QED  BY <2>1, <2>2
<1>. HIDE DEF t
<1>5. t.from # 0 => t.of \in 1..Len(out)
  BY <1>1, <1>3, <1>4
<1>6. t.of \in 1..Len(out) => out[t.of] \in Seq(Bytes)
  BY ElementOfSeq, PayloadBytes
<1>. QED  BY <1>3, <1>4, <1>5, <1>6 DEF t

\* What the client adds: of its last packet, or of none, and no second frame.
Adds(out, tags, n, more, m) ==
  /\ n <= m
  /\ \A k \in 1..n : more[k] = tags[k]
  /\ \A k \in (n + 1)..m : more[k].of = Len(out) /\ (more[k].from = 1 => k = n + 1)

LEMMA SignTags ==
  ASSUME NEW out \in Seq(Payloads), NEW buffer \in Seq(Bytes), NEW pieces \in Seq(Seq(Bytes)),
         NEW tags, Placing(out, buffer, pieces, tags),
         Complete(out, tags, Len(buffer) + Len(pieces)),
         NEW byte \in {BREAK, PLUS}
  PROVE  LET n == Len(buffer) + Len(pieces)
             m == Len(buffer) + Len(Append(pieces, <<byte>>))
         IN \E more : /\ Placing(out, buffer, Append(pieces, <<byte>>), more)
                      /\ Complete(out, more, m) /\ Adds(out, tags, n, more, m)
                      /\ \A k \in (n + 1)..m : more[k].from # 1
<1>. DEFINE n == Len(buffer) + Len(pieces)
            m == Len(buffer) + Len(Append(pieces, <<byte>>))
            t == [of |-> Len(out), from |-> 0, to |-> 0]
            more == Extend(tags, n, t)
<1>1. n \in Nat /\ Len(out) \in Nat
  BY LenIsNat
<1>2. t \in Tags /\ t.of = Len(out) /\ t.from = 0
  BY <1>1 DEF Tags
<1>3. <<byte>> \in Seq(Bytes)
  BY DEF BREAK, PLUS, Bytes
<1>. HIDE DEF t
<1>4. OnPiece(out, <<byte>>, t)
  BY <1>1, <1>2 DEF OnPiece
<1>5. \A k \in 1..n : tags[k].of <= t.of
  BY <1>1, <1>2, TagFacts
<1>6. n > 0 => Follows(out, tags[n], t)
  BY <1>2 DEF Complete, Follows
<1>7. /\ Placing(out, buffer, Append(pieces, <<byte>>), more) /\ m = n + 1
      /\ \A k \in 1..n : more[k] = tags[k]
      /\ more[n + 1] = t
  <2>1. /\ more = Extend(tags, n, t) /\ m = Len(buffer) + Len(Append(pieces, <<byte>>))
    OBVIOUS
  <2>. DEFINE piece == <<byte>>
  <2>2. Fits(out, buffer, pieces, tags, n, piece, t)
    BY <1>2, <1>3, <1>4, <1>5, <1>6 DEF Fits
  <2>. HIDE DEF n, m, more, piece
  <2>3. /\ Placing(out, buffer, Append(pieces, piece), Extend(tags, n, t))
        /\ Len(buffer) + Len(Append(pieces, piece)) = n + 1
        /\ Extends(tags, n, t, Extend(tags, n, t))
    BY ONLY <2>2, ExtendTags
  <2>. QED  BY ONLY <2>1, <2>3 DEF piece, Extends
<1>. HIDE DEF n, m, more
<1>8. n <= m /\ \A k \in (n + 1)..m : k = n + 1
  BY <1>1, <1>7
<1>9. Complete(out, more, m) /\ Adds(out, tags, n, more, m)
      /\ \A k \in (n + 1)..m : more[k].from # 1
  BY <1>2, <1>7, <1>8 DEF Complete, Adds, EndsFrame
<1>. QED  BY <1>7, <1>9 DEF n, m

\* A packet, whole or in two pieces.
LEMMA FrameTags ==
  ASSUME NEW out \in Seq(Payloads), NEW buffer \in Seq(Bytes), NEW pieces \in Seq(Seq(Bytes)),
         NEW tags, Placing(out, buffer, pieces, tags),
         Complete(out, tags, Len(buffer) + Len(pieces)), out # <<>>,
         NEW longer,
         LET frame == Frame(out[Len(out)])
         IN \/ longer = Append(pieces, frame)
            \/ \E c \in 1..(Len(frame) - 1) :
                 longer = pieces \o <<SubSeq(frame, 1, c), SubSeq(frame, c + 1, Len(frame))>>
  PROVE  LET n == Len(buffer) + Len(pieces)
             m == Len(buffer) + Len(longer)
         IN \E more : /\ Placing(out, buffer, longer, more)
                      /\ Complete(out, more, m) /\ Adds(out, tags, n, more, m)
<1>. DEFINE n == Len(buffer) + Len(pieces)
            m == Len(buffer) + Len(longer)
            frame == Frame(out[Len(out)])
            L == Len(frame)
<1>1. n \in Nat /\ Len(out) \in Nat /\ Len(out) # 0 /\ Len(out) \in 1..Len(out)
  BY LenIsNat
<1>2. out[Len(out)] \in Seq(Bytes)
  BY <1>1, ElementOfSeq, PayloadBytes
<1>3. frame \in Seq(Bytes) /\ L \in Nat /\ L >= 4
  BY <1>2, FrameBytes
<1>4. /\ longer = Append(pieces, frame)
      \/ \E c \in 1..(L - 1) : longer = pieces \o <<SubSeq(frame, 1, c), SubSeq(frame, c + 1, L)>>
  OBVIOUS
<1>. HIDE DEF frame, L
<1>5. ASSUME NEW t \in Tags, t.of = Len(out), t.from = 1
      PROVE  (\A k \in 1..n : tags[k].of <= t.of) /\ (n > 0 => Follows(out, tags[n], t))
  <2>1. \A k \in 1..n : tags[k].of <= t.of
    BY <1>1, <1>5, TagFacts
  <2>2. n > 0 => Follows(out, tags[n], t)
    BY <1>5 DEF Complete, Follows
  <2>. QED  BY <2>1, <2>2
<1>6. CASE longer = Append(pieces, frame)
  <2>. DEFINE t == [of |-> Len(out), from |-> 1, to |-> L]
              more == Extend(tags, n, t)
  <2>1. t \in Tags /\ t.of = Len(out) /\ t.from = 1 /\ t.to = L
    BY <1>1, <1>3 DEF Tags
  <2>. HIDE DEF t
  <2>2. OnPiece(out, frame, t)
    BY <1>1, <1>3, <2>1 DEF OnPiece, frame, L
  <2>3. /\ Placing(out, buffer, longer, more) /\ m = n + 1
        /\ \A k \in 1..n : more[k] = tags[k]
        /\ more[n + 1] = t
    <3>1. more = Extend(tags, n, t) /\ m = Len(buffer) + Len(longer)
      OBVIOUS
    <3>2. Fits(out, buffer, pieces, tags, n, frame, t)
      BY <1>3, <1>5, <2>1, <2>2 DEF Fits
    <3>. HIDE DEF n, m, more
    <3>3. /\ Placing(out, buffer, Append(pieces, frame), Extend(tags, n, t))
          /\ Len(buffer) + Len(Append(pieces, frame)) = n + 1
          /\ Extends(tags, n, t, Extend(tags, n, t))
      BY ONLY <3>2, ExtendTags
    <3>. QED  BY ONLY <1>6, <3>1, <3>3 DEF Extends
  <2>. HIDE DEF n, m, more
  <2>4. n <= m /\ \A k \in (n + 1)..m : k = n + 1
    BY <1>1, <2>3
  <2>5. Complete(out, more, m) /\ Adds(out, tags, n, more, m)
    BY <2>1, <2>3, <2>4 DEF Complete, Adds, EndsFrame, frame, L
  <2>. QED  BY <2>3, <2>5 DEF n, m
<1>7. CASE \E c \in 1..(L - 1) :
             longer = pieces \o <<SubSeq(frame, 1, c), SubSeq(frame, c + 1, L)>>
  <2>1. PICK c \in 1..(L - 1) :
               longer = pieces \o <<SubSeq(frame, 1, c), SubSeq(frame, c + 1, L)>>
    BY <1>7
  <2>. DEFINE left == SubSeq(frame, 1, c)
              right == SubSeq(frame, c + 1, L)
              t == [of |-> Len(out), from |-> 1, to |-> c]
              u == [of |-> Len(out), from |-> c + 1, to |-> L]
              one == Append(pieces, left)
              some == Extend(tags, n, t)
              more == Extend(some, n + 1, u)
  <2>2. c \in Nat /\ c >= 1 /\ c < L /\ c <= L
    BY <1>3
  <2>3. /\ t \in Tags /\ t.of = Len(out) /\ t.from = 1 /\ t.to = c
        /\ u \in Tags /\ u.of = Len(out) /\ u.from = c + 1 /\ u.to = L
    BY <1>1, <1>3, <2>2 DEF Tags
  <2>4. /\ left \in Seq(Bytes) /\ Len(left) = c /\ \A i \in 1..c : left[i] = frame[i]
        /\ right \in Seq(Bytes) /\ Len(right) = L - c
        /\ \A i \in 1..(L - c) : right[i] = frame[(c + 1) + i - 1]
    <3>1. c + 1 \in Nat \ {0} /\ L <= Len(frame) /\ c <= Len(frame) /\ c + 1 <= L
      BY <1>3, <2>2 DEF L
    <3>2. /\ left \in Seq(Bytes) /\ Len(left) = (c - 1) + 1
          /\ \A i \in 1..Len(left) : left[i] = frame[1 + i - 1]
      BY <1>3, <2>2, <3>1, SubSeqType
    <3>3. /\ right \in Seq(Bytes) /\ Len(right) = (L - (c + 1)) + 1
          /\ \A i \in 1..Len(right) : right[i] = frame[(c + 1) + i - 1]
      BY <1>3, <2>2, <3>1, SubSeqType
    <3>. DEFINE x == Len(left)
                y == Len(right)
    <3>4. c \in Nat /\ L \in Nat /\ x = (c - 1) + 1 /\ y = (L - (c + 1)) + 1
      BY <1>3, <2>2, <3>2, <3>3
    <3>. HIDE DEF left, right, L, x, y
    <3>5. x = c /\ y = L - c
      BY ONLY <3>4
    <3>6. \A i \in 1..c : 1 + i - 1 = i
      BY ONLY <3>4
    <3>7. Len(left) = c /\ Len(right) = L - c /\ \A i \in 1..c : 1 + i - 1 = i
      BY ONLY <3>5, <3>6 DEF x, y
    <3>. QED  BY <3>2, <3>3, <3>7
  <2>. HIDE DEF left, right, t, u
  <2>5. OnPiece(out, left, t)
    <3>1. \A i \in 1..c : 1 + i - 1 = i
      BY <2>2
    <3>2. c = (c - 1) + 1
      BY <2>2
    <3>. QED  BY <1>1, <1>3, <2>2, <2>3, <2>4, <3>1, <3>2 DEF OnPiece, frame, L
  <2>6. OnPiece(out, right, u)
    <3>1. c + 1 # 0 /\ c + 1 <= L /\ L - c = (L - (c + 1)) + 1
      BY <1>3, <2>2
    <3>. QED  BY <1>1, <1>3, <2>3, <2>4, <3>1 DEF OnPiece, frame, L
  <2>7. ~EndsFrame(out, t) /\ EndsFrame(out, u)
    BY <1>3, <2>2, <2>3 DEF EndsFrame, frame, L
  <2>8. /\ Placing(out, buffer, one, some) /\ Len(buffer) + Len(one) = n + 1
        /\ \A k \in 1..n : some[k] = tags[k]
        /\ some[n + 1] = t
    <3>1. some = Extend(tags, n, t) /\ one = Append(pieces, left)
      OBVIOUS
    <3>2. Fits(out, buffer, pieces, tags, n, left, t)
      BY <1>5, <2>3, <2>4, <2>5 DEF Fits
    <3>. HIDE DEF n, m, some, one
    <3>3. /\ Placing(out, buffer, Append(pieces, left), Extend(tags, n, t))
          /\ Len(buffer) + Len(Append(pieces, left)) = n + 1
          /\ Extends(tags, n, t, Extend(tags, n, t))
      BY ONLY <3>2, ExtendTags
    <3>. QED  BY ONLY <3>1, <3>3 DEF Extends
  <2>9. one \in Seq(Seq(Bytes))
    BY <2>4, AppendProperties
  <2>15. more = Extend(some, n + 1, u)
    OBVIOUS
  <2>. HIDE DEF n, m, one, some, more
  <2>10. /\ Placing(out, buffer, Append(one, right), more)
         /\ Len(buffer) + Len(Append(one, right)) = (n + 1) + 1
         /\ \A k \in 1..(n + 1) : more[k] = some[k]
         /\ more[(n + 1) + 1] = u
    <3>1. \A k \in 1..(n + 1) : some[k].of <= u.of
      <4>1. ASSUME NEW k \in 1..(n + 1)  PROVE some[k].of <= u.of
        <5>1. some[k].of \in 0..Len(out)
          BY <2>8, <2>9, TagFacts
        <5>. QED  BY <1>1, <2>3, <5>1
      <4>. QED  BY <4>1
    <3>2. Follows(out, some[n + 1], u)
      BY <2>3, <2>7, <2>8 DEF Follows
    <3>3. Fits(out, buffer, one, some, n + 1, right, u)
      BY <2>3, <2>4, <2>6, <2>8, <2>9, <3>1, <3>2 DEF Fits
    <3>4. /\ Placing(out, buffer, Append(one, right), Extend(some, n + 1, u))
          /\ Len(buffer) + Len(Append(one, right)) = (n + 1) + 1
          /\ Extends(some, n + 1, u, Extend(some, n + 1, u))
      BY ONLY <3>3, ExtendTags
    <3>. QED  BY ONLY <2>15, <3>4 DEF Extends
  <2>11. Append(one, right) = longer
    <3>1. one = pieces \o <<left>>
      BY <2>4, AppendIsConcat DEF one
    <3>2. Append(one, right) = one \o <<right>>
      BY <2>4, <2>9, AppendIsConcat
    <3>3. <<left>> \in Seq(Seq(Bytes)) /\ <<right>> \in Seq(Seq(Bytes))
      BY <2>4
    <3>4. (pieces \o <<left>>) \o <<right>> = pieces \o (<<left>> \o <<right>>)
      BY <3>3, ConcatAssociative
    <3>5. <<left>> \o <<right>> = <<left, right>>
      <4>1. Len(<<left>>) = 1 /\ Len(<<right>>) = 1 /\ Len(<<left, right>>) = 2
        OBVIOUS
      <4>2. /\ <<left>> \o <<right>> \in Seq(Seq(Bytes)) /\ <<left, right>> \in Seq(Seq(Bytes))
            /\ Len(<<left>> \o <<right>>) = 1 + 1
            /\ (<<left>> \o <<right>>)[1] = left /\ (<<left>> \o <<right>>)[1 + 1] = right
        BY <2>4, <3>3, <4>1
      <4>3. <<left, right>>[1] = left /\ <<left, right>>[2] = right /\ 1 + 1 = 2
        OBVIOUS
      <4>4. \A i \in 1..2 : (<<left>> \o <<right>>)[i] = <<left, right>>[i]
        <5>1. \A i \in 1..2 : i = 1 \/ i = 2
          OBVIOUS
        <5>. QED  BY <4>2, <4>3, <5>1
      <4>. DEFINE both == <<left>> \o <<right>>
                  pair == <<left, right>>
      <4>5. /\ both \in Seq(Seq(Bytes)) /\ pair \in Seq(Seq(Bytes))
            /\ Len(both) = Len(pair) /\ \A i \in 1..Len(both) : both[i] = pair[i]
        BY <4>1, <4>2, <4>3, <4>4
      <4>. HIDE DEF both, pair
      <4>6. both = pair
        BY ONLY <4>5, SeqEqual
      <4>. QED  BY <4>6 DEF both, pair
    <3>6. longer = pieces \o <<left, right>>
      BY <2>1 DEF left, right
    <3>. QED  BY ONLY <3>1, <3>2, <3>4, <3>5, <3>6
  <2>12. m = (n + 1) + 1
    BY <2>10, <2>11 DEF m
  <2>13. Complete(out, more, m)
    BY <2>7, <2>10, <2>12 DEF Complete
  <2>14. Adds(out, tags, n, more, m)
    <3>1. n <= m /\ \A k \in 1..n : k \in 1..(n + 1)
      BY <1>1, <2>12
    <3>2. \A k \in (n + 1)..m : k = n + 1 \/ k = (n + 1) + 1
      BY <1>1, <2>12
    <3>3. more[n + 1] = t /\ more[(n + 1) + 1] = u /\ u.from # 1
      <4>1. n + 1 \in 1..(n + 1) /\ c + 1 # 1
        BY <1>1, <2>2
      <4>. QED  BY <2>3, <2>8, <2>10, <4>1
    <3>4. \A k \in 1..n : more[k] = tags[k]
      BY <2>8, <2>10, <3>1
    <3>. QED  BY <2>3, <3>1, <3>2, <3>3, <3>4 DEF Adds
  <2>. QED  BY <2>10, <2>11, <2>13, <2>14 DEF n, m
<1>. QED  BY <1>4, <1>6, <1>7

\* A packet more that the client has sent changes no tag.
LEMMA MorePackets ==
  ASSUME NEW out \in Seq(Payloads), NEW buffer \in Seq(Bytes), NEW pieces \in Seq(Seq(Bytes)),
         NEW tags, Placing(out, buffer, pieces, tags),
         Complete(out, tags, Len(buffer) + Len(pieces)), NEW p \in Payloads
  PROVE  /\ Placing(Append(out, p), buffer, pieces, tags)
         /\ Complete(Append(out, p), tags, Len(buffer) + Len(pieces))
<1>. DEFINE b == Len(buffer)
            w == Len(pieces)
            n == b + w
            next == Append(out, p)
<1>1. /\ b \in Nat /\ w \in Nat /\ n \in Nat
      /\ Len(out) \in Nat /\ Len(next) = Len(out) + 1 /\ \A i \in 1..Len(out) : next[i] = out[i]
  BY LenIsNat, AppendProperties
<1>2. \A i \in 0..Len(out) : i \in 0..Len(next)
  BY <1>1
<1>. HIDE DEF next
<1>3. ASSUME NEW k \in 1..n
      PROVE  /\ EndsFrame(next, tags[k]) <=> EndsFrame(out, tags[k])
             /\ tags[k].from # 0 => next[tags[k].of] = out[tags[k].of]
             /\ tags[k].of \in 0..Len(next)
  <2>1. tags[k].of \in 0..Len(out) /\ (tags[k].from # 0 => tags[k].of \in 1..Len(out))
    BY TagFacts
  <2>2. tags[k].from # 0 => next[tags[k].of] = out[tags[k].of]
    BY <1>1, <2>1
  <2>. QED  BY <1>2, <2>1, <2>2, Zenon DEF EndsFrame
<1>. HIDE DEF b, w
<1>4. /\ tags \in [1..n -> Tags]
      /\ \A k \in 1..b : OnByte(out, buffer[k], tags[k])
      /\ \A k \in 1..w : OnPiece(out, pieces[k], tags[b + k])
      /\ \A j, k \in 1..n : j <= k => tags[j].of <= tags[k].of
      /\ \A k \in 1..(n - 1) : Follows(out, tags[k], tags[k + 1])
  BY DEF Placing, Linked, b, w
<1>5. \A k \in 1..b : k \in 1..n
  BY <1>1
<1>6. \A k \in 1..w : b + k \in 1..n
  BY <1>1
<1>7. \A k \in 1..(n - 1) : k \in 1..n
  BY <1>1
<1>8. n > 0 => n \in 1..n
  BY <1>1
<1>. HIDE DEF n
<1>9. ASSUME NEW k \in 1..b  PROVE OnByte(next, buffer[k], tags[k])
  <2>1. OnByte(out, buffer[k], tags[k]) /\ k \in 1..n
    BY <1>4, <1>5
  <2>. QED  BY <1>3, <2>1 DEF OnByte
<1>10. ASSUME NEW k \in 1..w  PROVE OnPiece(next, pieces[k], tags[b + k])
  <2>1. OnPiece(out, pieces[k], tags[b + k]) /\ b + k \in 1..n
    BY <1>4, <1>6
  <2>. QED  BY <1>3, <2>1 DEF OnPiece
<1>11. ASSUME NEW k \in 1..(n - 1)  PROVE Follows(next, tags[k], tags[k + 1])
  <2>1. Follows(out, tags[k], tags[k + 1]) /\ k \in 1..n
    BY <1>4, <1>7
  <2>. QED  BY <1>3, <2>1 DEF Follows
<1>12. Complete(out, tags, n) => Complete(next, tags, n)
  BY <1>3, <1>8 DEF Complete
<1>. QED  BY <1>4, <1>9, <1>10, <1>11, <1>12 DEF Placing, Linked, n, b, w, next
\* In s, which is w joined, the p-th element is the off[p]-th of w[own[p]].
Located(w, s, own, off) ==
  /\ own \in [1..Len(s) -> 1..Len(w)] /\ off \in [1..Len(s) -> Nat]
  /\ \A p \in 1..Len(s) : off[p] \in 1..Len(w[own[p]]) /\ s[p] = w[own[p]][off[p]]
  /\ \A p, q \in 1..Len(s) : p <= q => own[p] <= own[q]
  /\ \A p, q \in 1..Len(s) : own[p] = own[q] /\ off[p] = off[q] => p = q
  /\ \A p \in 1..(Len(s) - 1) :
       \/ own[p + 1] = own[p] /\ off[p + 1] = off[p] + 1
       \/ own[p + 1] = own[p] + 1 /\ off[p] = Len(w[own[p]]) /\ off[p + 1] = 1
  /\ Len(w) > 0 => Len(s) > 0 /\ own[Len(s)] = Len(w) /\ off[Len(s)] = Len(w[Len(w)])

LEMMA Places ==
  ASSUME NEW T, NEW w \in Seq(Seq(T)), \A i \in 1..Len(w) : Len(w[i]) >= 1
  PROVE  /\ FlattenSeq(w) \in Seq(T)
         /\ \E own, off : Located(w, FlattenSeq(w), own, off)
<1>. DEFINE s == FlattenSeq(w)
            n == Len(w)
            L == Len(s)
<1>1. s \in Seq(T) /\ \E e \in [0..n -> Nat] : Layout(w, s, e)
  BY FlattenLayout
<1>2. PICK e \in [0..n -> Nat] : Layout(w, s, e)
  BY <1>1
<1>3. n \in Nat /\ L \in Nat /\ \A i \in 1..n : Len(w[i]) \in Nat /\ Len(w[i]) >= 1
  BY <1>1, LenIsNat, ElementOfSeq
<1>4. /\ \A i, j \in 0..n : i <= j => e[i] <= e[j]
      /\ \A p \in 1..L : \E i \in 1..n : e[i - 1] < p /\ p <= e[i]
  BY <1>1, <1>2, LayoutFacts
<1>5. /\ e[0] = 0 /\ e[n] = L
      /\ \A i \in 1..n : e[i] = e[i - 1] + Len(w[i]) /\ \A o \in 1..Len(w[i]) : s[e[i - 1] + o] = w[i][o]
  BY <1>2 DEF Layout
<1>. HIDE DEF n, s, L
<1>. DEFINE size == [i \in 1..n |-> Len(w[i])]
            own == [p \in 1..L |-> CHOOSE i \in 1..n : e[i - 1] < p /\ p <= e[i]]
            off == [p \in 1..L |-> p - e[own[p] - 1]]
<1>6. \A i \in 1..n : /\ i - 1 \in 0..n /\ i \in 0..n /\ e[i - 1] \in Nat /\ e[i] \in Nat
                      /\ size[i] \in Nat /\ size[i] >= 1 /\ size[i] = Len(w[i])
                      /\ e[i] = e[i - 1] + size[i] /\ e[i - 1] < e[i]
  <2>1. ASSUME NEW i \in 1..n
        PROVE  /\ i - 1 \in 0..n /\ i \in 0..n /\ e[i - 1] \in Nat /\ e[i] \in Nat
               /\ size[i] \in Nat /\ size[i] >= 1 /\ size[i] = Len(w[i])
    <3>1. i - 1 \in 0..n /\ i \in 0..n
      BY <1>3
    <3>. QED  BY <1>3, <3>1
  <2>2. \A i \in 1..n : e[i] = e[i - 1] + size[i]
    BY <1>5, <2>1
  <2>. HIDE DEF size
  <2>3. ASSUME NEW i \in 1..n  PROVE e[i - 1] < e[i]
    <3>. DEFINE a == e[i - 1]
                b == e[i]
                c == size[i]
    <3>1. a \in Nat /\ b \in Nat /\ c \in Nat /\ c >= 1 /\ b = a + c
      BY <2>1, <2>2
    <3>. HIDE DEF a, b, c
    <3>2. a < b
      BY <3>1
    <3>. QED  BY <3>2 DEF a, b
  <2>. QED  BY <2>1, <2>2, <2>3
<1>7. /\ own \in [1..L -> 1..n]
      /\ \A p \in 1..L : e[own[p] - 1] < p /\ p <= e[own[p]]
  BY <1>4
<1>. HIDE DEF size, own
<1>8. \A p \in 1..L : off[p] = p - e[own[p] - 1]
  OBVIOUS
<1>9. /\ off \in [1..L -> Nat]
      /\ \A p \in 1..L : /\ off[p] \in 1..size[own[p]] /\ p = e[own[p] - 1] + off[p]
                         /\ (off[p] = size[own[p]] <=> p = e[own[p]])
  <2>1. ASSUME NEW p \in 1..L
        PROVE  /\ p - e[own[p] - 1] \in 1..size[own[p]]
               /\ p = e[own[p] - 1] + (p - e[own[p] - 1])
               /\ (p - e[own[p] - 1] = size[own[p]] <=> p = e[own[p]])
    <3>. DEFINE a == e[own[p] - 1]
                b == e[own[p]]
                c == size[own[p]]
    <3>1. a \in Nat /\ b \in Nat /\ c \in Nat /\ b = a + c /\ a < p /\ p <= b /\ p \in Nat
      <4>1. own[p] \in 1..n /\ p \in Nat
        BY <1>3, <1>7
      <4>2. a \in Nat /\ b \in Nat /\ c \in Nat /\ b = a + c
        BY <1>6, <4>1
      <4>. QED  BY <1>7, <4>1, <4>2
    <3>. HIDE DEF a, b, c
    <3>2. p - a \in 1..c /\ p = a + (p - a) /\ (p - a = c <=> p = b)
      BY <3>1
    <3>. QED  BY <3>2 DEF a, b, c
  <2>2. off = [p \in 1..L |-> p - e[own[p] - 1]]
    OBVIOUS
  <2>3. \A p \in 1..L : p - e[own[p] - 1] \in Nat
    <3>1. \A p \in 1..L : \A z \in 1..size[own[p]] : z \in Nat
      OBVIOUS
    <3>. QED  BY <2>1, <3>1
  <2>4. off \in [1..L -> Nat]
    BY <2>2, <2>3
  <2>. HIDE DEF off
  <2>. QED  BY <1>8, <2>1, <2>4
<1>. HIDE DEF off
<1>10. ASSUME NEW p \in 1..L  PROVE off[p] \in 1..Len(w[own[p]]) /\ s[p] = w[own[p]][off[p]]
  <2>1. off[p] \in 1..Len(w[own[p]]) /\ own[p] \in 1..n /\ p = e[own[p] - 1] + off[p]
    BY <1>6, <1>7, <1>9
  <2>2. \A o \in 1..Len(w[own[p]]) : s[e[own[p] - 1] + o] = w[own[p]][o]
    BY <1>5, <2>1
  <2>3. s[e[own[p] - 1] + off[p]] = w[own[p]][off[p]]
    BY <2>1, <2>2
  <2>. QED  BY <2>1, <2>3
<1>11. ASSUME NEW p \in 1..L, NEW q \in 1..L, p <= q  PROVE own[p] <= own[q]
  <2>1. SUFFICES ASSUME ~(own[p] <= own[q]) PROVE FALSE
    OBVIOUS
  <2>2. own[q] \in 0..n /\ own[p] - 1 \in 0..n /\ own[q] <= own[p] - 1
    <3>. DEFINE i == own[p]
                j == own[q]
    <3>1. i \in 1..n /\ j \in 1..n /\ ~(i <= j)
      BY <1>7, <2>1
    <3>. HIDE DEF i, j
    <3>2. j \in 0..n /\ i - 1 \in 0..n /\ j <= i - 1
      BY <1>3, <3>1
    <3>. QED  BY <3>2 DEF i, j
  <2>3. e[own[q]] <= e[own[p] - 1]
    BY <1>4, <2>2
  <2>4. e[own[p] - 1] < p /\ q <= e[own[q]] /\ e[own[q]] \in Nat /\ e[own[p] - 1] \in Nat
    BY <1>7, <2>2
  <2>5. \A x, y \in Nat : ~(x <= y /\ y < p /\ q <= x)
    BY <1>3, <1>11
  <2>. QED  BY <2>3, <2>4, <2>5
<1>12. ASSUME NEW p \in 1..L, NEW q \in 1..L, own[p] = own[q], off[p] = off[q]  PROVE p = q
  BY <1>9, <1>12
<1>13. ASSUME NEW p \in 1..(L - 1)
       PROVE  \/ own[p + 1] = own[p] /\ off[p + 1] = off[p] + 1
              \/ own[p + 1] = own[p] + 1 /\ off[p] = Len(w[own[p]]) /\ off[p + 1] = 1
  <2>1. p \in 1..L /\ p + 1 \in 1..L /\ p \in Nat
    BY <1>3
  <2>. DEFINE i == own[p]
              j == own[p + 1]
              ei == e[i]
              di == e[i - 1]
              ej == e[j]
              dj == e[j - 1]
  <2>2. /\ i \in 1..n /\ j \in 1..n /\ i <= j
        /\ ei \in Nat /\ di \in Nat /\ ej \in Nat /\ dj \in Nat
        /\ di < p /\ p <= ei /\ dj < p + 1 /\ p + 1 <= ej
        /\ p = di + off[p] /\ p + 1 = dj + off[p + 1]
        /\ off[p] \in Nat /\ off[p + 1] \in Nat
        /\ (off[p] = Len(w[i]) <=> p = ei)
    <3>1. i <= j
      BY <1>11, <2>1
    <3>2. i \in 1..n /\ j \in 1..n
      BY <1>7, <2>1
    <3>3. ei \in Nat /\ di \in Nat /\ ej \in Nat /\ dj \in Nat
      BY <1>6, <3>2
    <3>4. di < p /\ p <= ei /\ dj < p + 1 /\ p + 1 <= ej
      BY <1>7, <2>1
    <3>5. p = di + off[p] /\ p + 1 = dj + off[p + 1] /\ off[p] \in Nat /\ off[p + 1] \in Nat
      BY <1>9, <2>1
    <3>6. off[p] = Len(w[i]) <=> p = ei
      BY <1>6, <1>9, <2>1, <3>2
    <3>. QED  BY <3>1, <3>2, <3>3, <3>4, <3>5, <3>6
  <2>3. CASE i = j
    <3>1. di = dj
      BY <2>3
    <3>. DEFINE x == off[p]
                y == off[p + 1]
    <3>2. p = di + x /\ p + 1 = di + y /\ x \in Nat /\ y \in Nat /\ di \in Nat /\ p \in Nat
      BY <2>1, <2>2, <3>1
    <3>. HIDE DEF i, j, ei, di, ej, dj, x, y
    <3>3. y = x + 1
      BY ONLY <3>2
    <3>. QED  BY <2>3, <3>3 DEF i, j, x, y
  <2>4. CASE i # j
    <3>. DEFINE fi == e[i + 1]
    <3>1. i + 1 \in 1..n /\ (i + 1) - 1 = i /\ i \in 0..n /\ i + 1 \in 0..n /\ j - 1 \in 0..n
          /\ i <= j - 1 /\ i + 1 <= j
      <4>. HIDE DEF i, j, ei, di, ej, dj
      <4>. QED  BY <1>3, <2>2, <2>4
    <3>2. ei <= dj /\ fi \in Nat /\ ei < fi
      BY <1>4, <1>6, <3>1
    <3>3. i + 1 <= j - 1 => fi <= dj
      BY <1>4, <3>1
    <3>. HIDE DEF i, j, ei, di, ej, dj, fi
    <3>4. p = ei /\ dj = ei
      <4>. DEFINE x == off[p]
                  y == off[p + 1]
      <4>1. /\ di < p /\ p <= ei /\ dj < p + 1 /\ p = di + x /\ p + 1 = dj + y /\ ei <= dj
            /\ x \in Nat /\ y \in Nat /\ di \in Nat /\ ei \in Nat /\ dj \in Nat /\ p \in Nat
        BY ONLY <2>1, <2>2, <3>2
      <4>. HIDE DEF x, y
      <4>. QED  BY ONLY <4>1
    <3>5. ~(i + 1 <= j - 1)
      BY <2>1, <2>2, <3>2, <3>3, <3>4
    <3>6. j = i + 1
      BY <1>3, <2>2, <3>1, <3>5
    <3>7. off[p + 1] = 1 /\ off[p] = Len(w[i])
      BY <2>1, <2>2, <3>4
    <3>. QED  BY <3>6, <3>7 DEF i, j
  <2>. QED  BY <2>3, <2>4
<1>14. ASSUME n > 0  PROVE L > 0 /\ own[L] = n /\ off[L] = Len(w[n])
  <2>1. n \in 1..n /\ n - 1 \in 0..n /\ n \in 0..n
    BY <1>3, <1>14
  <2>2. e[n - 1] < L /\ e[n - 1] \in Nat
    BY <1>5, <1>6, <2>1
  <2>3. L > 0 /\ L \in 1..L
    BY <1>3, <2>2
  <2>4. own[L] \in 1..n /\ L <= e[own[L]]
    BY <1>7, <2>3
  <2>5. own[L] = n
    <3>1. SUFFICES ASSUME own[L] # n PROVE FALSE
      OBVIOUS
    <3>2. own[L] \in 0..n /\ own[L] <= n - 1
      <4>. DEFINE i == own[L]
      <4>1. i \in 1..n /\ i # n
        BY <2>4, <3>1
      <4>. HIDE DEF i
      <4>2. i \in 0..n /\ i <= n - 1
        BY <1>3, <4>1
      <4>. QED  BY <4>2 DEF i
    <3>3. e[own[L]] <= e[n - 1] /\ e[own[L]] \in Nat
      BY <1>4, <2>1, <3>2
    <3>. DEFINE a == e[own[L]]
                y == e[n - 1]
    <3>4. L <= a /\ a <= y /\ y < L /\ a \in Nat /\ y \in Nat /\ L \in Nat
      BY <1>3, <2>2, <2>4, <3>3
    <3>. HIDE DEF a, y, L
    <3>. QED  BY ONLY <3>4
  <2>6. off[L] = size[n]
    BY <1>5, <1>9, <2>3, <2>5
  <2>. QED  BY <1>6, <2>1, <2>3, <2>5, <2>6
<1>15. own \in [1..L -> 1..n] /\ off \in [1..L -> Nat]
  BY <1>7, <1>9
<1>16. Located(w, s, own, off)
  BY ONLY <1>10, <1>11, <1>12, <1>13, <1>14, <1>15 DEF Located, n, L
<1>17. s \in Seq(T) /\ \E g, h : Located(w, s, g, h)
  BY <1>1, <1>16
<1>. QED  BY <1>17 DEF s
\* The tag of the o-th byte of a piece.
ByteTag(t, o) ==
  IF t.from = 0 THEN t ELSE [of |-> t.of, from |-> t.from + o - 1, to |-> t.from + o - 1]

ByteOf(out, bytes, t, o) ==
  /\ ByteTag(t, o) \in Tags /\ ByteTag(t, o).of = t.of
  /\ OnByte(out, bytes[o], ByteTag(t, o))
  /\ o = 1 => ByteTag(t, o).from = t.from
  /\ ByteTag(t, o).from = 1 => o = 1 /\ t.from = 1
  /\ o = Len(bytes) => ByteTag(t, o).to = t.to /\ (ByteTag(t, o).from = 0 <=> t.from = 0)
  /\ o < Len(bytes) => Follows(out, ByteTag(t, o), ByteTag(t, o + 1))

LEMMA ByteTags ==
  ASSUME NEW out \in Seq(Payloads), NEW bytes \in Seq(Bytes), NEW t \in Tags, OnPiece(out, bytes, t),
         NEW o \in 1..Len(bytes)
  PROVE  ByteOf(out, bytes, t, o)
<1>. DEFINE a == t.from
            b == t.to
            c == t.of
            L == Len(bytes)
<1>1. a \in Nat /\ b \in Nat /\ c \in Nat /\ L \in Nat /\ o \in 1..L
  BY LenIsNat DEF Tags
<1>2. CASE a = 0
  <2>1. ByteTag(t, o) = t /\ ByteTag(t, o + 1) = t
    BY <1>2 DEF ByteTag
  <2>2. bytes \in {<<BREAK>>, <<PLUS>>} /\ t.of \in 0..Len(out)
    BY <1>2 DEF OnPiece
  <2>3. L = 1 /\ bytes[1] \in {BREAK, PLUS}
    BY <2>2
  <2>4. o = 1 /\ ~(o < L)
    BY <1>1, <2>3
  <2>. QED  BY <1>2, <2>1, <2>2, <2>3, <2>4 DEF OnByte, ByteOf
<1>3. CASE a # 0
  <2>. DEFINE frame == Frame(out[c])
              F == Len(frame)
  <2>1. /\ c \in 0..Len(out) /\ c # 0 /\ a <= b /\ b <= F /\ L = (b - a) + 1
        /\ \A i \in 1..L : bytes[i] = frame[a + i - 1]
    BY <1>3 DEF OnPiece
  <2>2. /\ ByteTag(t, o) = [of |-> c, from |-> a + o - 1, to |-> a + o - 1]
        /\ ByteTag(t, o + 1) = [of |-> c, from |-> a + (o + 1) - 1, to |-> a + (o + 1) - 1]
    BY <1>3 DEF ByteTag
  <2>. HIDE DEF a, b, c, L, F, frame
  <2>3. /\ a >= 1 /\ a + o - 1 \in Nat /\ a + o - 1 # 0 /\ a + o - 1 <= b
        /\ (o = 1 => a + o - 1 = a) /\ (a + o - 1 = 1 => o = 1 /\ a = 1)
        /\ (o = L => a + o - 1 = b)
    BY <1>1, <1>3, <2>1
  <2>4. o < L => a + o - 1 < b /\ a + (o + 1) - 1 = (a + o - 1) + 1
    BY <1>1, <1>3, <2>1
  <2>5. \A z \in Nat : (z <= b /\ b <= F => z <= F) /\ (z < b /\ b <= F => z # F)
    <3>0. F \in Nat
      <4>1. frame \in Seq(Bytes)
        BY <1>1, <2>1, ElementOfSeq, PayloadBytes, FrameBytes DEF frame, c
      <4>. QED  BY <4>1, LenIsNat DEF F
    <3>. QED  BY <1>1, <2>1, <3>0
  <2>. DEFINE z == a + o - 1
              y == a + (o + 1) - 1
  <2>6. /\ ByteTag(t, o) = [of |-> c, from |-> z, to |-> z] /\ z \in Nat /\ z # 0 /\ z <= F
        /\ (o = 1 => z = a) /\ (z = 1 => o = 1 /\ a = 1) /\ (o = L => z = b)
        /\ ByteTag(t, o + 1) = [of |-> c, from |-> y, to |-> y] /\ (o < L => y = z + 1 /\ z # F)
        /\ bytes[o] = frame[z]
    BY <1>1, <2>1, <2>2, <2>3, <2>4, <2>5
  <2>. HIDE DEF z, y
  <2>7. OnByte(out, bytes[o], ByteTag(t, o))
    BY <2>1, <2>6 DEF OnByte, F, frame
  <2>8. o < L => Follows(out, ByteTag(t, o), ByteTag(t, o + 1))
    BY <2>6 DEF Follows, EndsFrame, F, frame
  <2>9. ByteTag(t, o) \in Tags /\ ByteTag(t, o).of = c
    BY <1>1, <2>6 DEF Tags
  <2>. QED  BY <1>3, <2>6, <2>7, <2>8, <2>9 DEF ByteOf, a, b, c, L
<1>. QED  BY <1>2, <1>3

\* What follows a tag depends on its end, and on the beginning of the next.
LEMMA SameFollows ==
  ASSUME NEW out, NEW s, NEW t, Follows(out, s, t), NEW r, NEW u,
         r.of = s.of, r.to = s.to, r.from = 0 <=> s.from = 0, u.of = t.of, u.from = t.from
  PROVE  Follows(out, r, u)
<1>1. EndsFrame(out, r) <=> EndsFrame(out, s)
  BY DEF EndsFrame
<1>. QED  BY <1>1 DEF Follows

\* A read takes the first c pieces off the wire and joins them in the buffer.
LEMMA ReadTags ==
  ASSUME NEW out \in Seq(Payloads), NEW pieces \in Seq(Seq(Bytes)), NEW tags,
         Placing(out, <<>>, pieces, tags), Complete(out, tags, Len(pieces)),
         NEW c \in 1..Len(pieces)
  PROVE  LET s == FlattenSeq(SubSeq(pieces, 1, c))
             rest == SubSeq(pieces, c + 1, Len(pieces))
             m == Len(s) + Len(rest)
         IN /\ s \in Seq(Bytes) /\ rest \in Seq(Seq(Bytes)) /\ Len(s) > 0
            /\ \E more : /\ Placing(out, s, rest, more) /\ Complete(out, more, m)
                         /\ Fewer(more, m, tags, Len(pieces))
<1>. DEFINE n == Len(pieces)
            w == SubSeq(pieces, 1, c)
            s == FlattenSeq(w)
            rest == SubSeq(pieces, c + 1, n)
            L == Len(s)
            R == Len(rest)
            m == L + R
<1>1. n \in Nat /\ c \in Nat /\ c >= 1 /\ c <= n
  BY LenIsNat
<1>2. /\ tags \in [1..n -> Tags]
      /\ \A k \in 1..n : OnPiece(out, pieces[k], tags[k])
      /\ \A j, k \in 1..n : j <= k => tags[j].of <= tags[k].of
      /\ \A k \in 1..(n - 1) : Follows(out, tags[k], tags[k + 1])
  <2>1. Len(<<>>) = 0 /\ 0 + n = n /\ \A k \in 1..n : 0 + k = k
    BY <1>1
  <2>. QED  BY <2>1 DEF Placing, Linked
<1>3. /\ w \in Seq(Seq(Bytes)) /\ Len(w) = c /\ \A i \in 1..c : w[i] = pieces[i]
      /\ rest \in Seq(Seq(Bytes)) /\ R = n - c /\ \A i \in 1..R : rest[i] = pieces[c + i]
  <2>1. 1 \in Nat \ {0} /\ c + 1 \in Nat \ {0} /\ n <= Len(pieces) /\ c <= Len(pieces)
    BY <1>1
  <2>2. /\ w \in Seq(Seq(Bytes)) /\ Len(w) = IF 1 <= c THEN (c - 1) + 1 ELSE 0
        /\ \A i \in 1..Len(w) : w[i] = pieces[1 + i - 1]
    BY <1>1, <2>1, SubSeqType
  <2>3. /\ rest \in Seq(Seq(Bytes)) /\ Len(rest) = IF c + 1 <= n THEN (n - (c + 1)) + 1 ELSE 0
        /\ \A i \in 1..Len(rest) : rest[i] = pieces[(c + 1) + i - 1]
    BY <1>1, <2>1, SubSeqType
  <2>4. Len(w) = c /\ R = n - c
    BY <1>1, <2>2, <2>3
  <2>. HIDE DEF w, rest, R, n
  <2>5. \A i \in 1..c : 1 + i - 1 = i
    BY <1>1
  <2>6. \A i \in 1..R : (c + 1) + i - 1 = c + i
    BY <1>1, <2>4
  <2>. QED  BY <2>2, <2>3, <2>4, <2>5, <2>6 DEF R
<1>4. \A i \in 1..c : w[i] \in Seq(Bytes) /\ pieces[i] = w[i] /\ i \in 1..n
  BY <1>1, <1>3, ElementOfSeq
<1>5. \A i \in 1..Len(w) : Len(w[i]) >= 1
  <2>1. ASSUME NEW i \in 1..c  PROVE Len(w[i]) >= 1
    <3>1. OnPiece(out, w[i], tags[i]) /\ tags[i] \in Tags
      BY <1>2, <1>4
    <3>2. tags[i].from = 0 => Len(w[i]) = 1
      BY <3>1 DEF OnPiece
    <3>3. tags[i].from # 0 => Len(w[i]) >= 1
      <4>. DEFINE a == tags[i].from
                  b == tags[i].to
                  l == Len(w[i])
      <4>1. a \in Nat /\ b \in Nat
        BY <3>1 DEF Tags
      <4>2. a # 0 => a <= b /\ l = (b - a) + 1
        BY <3>1 DEF OnPiece
      <4>. HIDE DEF a, b, l
      <4>3. a # 0 => l >= 1
        BY <4>1, <4>2
      <4>. QED  BY <4>3 DEF a, l
    <3>. QED
      <4>1. ASSUME NEW l, l = 1 PROVE l >= 1
        BY <4>1
      <4>. QED  BY <3>2, <3>3, <4>1
  <2>. QED  BY <1>3, <2>1
<1>6. s \in Seq(Bytes) /\ \E own, off : Located(w, s, own, off)
  BY <1>3, <1>5, Places
<1>7. PICK own, off : Located(w, s, own, off)
  BY <1>6
<1>8. L \in Nat /\ R \in Nat /\ m \in Nat /\ m = L + R
  <2>1. L \in Nat
    BY <1>6, LenIsNat
  <2>2. R \in Nat
    <3>. HIDE DEF w, s, rest, L, R, n
    <3>. QED  BY ONLY <1>1, <1>3
  <2>. HIDE DEF L, R
  <2>. QED  BY <2>1, <2>2
<1>. HIDE DEF w, s, rest, L, R, n
<1>9. /\ own \in [1..L -> 1..c] /\ off \in [1..L -> Nat]
      /\ \A p \in 1..L : off[p] \in 1..Len(w[own[p]]) /\ s[p] = w[own[p]][off[p]]
      /\ \A p, q \in 1..L : p <= q => own[p] <= own[q]
      /\ \A p, q \in 1..L : own[p] = own[q] /\ off[p] = off[q] => p = q
      /\ \A p \in 1..(L - 1) : \/ own[p + 1] = own[p] /\ off[p + 1] = off[p] + 1
                               \/ own[p + 1] = own[p] + 1 /\ off[p] = Len(w[own[p]]) /\ off[p + 1] = 1
      /\ L > 0 /\ own[L] = c /\ off[L] = Len(w[c])
  BY <1>1, <1>3, <1>7 DEF Located, L
<1>. DEFINE src == [p \in 1..m |-> IF p <= L THEN own[p] ELSE c + (p - L)]
            more == [p \in 1..m |-> IF p <= L THEN ByteTag(tags[own[p]], off[p])
                                              ELSE tags[c + (p - L)]]
<1>10. ASSUME NEW p \in 1..L
       PROVE  /\ p \in 1..m /\ src[p] = own[p] /\ own[p] \in 1..c /\ own[p] \in 1..n
              /\ tags[own[p]] \in Tags /\ OnPiece(out, w[own[p]], tags[own[p]])
              /\ w[own[p]] \in Seq(Bytes) /\ off[p] \in 1..Len(w[own[p]])
              /\ more[p] = ByteTag(tags[own[p]], off[p])
  <2>1. p \in 1..m /\ p <= L
    BY <1>8
  <2>2. own[p] \in 1..c /\ own[p] \in 1..n
    BY <1>4, <1>9
  <2>. QED  BY <1>2, <1>4, <1>9, <2>1, <2>2
<1>11. ASSUME NEW p \in (L + 1)..m
       PROVE  /\ p \in 1..m /\ src[p] = c + (p - L) /\ c + (p - L) \in 1..n /\ p - L \in 1..R
              /\ ~(p <= L) /\ more[p] = tags[c + (p - L)]
  <2>1. p \in 1..m /\ ~(p <= L) /\ p - L \in 1..R /\ c + (p - L) \in 1..n
    BY <1>1, <1>3, <1>8
  <2>. QED  BY <2>1
<1>20. ASSUME NEW p \in 1..L
       PROVE  /\ ByteOf(out, w[own[p]], tags[own[p]], off[p])
              /\ off[p] = Len(w[own[p]]) =>
                   /\ more[p].of = tags[own[p]].of /\ more[p].to = tags[own[p]].to
                   /\ more[p].from = 0 <=> tags[own[p]].from = 0
              /\ more[p] \in Tags /\ more[p].of = tags[own[p]].of
              /\ OnByte(out, s[p], more[p])
              /\ more[p].from = 1 => off[p] = 1 /\ tags[own[p]].from = 1
              /\ off[p] = 1 => more[p].from = tags[own[p]].from
  <2>1. ByteOf(out, w[own[p]], tags[own[p]], off[p])
    <3>. DEFINE bytes == w[own[p]]
                t == tags[own[p]]
                o == off[p]
    <3>1. bytes \in Seq(Bytes) /\ t \in Tags /\ OnPiece(out, bytes, t) /\ o \in 1..Len(bytes)
          /\ out \in Seq(Payloads)
      BY <1>10
    <3>. HIDE DEF bytes, t, o
    <3>2. ByteOf(out, bytes, t, o)
      BY ONLY <3>1, ByteTags
    <3>. QED  BY <3>2 DEF bytes, t, o
  <2>2. more[p] = ByteTag(tags[own[p]], off[p]) /\ s[p] = w[own[p]][off[p]]
    BY <1>9, <1>10
  <2>. HIDE DEF more
  <2>. QED  BY ONLY <2>1, <2>2 DEF ByteOf
<1>. HIDE DEF m, src, more
<1>12. \A p \in 1..m : p \in 1..L \/ p \in (L + 1)..m
  BY <1>8
<1>13. \A p \in 1..m : src[p] \in 1..n /\ more[p] \in Tags /\ more[p].of = tags[src[p]].of
  <2>1. ASSUME NEW p \in 1..L
        PROVE  src[p] \in 1..n /\ more[p] \in Tags /\ more[p].of = tags[src[p]].of
    BY <1>10, <1>20
  <2>2. ASSUME NEW p \in (L + 1)..m
        PROVE  src[p] \in 1..n /\ more[p] \in Tags /\ more[p].of = tags[src[p]].of
    BY <1>2, <1>11
  <2>. QED  BY <1>12, <2>1, <2>2
<1>14. ASSUME NEW p \in 1..m, NEW q \in 1..m, p <= q  PROVE more[p].of <= more[q].of
  <2>1. src[p] <= src[q]
    <3>1. CASE p \in 1..L /\ q \in 1..L
      BY <1>9, <1>10, <1>14, <3>1
    <3>2. CASE p \in 1..L /\ q \in (L + 1)..m
      <4>1. own[p] \in 1..c /\ src[p] = own[p] /\ src[q] = c + (q - L) /\ q - L \in 1..R
        BY <1>10, <1>11, <3>2
      <4>. HIDE DEF R
      <4>. DEFINE x == own[p]
                  y == q - L
      <4>2. \A a \in 1..c : \A b \in 1..R : a <= c + b
        BY <1>1, <1>8
      <4>. QED  BY <4>1, <4>2
    <3>3. CASE p \in (L + 1)..m /\ q \in (L + 1)..m
      <4>1. src[p] = c + (p - L) /\ src[q] = c + (q - L)
        BY <1>11, <3>3
      <4>2. c + (p - L) <= c + (q - L)
        BY <1>1, <1>8, <1>14, <3>3
      <4>. QED  BY <4>1, <4>2
    <3>4. ~(p \in (L + 1)..m /\ q \in 1..L)
      BY <1>8, <1>14
    <3>. QED  BY <1>12, <3>1, <3>2, <3>3, <3>4
  <2>2. src[p] \in 1..n /\ src[q] \in 1..n
    BY <1>13
  <2>3. tags[src[p]].of <= tags[src[q]].of
    BY <1>2, <2>1, <2>2
  <2>. QED  BY <1>13, <2>3
<1>15. ASSUME NEW p \in 1..(m - 1)  PROVE Follows(out, more[p], more[p + 1])
  <2>0. p \in 1..m /\ p + 1 \in 1..m /\ p \in Nat
    BY <1>8
  <2>1. CASE p + 1 \in 1..L /\ own[p + 1] = own[p] /\ off[p + 1] = off[p] + 1
    <3>1. p \in 1..L
      BY <1>8, <2>0, <2>1
    <3>2. Len(w[own[p]]) \in Nat
      BY <1>10, <3>1, LenIsNat
    <3>3. off[p] + 1 \in 1..Len(w[own[p]]) /\ off[p] \in Nat
      BY <1>9, <1>10, <2>1, <3>1
    <3>4. off[p] < Len(w[own[p]])
      <4>. DEFINE x == off[p]
                  l == Len(w[own[p]])
      <4>1. x + 1 \in 1..l /\ x \in Nat /\ l \in Nat
        BY <3>2, <3>3
      <4>. HIDE DEF x, l
      <4>2. x < l
        BY <4>1
      <4>. QED  BY <4>2 DEF x, l
    <3>5. /\ more[p] = ByteTag(tags[own[p]], off[p])
          /\ more[p + 1] = ByteTag(tags[own[p]], off[p] + 1)
      BY <1>10, <2>1, <3>1
    <3>6. Follows(out, ByteTag(tags[own[p]], off[p]), ByteTag(tags[own[p]], off[p] + 1))
      BY <1>20, <3>1, <3>4 DEF ByteOf
    <3>. QED  BY <3>5, <3>6
  <2>2. CASE p + 1 \in 1..L /\ own[p + 1] = own[p] + 1 /\ off[p] = Len(w[own[p]]) /\ off[p + 1] = 1
    <3>1. p \in 1..L
      BY <1>8, <2>0, <2>2
    <3>2. own[p] \in 1..n /\ own[p] + 1 \in 1..n
      BY <1>10, <2>2, <3>1
    <3>3. own[p] \in 1..(n - 1)
      <4>. DEFINE x == own[p]
      <4>1. x \in 1..n /\ x + 1 \in 1..n
        BY <3>2
      <4>. HIDE DEF x
      <4>2. x \in 1..(n - 1)
        BY <1>1, <4>1
      <4>. QED  BY <4>2 DEF x
    <3>4. Follows(out, tags[own[p]], tags[own[p + 1]])
      BY <1>2, <2>2, <3>3
    <3>5. /\ more[p].of = tags[own[p]].of /\ more[p].to = tags[own[p]].to
          /\ (more[p].from = 0 <=> tags[own[p]].from = 0)
      BY <1>20, <2>2, <3>1
    <3>6. more[p + 1].of = tags[own[p + 1]].of /\ more[p + 1].from = tags[own[p + 1]].from
      BY <1>20, <2>2
    <3>. QED  BY <3>4, <3>5, <3>6, SameFollows
  <2>3. CASE p = L
    <3>1. L \in 1..L /\ L + 1 \in (L + 1)..m /\ c + ((L + 1) - L) = c + 1 /\ c \in 1..(n - 1)
      BY <1>1, <1>3, <1>8, <1>9, <2>0, <2>3
    <3>2. Follows(out, tags[c], tags[c + 1])
      BY <1>2, <3>1
    <3>3. /\ more[p].of = tags[c].of /\ more[p].to = tags[c].to
          /\ (more[p].from = 0 <=> tags[c].from = 0)
      BY <1>9, <1>20, <2>3, <3>1
    <3>4. more[p + 1] = tags[c + 1]
      BY <1>11, <2>3, <3>1
    <3>. QED  BY <3>2, <3>3, <3>4, SameFollows
  <2>4. CASE p \in (L + 1)..m
    <3>1. /\ p + 1 \in (L + 1)..m /\ c + (p - L) \in 1..(n - 1)
          /\ c + ((p + 1) - L) = (c + (p - L)) + 1
      BY <1>1, <1>3, <1>8, <2>0, <2>4
    <3>2. Follows(out, tags[c + (p - L)], tags[(c + (p - L)) + 1])
      BY <1>2, <3>1
    <3>. QED  BY <1>11, <2>4, <3>1, <3>2
  <2>5. p \in 1..(L - 1) \/ p = L \/ p \in (L + 1)..m
    BY <1>8, <2>0
  <2>6. p \in 1..(L - 1) => p + 1 \in 1..L
    BY <1>8, <2>0
  <2>. QED  BY <1>9, <2>1, <2>2, <2>3, <2>4, <2>5, <2>6
<1>16. Placing(out, s, rest, more)
  <2>1. more \in [1..m -> Tags]
    <3>1. more = [p \in 1..m |-> more[p]]
      BY DEF more
    <3>. QED  BY <1>13, <3>1
  <2>2. ASSUME NEW p \in 1..L  PROVE OnByte(out, s[p], more[p])
    BY <1>20
  <2>3. ASSUME NEW k \in 1..R  PROVE OnPiece(out, rest[k], more[L + k])
    <3>1. L + k \in (L + 1)..m /\ c + ((L + k) - L) = c + k /\ c + k \in 1..n
      BY <1>1, <1>3, <1>8
    <3>2. more[L + k] = tags[c + k]
      BY <1>11, <3>1
    <3>. QED  BY <1>2, <1>3, <3>1, <3>2
  <2>4. Len(s) = L /\ Len(rest) = R /\ m = L + R
    BY <1>8 DEF L, R
  <2>. QED  BY ONLY <1>14, <1>15, <2>1, <2>2, <2>3, <2>4 DEF Placing, Linked
<1>17. Complete(out, more, m)
  <2>1. n \in 1..n /\ EndsFrame(out, tags[n])
    BY <1>1 DEF Complete, n
  <2>2. CASE R = 0
    <3>1. m = L /\ c = n /\ L \in 1..L
      BY <1>1, <1>3, <1>8, <1>9, <2>2
    <3>2. /\ more[L].of = tags[c].of /\ more[L].to = tags[c].to
          /\ (more[L].from = 0 <=> tags[c].from = 0)
      BY <1>9, <1>20, <3>1
    <3>. QED  BY <2>1, <3>1, <3>2 DEF Complete, EndsFrame
  <2>3. CASE R # 0
    <3>1. m \in (L + 1)..m /\ c + (m - L) = n
      BY <1>1, <1>3, <1>8, <2>3
    <3>2. more[m] = tags[n]
      BY <1>11, <3>1
    <3>. QED  BY <2>1, <3>2 DEF Complete
  <2>. QED  BY <2>2, <2>3
<1>18. Fewer(more, m, tags, n)
  <2>1. \A p \in 1..m : \E j \in 1..n : more[p].of = tags[j].of
    BY <1>13
  <2>2. ASSUME NEW p \in 1..m, more[p].from = 1
        PROVE  /\ src[p] \in 1..n /\ tags[src[p]].from = 1 /\ more[p].of = tags[src[p]].of
               /\ p \in 1..L => off[p] = 1
    <3>1. CASE p \in 1..L
      <4>1. off[p] = 1 /\ tags[own[p]].from = 1
        BY <1>20, <2>2, <3>1
      <4>. QED  BY <1>10, <1>13, <3>1, <4>1
    <3>2. CASE p \in (L + 1)..m
      <4>1. ~(p \in 1..L)
        BY <1>8, <3>2
      <4>. QED  BY <1>11, <1>13, <2>2, <3>2, <4>1
    <3>. QED  BY <1>12, <3>1, <3>2
  <2>3. \A p \in Begin(more, m) : p \in 1..m /\ src[p] \in Begin(tags, n) /\ more[p].of = tags[src[p]].of
    BY <2>2 DEF Begin
  <2>4. ASSUME Alone(tags, n), NEW p \in Begin(more, m), NEW q \in Begin(more, m)  PROVE p = q
    <3>1. src[p] = src[q]
      BY <2>3, <2>4 DEF Alone
    <3>2. p \in 1..m /\ q \in 1..m /\ more[p].from = 1 /\ more[q].from = 1
      BY DEF Begin
    <3>3. CASE p \in 1..L /\ q \in 1..L
      <4>1. off[p] = 1 /\ off[q] = 1 /\ own[p] = own[q]
        BY <1>10, <2>2, <3>1, <3>2, <3>3
      <4>. QED  BY <1>9, <3>3, <4>1
    <3>4. ASSUME NEW x \in 1..L, NEW y \in (L + 1)..m, src[x] = src[y]  PROVE FALSE
      <4>1. own[x] \in 1..c /\ src[x] = own[x] /\ src[y] = c + (y - L) /\ y - L \in 1..R
        BY <1>10, <1>11
      <4>2. \A a \in 1..c : \A b \in 1..R : a # c + b
        BY <1>1, <1>8
      <4>. QED  BY <3>4, <4>1, <4>2
    <3>5. CASE p \in (L + 1)..m /\ q \in (L + 1)..m
      <4>1. c + (p - L) = c + (q - L) /\ p \in Int /\ q \in Int
        BY <1>11, <3>1, <3>5
      <4>. QED  BY <1>1, <1>8, <4>1
    <3>. QED  BY <1>12, <3>1, <3>2, <3>3, <3>4, <3>5
  <2>5. Alone(tags, n) => Alone(more, m)
    BY <2>4 DEF Alone
  <2>. QED  BY <2>1, <2>3, <2>5 DEF Fewer
<1>19. \E g : Placing(out, s, rest, g) /\ Complete(out, g, m) /\ Fewer(g, m, tags, n)
  BY <1>16, <1>17, <1>18
<1>. QED  BY <1>3, <1>6, <1>9, <1>19 DEF s, rest, w, m, L, R, n
---------------------------------------------------------------------------
(* The order of the messages, and the packet the client waits for.         *)

LEMMA FewerKeep ==
  ASSUME NEW out, NEW messages, NEW tags, NEW n, NEW less, NEW m, Fewer(less, m, tags, n)
  PROVE  /\ Ordering(out, messages, tags, n) => Ordering(out, messages, less, m)
         /\ Fresh(out, tags, n) => Fresh(out, less, m)
         /\ Begin(less, m) # {} => Begin(tags, n) # {}
<1>1. ASSUME Ordering(out, messages, tags, n)  PROVE Ordering(out, messages, less, m)
  <2>1. PICK f \in [1..Len(messages) -> 1..Len(out)] :
          /\ \A i \in 1..Len(messages) : messages[i] = out[f[i]]
          /\ \A i \in 1..(Len(messages) - 1) : f[i] <= f[i + 1]
          /\ \A i \in 1..Len(messages), k \in 1..n : f[i] <= tags[k].of
    BY <1>1 DEF Ordering
  <2>2. \A i \in 1..Len(messages), k \in 1..m : f[i] <= less[k].of
    BY <2>1, Zenon DEF Fewer
  <2>. QED  BY <2>1, <2>2 DEF Ordering
<1>2. Fresh(out, tags, n) => Fresh(out, less, m)
  BY Zenon DEF Fresh, Fewer
<1>3. Begin(less, m) # {} => Begin(tags, n) # {}
  BY DEF Fewer
<1>. QED  BY <1>1, <1>2, <1>3

LEMMA AddsKeep ==
  ASSUME NEW out \in Seq(Payloads), NEW messages, NEW tags, NEW n \in Nat, NEW more, NEW m \in Nat,
         Adds(out, tags, n, more, m)
  PROVE  /\ Ordering(out, messages, tags, n) => Ordering(out, messages, more, m)
         /\ Begin(tags, n) = {} => Fresh(out, more, m)
         /\ (\A k \in (n + 1)..m : more[k].from # 1) =>
              Begin(more, m) = Begin(tags, n) /\ (Fresh(out, tags, n) => Fresh(out, more, m))
<1>1. \A k \in 1..m : k \in 1..n \/ k \in (n + 1)..m
  OBVIOUS
<1>2. /\ \A k \in 1..n : more[k] = tags[k] /\ k \in 1..m
      /\ \A k \in (n + 1)..m : more[k].of = Len(out) /\ (more[k].from = 1 => k = n + 1)
  BY DEF Adds
<1>3. ASSUME Ordering(out, messages, tags, n)  PROVE Ordering(out, messages, more, m)
  <2>1. PICK f \in [1..Len(messages) -> 1..Len(out)] :
          /\ \A i \in 1..Len(messages) : messages[i] = out[f[i]]
          /\ \A i \in 1..(Len(messages) - 1) : f[i] <= f[i + 1]
          /\ \A i \in 1..Len(messages), k \in 1..n : f[i] <= tags[k].of
    BY <1>3 DEF Ordering
  <2>2. ASSUME NEW i \in 1..Len(messages), NEW k \in 1..m  PROVE f[i] <= more[k].of
    <3>1. CASE k \in 1..n
      BY <1>2, <2>1, <3>1
    <3>2. CASE k \in (n + 1)..m
      <4>1. f[i] \in 1..Len(out)
        OBVIOUS
      <4>. QED  BY <1>2, <3>2, <4>1
    <3>. QED  BY <1>1, <3>1, <3>2
  <2>. QED  BY <2>1, <2>2 DEF Ordering
<1>4. ASSUME Begin(tags, n) = {}  PROVE Fresh(out, more, m)
  <2>1. \A k \in Begin(more, m) : k \in (n + 1)..m /\ k = n + 1
    <3>1. ASSUME NEW k \in 1..m, more[k].from = 1  PROVE k \in (n + 1)..m
      <4>1. ASSUME k \in 1..n PROVE FALSE
        <5>1. k \in Begin(tags, n)
          BY <1>2, <3>1, <4>1 DEF Begin
        <5>. QED  BY <1>4, <5>1
      <4>. QED  BY <1>1, <4>1
    <3>. QED  BY <1>2, <3>1 DEF Begin
  <2>. QED  BY <1>2, <2>1 DEF Fresh, Alone
<1>5. ASSUME \A k \in (n + 1)..m : more[k].from # 1
      PROVE  Begin(more, m) = Begin(tags, n) /\ (Fresh(out, tags, n) => Fresh(out, more, m))
  <2>1. Begin(more, m) = Begin(tags, n)
    BY <1>1, <1>2, <1>5 DEF Begin
  <2>2. \A k \in Begin(tags, n) : more[k] = tags[k]
    BY <1>2 DEF Begin
  <2>. QED  BY <2>1, <2>2 DEF Fresh, Alone
<1>. QED  BY <1>3, <1>4, <1>5

LEMMA OrderMore ==
  ASSUME NEW out \in Seq(Payloads), NEW p \in Payloads, NEW messages, NEW tags, NEW n,
         Ordering(out, messages, tags, n)
  PROVE  Ordering(Append(out, p), messages, tags, n)
<1>1. /\ Len(out) \in Nat /\ Len(Append(out, p)) = Len(out) + 1
      /\ \A i \in 1..Len(out) : Append(out, p)[i] = out[i]
  BY LenIsNat, AppendProperties
<1>2. PICK f \in [1..Len(messages) -> 1..Len(out)] :
        /\ \A i \in 1..Len(messages) : messages[i] = out[f[i]]
        /\ \A i \in 1..(Len(messages) - 1) : f[i] <= f[i + 1]
        /\ \A i \in 1..Len(messages), k \in 1..n : f[i] <= tags[k].of
  BY DEF Ordering
<1>3. \A i \in 1..Len(out) : i \in 1..Len(Append(out, p))
  BY <1>1
<1>4. f \in [1..Len(messages) -> 1..Len(Append(out, p))]
  BY <1>3
<1>5. \A i \in 1..Len(messages) : messages[i] = Append(out, p)[f[i]]
  BY <1>1, <1>2
<1>. QED  BY <1>2, <1>4, <1>5 DEF Ordering

\* The packet that is delivered is the first in flight.
LEMMA OrderDelivered ==
  ASSUME NEW out \in Seq(Payloads), NEW messages \in Seq(Seq(Bytes)), NEW tags, NEW n \in Nat,
         n > 0, tags \in [1..n -> Tags], Linked(out, tags, n), tags[1].of \in 1..Len(out),
         Ordering(out, messages, tags, n),
         NEW message \in Seq(Bytes), message = out[tags[1].of]
  PROVE  Ordering(out, Append(messages, message), tags, n)
<1>. DEFINE L == Len(messages)
            longer == Append(messages, message)
<1>1. /\ L \in Nat /\ Len(longer) = L + 1 /\ longer[L + 1] = message
      /\ \A i \in 1..L : longer[i] = messages[i]
  BY LenIsNat, AppendProperties
<1>2. PICK f \in [1..L -> 1..Len(out)] :
        /\ \A i \in 1..L : messages[i] = out[f[i]]
        /\ \A i \in 1..(L - 1) : f[i] <= f[i + 1]
        /\ \A i \in 1..L, k \in 1..n : f[i] <= tags[k].of
  BY DEF Ordering
<1>. HIDE DEF L, longer
<1>. DEFINE t == tags[1].of
            g == [i \in 1..(L + 1) |-> IF i <= L THEN f[i] ELSE t]
<1>3. 1 \in 1..n /\ \A k \in 1..n : t <= tags[k].of
  BY DEF Linked
<1>4. /\ g \in [1..(L + 1) -> 1..Len(out)] /\ g[L + 1] = t
      /\ \A i \in 1..L : g[i] = f[i] /\ i \in 1..(L + 1)
  <2>1. /\ L + 1 \in 1..(L + 1) /\ ~(L + 1 <= L)
        /\ \A i \in 1..L : i \in 1..(L + 1) /\ i <= L
        /\ \A i \in 1..(L + 1) : i <= L => i \in 1..L
    BY <1>1
  <2>. HIDE DEF t
  <2>2. t \in 1..Len(out)
    BY DEF t
  <2>. QED  BY <1>2, <2>1, <2>2
<1>. HIDE DEF g
<1>5. \A i \in 1..(L + 1) : i \in 1..L \/ i = L + 1
  BY <1>1
<1>6. ASSUME NEW i \in 1..(L + 1)  PROVE longer[i] = out[g[i]]
  BY <1>1, <1>2, <1>4, <1>5
<1>7. ASSUME NEW i \in 1..((L + 1) - 1)  PROVE g[i] <= g[i + 1]
  <2>1. CASE i = L
    <3>1. i \in 1..L
      BY <1>1, <2>1
    <3>. QED  BY <1>2, <1>3, <1>4, <2>1, <3>1
  <2>2. CASE i # L
    <3>1. i \in 1..(L - 1) /\ i \in 1..L /\ i + 1 \in 1..L
      BY <1>1, <2>2
    <3>. QED  BY <1>2, <1>4, <3>1
  <2>. QED  BY <2>1, <2>2
<1>8. ASSUME NEW i \in 1..(L + 1), NEW k \in 1..n  PROVE g[i] <= tags[k].of
  BY <1>2, <1>3, <1>4, <1>5
<1>. QED  BY ONLY <1>1, <1>4, <1>6, <1>7, <1>8 DEF Ordering, longer
---------------------------------------------------------------------------
(* What the client and the server know of the last packet.                 *)

LEMMA DialogueLess ==
  ASSUME NEW c, NEW d, Dialogue(c), d => c
  PROVE  Dialogue(d)
BY Zenon DEF Dialogue

\* Nothing is said, and no message begins to be handled.
LEMMA NothingSaid ==
  ASSUME NEW c, Dialogue(c), Handling' => Handling,
         UNCHANGED <<client, answered, outgoing, delivered, answers>>
  PROVE  Dialogue(c)'
<1>1. Waits' = Waits /\ Replies' = Replies
  BY DEF Waits, Replies
<1>. QED  BY <1>1 DEF Dialogue

\* An error is answered.
LEMMA ErrorSaid ==
  ASSUME TypeOK, NEW c, Dialogue(c), Handling' => Handling, answers' = Append(answers, Error),
         UNCHANGED <<client, answered, outgoing, delivered>>
  PROVE  Dialogue(c)'
<1>1. answers \in Seq(Answers) /\ Error \in Answers /\ Len(answers) \in Nat
  BY TypeParts, ReplyType, LenIsNat DEF StreamTypes, ClientTypes
<1>2. /\ Len(answers') = Len(answers) + 1
      /\ \A k \in 1..Len(answers) : answers'[k] = answers[k]
      /\ answers'[Len(answers) + 1] = Error
  BY <1>1, AppendProperties
<1>3. Error.text # "reply"
  BY DEF Error
<1>4. Replies' = Replies /\ \A k \in Replies : answers'[k] = answers[k]
  <2>1. ASSUME NEW k \in 1..Len(answers')  PROVE k \in 1..Len(answers) \/ k = Len(answers) + 1
    BY <1>1, <1>2
  <2>2. \A k \in 1..Len(answers) : k \in 1..Len(answers')
    BY <1>1, <1>2
  <2>. QED  BY <1>2, <1>3, <2>1, <2>2 DEF Replies
<1>5. Waits' = Waits
  BY DEF Waits
<1>. QED  BY <1>4, <1>5 DEF Dialogue

\* The packet that the client waits for is delivered.
LEMMA LastDelivered ==
  ASSUME TypeOK, Dialogue(TRUE), NEW message \in Seq(Bytes), message = outgoing[Len(outgoing)],
         delivered' = Append(delivered, message),
         UNCHANGED <<client, answered, outgoing, answers>>
  PROVE  \A c : ~c => Dialogue(c)'
<1>1. delivered \in Seq(Seq(Bytes)) /\ Len(delivered) \in Nat
  BY TypeParts, LenIsNat DEF HistoryTypes
<1>2. /\ Len(delivered') = Len(delivered) + 1 /\ Len(delivered') > 0
      /\ delivered'[Len(delivered')] = message
      /\ \A k \in 1..Len(delivered) : delivered'[k] = delivered[k] /\ k \in 1..Len(delivered')
  BY <1>1, AppendProperties
<1>3. Waits /\ Replies = {}
  BY DEF Dialogue
<1>4. Waits' = Waits /\ Replies' = Replies
  BY DEF Waits, Replies
<1>. QED  BY <1>2, <1>3, <1>4 DEF Dialogue

\* The reply to the message at hand.
LEMMA ReplySaid ==
  ASSUME TypeOK, NEW c, Dialogue(c), Handling, server' = "read", answers' = answers \o Reply,
         UNCHANGED <<client, answered, outgoing, delivered>>
  PROVE  Dialogue(c)'
<1>1. /\ answers \in Seq(Answers) /\ Reply \in Seq(Answers) /\ Len(answers) \in Nat
      /\ Len(delivered) \in Nat
  BY TypeParts, ReplyType, LenIsNat DEF StreamTypes, ClientTypes, HistoryTypes
<1>2. /\ ~c /\ Waits /\ Replies = {}
      /\ Len(delivered) > 0 /\ delivered[Len(delivered)] = outgoing[Len(outgoing)]
  BY DEF Dialogue
<1>3. \E r \in {1, 2} : /\ Len(Reply) = r /\ Reply[r].text = "reply" /\ Reply[r].of = Len(delivered)
                        /\ \A k \in 1..r : k # r => Reply[k].text = "+"
  <2>. DEFINE a == [text |-> "+", of |-> 0]
              b == [text |-> "reply", of |-> Len(delivered)]
  <2>1. Reply = (IF should_ack THEN <<a>> ELSE <<>>) \o <<b>>
    BY Zenon DEF Reply
  <2>2. a.text = "+" /\ b.text = "reply" /\ b.of = Len(delivered) /\ a \in Answers /\ b \in Answers
    BY <1>1 DEF Answers
  <2>. HIDE DEF a, b
  <2>3. <<a>> \in Seq(Answers) /\ <<b>> \in Seq(Answers) /\ <<>> \in Seq(Answers)
        /\ Len(<<a>>) = 1 /\ Len(<<b>>) = 1 /\ Len(<<>>) = 0 /\ <<a>>[1] = a /\ <<b>>[1] = b
    BY <2>2
  <2>4. CASE should_ack
    <3>1. Reply = <<a>> \o <<b>>
      BY <2>1, <2>4
    <3>2. Len(Reply) = 2 /\ Reply[1] = a /\ Reply[2] = b
      BY <2>3, <3>1, Joined
    <3>3. \A k \in 1..2 : k # 2 => k = 1
      OBVIOUS
    <3>. QED  BY <2>2, <3>2, <3>3
  <2>5. CASE ~should_ack
    <3>1. Reply = <<>> \o <<b>>
      BY <2>1, <2>5
    <3>2. Len(Reply) = 1 /\ Reply[1] = b
      BY <2>3, <3>1, Joined
    <3>3. \A k \in 1..1 : k = 1
      OBVIOUS
    <3>. QED  BY <2>2, <3>2, <3>3
  <2>. QED  BY <2>4, <2>5
<1>4. PICK r \in {1, 2} : /\ Len(Reply) = r /\ Reply[r].text = "reply" /\ Reply[r].of = Len(delivered)
                          /\ \A k \in 1..r : k # r => Reply[k].text = "+"
  BY <1>3
<1>5. /\ Len(answers') = Len(answers) + r
      /\ \A k \in 1..Len(answers) : answers'[k] = answers[k]
      /\ \A k \in 1..r : answers'[Len(answers) + k] = Reply[k]
  BY <1>1, <1>4, Joined
<1>. DEFINE L == Len(answers)
<1>6. Replies' = {L + r} /\ answers'[L + r].of = Len(delivered)
  <2>1. r \in 1..r /\ L + r \in 1..Len(answers')
    BY <1>1, <1>4, <1>5
  <2>2. answers'[L + r] = Reply[r]
    BY <1>5, <2>1
  <2>3. ASSUME NEW k \in 1..Len(answers'), k # L + r  PROVE answers'[k].text # "reply"
    <3>1. CASE k \in 1..L
      <4>1. k \notin Replies
        BY <1>2
      <4>. QED  BY <1>5, <3>1, <4>1 DEF Replies
    <3>2. CASE k \notin 1..L
      <4>1. k - L \in 1..r /\ k - L # r /\ L + (k - L) = k
        BY <1>1, <1>4, <1>5, <2>3, <3>2
      <4>2. answers'[k] = Reply[k - L]
        BY <1>5, <4>1
      <4>. QED  BY <1>4, <4>1, <4>2
    <3>. QED  BY <3>1, <3>2
  <2>4. Replies' = {L + r}
    BY <1>4, <2>1, <2>2, <2>3 DEF Replies
  <2>. QED  BY <1>4, <2>2, <2>4
<1>7. Waits' = Waits /\ ~Handling' /\ Len(delivered) \in 1..Len(delivered)
  BY <1>1, <1>2 DEF Waits, Handling
<1>. HIDE DEF L
<1>. QED  BY <1>2, <1>6, <1>7 DEF Dialogue

\* The next packet is sent.
LEMMA PacketSent ==
  ASSUME TypeOK, NEW c, Dialogue(c), client = "ready", client' # "ready",
         NEW p \in Payloads, outgoing' = Append(outgoing, p),
         UNCHANGED <<server, answered, delivered, answers>>
  PROVE  ~c /\ \A d : Dialogue(d)'
<1>1. outgoing \in Seq(Payloads) /\ Len(outgoing) \in Nat
  BY TypeParts, LenIsNat DEF ClientTypes
<1>2. /\ Len(outgoing') = Len(outgoing) + 1
      /\ \A i \in 1..Len(outgoing) : outgoing'[i] = outgoing[i]
  BY <1>1, AppendProperties
<1>3. ~c /\ ~Handling /\ Replies = {} /\ Len(answered) = Len(outgoing)
  <2>1. ~Waits
    BY DEF Waits
  <2>. QED  BY <2>1 DEF Dialogue
<1>4. Waits' /\ Handling' = Handling /\ Replies' = Replies
  BY <1>1, <1>2, <1>3 DEF Waits, Handling, Replies
<1>5. \A i \in 1..Len(answered) :
        answered[i] \in 1..Len(delivered) /\ delivered[answered[i]] = outgoing'[i]
  BY <1>2, <1>3 DEF Dialogue
<1>. QED  BY <1>1, <1>2, <1>3, <1>4, <1>5 DEF Dialogue

\* An answer is read that ends no wait.
LEMMA AnswerSkipped ==
  ASSUME TypeOK, NEW c, Dialogue(c), answers # <<>>, answers' = Tail(answers),
         client # "ready", client' # "ready",
         UNCHANGED <<server, answered, outgoing, delivered>>
  PROVE  Dialogue(c)'
<1>1. answers \in Seq(Answers)
  BY TypeParts DEF StreamTypes, ClientTypes
<1>2. /\ Len(answers) \in Nat /\ Len(answers') = Len(answers) - 1 /\ Len(answers) >= 1
      /\ \A k \in 1..Len(answers') : answers'[k] = answers[k + 1]
  BY <1>1, LenIsNat, HeadTailProperties
<1>3. \A k \in Replies' : /\ k \in Int /\ k + 1 \in Replies /\ answers'[k] = answers[k + 1]
  <2>1. \A k \in 1..Len(answers') : k + 1 \in 1..Len(answers)
    BY <1>2
  <2>. QED  BY <1>2, <2>1 DEF Replies
<1>4. Waits' = Waits /\ Handling' = Handling
  BY DEF Waits, Handling
<1>5. Replies = {} => Replies' = {}
  BY <1>3
<1>6. ASSUME NEW k \in Replies'
      PROVE  /\ Waits /\ Replies' = {k} /\ answers'[k].of \in 1..Len(delivered)
             /\ delivered[answers'[k].of] = outgoing[Len(outgoing)]
  <2>1. k + 1 \in Replies /\ answers'[k] = answers[k + 1]
    BY <1>3
  <2>2. /\ Waits /\ Replies = {k + 1} /\ answers[k + 1].of \in 1..Len(delivered)
        /\ delivered[answers[k + 1].of] = outgoing[Len(outgoing)]
    BY <2>1 DEF Dialogue
  <2>3. \A j \in Replies' : j = k
    <3>1. ASSUME NEW j \in Replies'  PROVE j = k
      <4>1. j + 1 = k + 1 /\ j \in Int /\ k \in Int
        BY <1>3, <2>2
      <4>. QED  BY ONLY <4>1
    <3>. QED  BY <3>1
  <2>. QED  BY <2>1, <2>2, <2>3
<1>. QED  BY <1>4, <1>5, <1>6 DEF Dialogue

\* The client takes the reply to its last packet.
LEMMA ReplyTaken ==
  ASSUME TypeOK, NEW c, Dialogue(c), answers # <<>>, answers' = Tail(answers),
         Head(answers).text = "reply", client' = "ready",
         answered' = Append(answered, Head(answers).of),
         UNCHANGED <<server, outgoing, delivered>>
  PROVE  ~c /\ Dialogue(c)'
<1>1. /\ answers \in Seq(Answers) /\ answered \in Seq(Nat) /\ Len(answered) \in Nat
      /\ outgoing \in Seq(Payloads) /\ Len(outgoing) \in Nat
  BY TypeParts, LenIsNat DEF StreamTypes, ClientTypes, HistoryTypes
<1>2. /\ Len(answers) \in Nat /\ Len(answers') = Len(answers) - 1 /\ Len(answers) >= 1
      /\ \A k \in 1..Len(answers') : answers'[k] = answers[k + 1]
      /\ Head(answers) = answers[1] /\ answers[1] \in Answers
  <2>1. Len(answers) \in Nat /\ Len(answers) >= 1 /\ Head(answers) = answers[1]
    BY <1>1, LenIsNat, HeadTailProperties
  <2>2. answers[1] \in Answers
    BY <1>1, <2>1, ElementOfSeq
  <2>. QED  BY <1>1, <2>1, <2>2, HeadTailProperties
<1>3. 1 \in Replies
  BY <1>2 DEF Replies
<1>4. /\ ~c /\ Waits /\ Replies = {1} /\ answers[1].of \in 1..Len(delivered)
      /\ delivered[answers[1].of] = outgoing[Len(outgoing)] /\ ~Handling
  BY <1>3 DEF Dialogue
<1>5. Replies' = {}
  <2>1. \A k \in 1..Len(answers') : k + 1 \in 1..Len(answers) /\ k + 1 # 1
    BY <1>2
  <2>2. \A k \in 1..Len(answers') : answers[k + 1].text # "reply"
    BY <1>4, <2>1 DEF Replies
  <2>. QED  BY <1>2, <2>2 DEF Replies
<1>6. /\ Len(answered') = Len(answered) + 1 /\ answered'[Len(answered) + 1] = answers[1].of
      /\ \A i \in 1..Len(answered) : answered'[i] = answered[i]
  BY <1>1, <1>2, AppendProperties DEF Answers
<1>7. Len(answered') = Len(outgoing) /\ ~Handling'
  BY <1>1, <1>4, <1>6 DEF Waits, Handling
<1>8. ASSUME NEW i \in 1..Len(answered')
      PROVE  answered'[i] \in 1..Len(delivered) /\ delivered[answered'[i]] = outgoing[i]
  <2>1. CASE i \in 1..Len(answered)
    BY <1>6, <2>1 DEF Dialogue
  <2>2. CASE i \notin 1..Len(answered)
    <3>1. i = Len(answered) + 1 /\ i = Len(outgoing)
      BY <1>1, <1>6, <1>7, <2>2
    <3>. QED  BY <1>4, <1>6, <3>1
  <2>. QED  BY <2>1, <2>2
<1>. QED  BY <1>1, <1>4, <1>5, <1>7, <1>8 DEF Dialogue

LEMMA ClientLeaves ==
  ASSUME NEW c, Dialogue(c), client' = "closed",
         UNCHANGED <<server, answered, outgoing, delivered, answers>>
  PROVE  Dialogue(c)'
<1>1. Handling' = Handling /\ Replies' = Replies /\ (Waits => Waits')
  BY DEF Handling, Replies, Waits
<1>. QED  BY <1>1 DEF Dialogue
---------------------------------------------------------------------------
(* Reading a frame.                                                        *)

FrameStates == {"body", "digit1", "digit2"}

LEMMA FrameKept ==
  ASSUME NEW tags, NEW more, InFrame(tags), UNCHANGED <<stream, server>>,
         \A j \in 1..Len(input_buffer) : more[j] = tags[j],
         server \in FrameStates => outgoing'[tags[1].of] = outgoing[tags[1].of],
         input_buffer \in Seq(Bytes)
  PROVE  InFrame(more)'
<1>1. Len(input_buffer) \in Nat
  BY LenIsNat
<1>2. UNCHANGED <<input_buffer, position, next_message, should_escape>> /\ server' = server
  BY DEF stream
<1>3. ASSUME NEW q, Parsed(q)  PROVE Parsed(q)'
  BY <1>2, <1>3 DEF Parsed
<1>4. CASE server \notin FrameStates
  BY <1>2, <1>4 DEF InFrame, FrameStates
<1>5. CASE server \in FrameStates
  <2>1. /\ position \in 1..Len(input_buffer)
        /\ \A j \in 1..position : tags[j].from = j /\ tags[j].of = tags[1].of
        /\ Parsed(outgoing[tags[1].of])
    BY <1>5 DEF InFrame, FrameStates
  <2>2. 1 \in 1..Len(input_buffer) /\ \A j \in 1..position : j \in 1..Len(input_buffer)
    BY <1>1, <2>1
  <2>3. \A j \in 1..position : more[j].from = j /\ more[j].of = more[1].of
    BY <2>1, <2>2
  <2>. PICK q : q = outgoing[tags[1].of]
    OBVIOUS
  <2>4. outgoing'[more[1].of] = q /\ Parsed(q)
    BY <1>5, <2>1, <2>2
  <2>5. Parsed(q)'
    BY <1>3, <2>4
  <2>6. Parsed(outgoing[more[1].of])'
    BY <2>4, <2>5 DEF Parsed
  <2>. QED  BY <1>2, <2>1, <2>3, <2>6 DEF InFrame
<1>. QED  BY <1>4, <1>5

\* The packet whose frame is read.
LEMMA FramePacket ==
  ASSUME TypeOK, NEW tags, Tagged(tags), InFrame(tags), server \in FrameStates
  PROVE  /\ position \in 1..Len(input_buffer) /\ position \in 1..Flying
         /\ tags[1].from = 1 /\ tags[1].of \in 1..Len(outgoing)
         /\ outgoing[tags[1].of] \in Seq(Bytes)
         /\ 1 \in 1..Flying
<1>1. input_buffer \in Seq(Bytes) /\ wire \in Seq(Seq(Bytes)) /\ outgoing \in Seq(Payloads)
  BY TypeParts DEF StreamTypes, ClientTypes
<1>2. Len(input_buffer) \in Nat /\ Len(wire) \in Nat
  BY <1>1, LenIsNat
<1>3. /\ position \in 1..Len(input_buffer)
      /\ \A j \in 1..position : tags[j].from = j /\ tags[j].of = tags[1].of
  BY DEF InFrame, FrameStates
<1>4. 1 \in 1..position /\ 1 \in 1..Flying /\ position \in 1..Flying
  BY <1>2, <1>3 DEF Flying
<1>5. tags[1].from = 1
  BY <1>3, <1>4
<1>6. tags[1].of \in 1..Len(outgoing) /\ outgoing[tags[1].of] \in Seq(Bytes)
  <2>1. Placing(outgoing, input_buffer, wire, tags) /\ 1 \in 1..(Len(input_buffer) + Len(wire))
        /\ tags[1].from # 0
    BY <1>4, <1>5 DEF Tagged, Flying
  <2>. QED  BY ONLY <1>1, <2>1, TagFacts
<1>. QED  BY <1>3, <1>4, <1>5, <1>6

\* The next byte is the next of the frame.
LEMMA NextByte ==
  ASSUME TypeOK, NEW tags, Tagged(tags), InFrame(tags), server \in FrameStates, Available,
         position < Len(Frame(outgoing[tags[1].of]))
  PROVE  /\ position + 1 \in 1..Len(input_buffer)
         /\ Byte = Frame(outgoing[tags[1].of])[position + 1]
         /\ \A j \in 1..(position + 1) : tags[j].from = j /\ tags[j].of = tags[1].of
<1>1. input_buffer \in Seq(Bytes) /\ wire \in Seq(Seq(Bytes)) /\ outgoing \in Seq(Payloads)
      /\ Len(input_buffer) \in Nat /\ Len(wire) \in Nat
  BY TypeParts, LenIsNat DEF StreamTypes, ClientTypes
<1>2. /\ position \in 1..Len(input_buffer) /\ position \in 1..Flying
      /\ tags[1].from = 1 /\ tags[1].of \in 1..Len(outgoing)
  BY FramePacket
<1>3. \A j \in 1..position : tags[j].from = j /\ tags[j].of = tags[1].of
  BY DEF InFrame, FrameStates
<1>4. /\ position + 1 \in 1..Len(input_buffer) /\ position \in 1..position /\ position # 0
      /\ position \in 1..(Flying - 1) /\ position + 1 # 0
  BY <1>1, <1>2 DEF Available, Flying
<1>5. /\ \A k \in 1..Len(input_buffer) : OnByte(outgoing, input_buffer[k], tags[k])
      /\ \A k \in 1..(Flying - 1) : Follows(outgoing, tags[k], tags[k + 1])
  BY DEF Tagged, Placing, Linked, Flying
<1>. DEFINE frame == Frame(outgoing[tags[1].of])
<1>6. tags[position].from = position /\ tags[position].of = tags[1].of
  BY <1>3, <1>4
<1>7. tags[position].to = position
  <2>1. OnByte(outgoing, input_buffer[position], tags[position])
    BY <1>2, <1>5
  <2>. QED  BY <1>4, <1>6, <2>1 DEF OnByte
<1>8. ~EndsFrame(outgoing, tags[position])
  <2>1. position # Len(frame)
    <3>. DEFINE F == Len(frame)
    <3>1. position < F /\ position \in Int
      BY <1>2
    <3>. HIDE DEF F
    <3>2. position # F
      BY <3>1
    <3>. QED  BY <3>2 DEF F
  <2>. QED  BY <1>4, <1>6, <1>7, <2>1 DEF EndsFrame
<1>9. tags[position + 1].of = tags[1].of /\ tags[position + 1].from = position + 1
  <2>1. Follows(outgoing, tags[position], tags[position + 1])
    BY <1>4, <1>5
  <2>. QED  BY <1>6, <1>7, <1>8, <2>1 DEF Follows
<1>10. Byte = frame[position + 1]
  <2>1. OnByte(outgoing, input_buffer[position + 1], tags[position + 1])
    BY <1>4, <1>5
  <2>. QED  BY <1>4, <1>9, <2>1 DEF OnByte, Byte
<1>11. \A j \in 1..(position + 1) : j \in 1..position \/ j = position + 1
  BY <1>4
<1>. QED  BY <1>3, <1>4, <1>9, <1>10, <1>11

LEMMA StartRead ==
  ASSUME TypeOK, NEW tags, Tagged(tags), ReadStart, position = 0
  PROVE  InFrame(tags)'
<1>1. input_buffer \in Seq(Bytes) /\ wire \in Seq(Seq(Bytes)) /\ outgoing \in Seq(Payloads)
      /\ Len(input_buffer) \in Nat /\ Len(wire) \in Nat
  BY TypeParts, LenIsNat DEF StreamTypes, ClientTypes
<1>2. /\ input_buffer[1] = DOLLAR /\ Available
      /\ next_message' = <<>> /\ position' = 1 /\ should_escape' = FALSE /\ server' = "body"
      /\ input_buffer' = input_buffer /\ outgoing' = outgoing
  BY Zenon DEF ReadStart
<1>3. 1 \in 1..Len(input_buffer) /\ 1 \in 1..(Len(input_buffer) + Len(wire))
  BY <1>1, <1>2 DEF Available
<1>4. Placing(outgoing, input_buffer, wire, tags) /\ OnByte(outgoing, DOLLAR, tags[1])
  BY <1>2, <1>3 DEF Tagged, Placing
<1>5. /\ tags[1] \in Tags
      /\ tags[1].from # 0 => tags[1].of \in 1..Len(outgoing) /\ outgoing[tags[1].of] \in Seq(Bytes)
  BY ONLY <1>1, <1>3, <1>4, TagFacts
<1>6. tags[1].from # 0
  BY <1>4 DEF OnByte, DOLLAR, BREAK, PLUS
<1>. DEFINE p == outgoing[tags[1].of]
<1>7. tags[1].from = 1
  <2>. DEFINE a == tags[1].from
              F == Len(Frame(p))
  <2>1. a \in Nat /\ a # 0 /\ a <= F /\ Frame(p)[a] = DOLLAR
    BY <1>4, <1>5, <1>6 DEF OnByte, Tags
  <2>2. Frame(p) \in Seq(Bytes) /\ \A k \in 2..F : Frame(p)[k] # DOLLAR
    BY <1>5, <1>6, FrameBytes
  <2>3. F \in Nat
    BY <2>2, LenIsNat
  <2>. HIDE DEF a, F, p
  <2>4. a = 1 \/ a \in 2..F
    BY <2>1, <2>3
  <2>. QED  BY <2>1, <2>2, <2>4 DEF a
<1>8. p \in Seq(Bytes) /\ Len(p) \in Nat
  BY <1>5, <1>6, LenIsNat
<1>9. PICK e \in [0..Len(p) -> Nat] : Escapes(p, e)
  BY <1>8, EscapedBytes
<1>10. SubSeq(p, 1, 0) = <<>>
  <2>1. 1 \in Nat \ {0} /\ 0 \in Nat /\ 0 <= Len(p) /\ ~(1 <= 0)
    BY <1>8
  <2>2. SubSeq(p, 1, 0) \in Seq(Bytes) /\ Len(SubSeq(p, 1, 0)) = 0
    BY <1>8, <2>1, SubSeqType
  <2>. QED  BY <2>2, LenIsNat
<1>11. Parsed(p)'
  <2>1. 0 \in 0..Len(p) /\ e[0] = 0 /\ 1 = 0 + 1
    BY <1>8, <1>9, EscapesEnds
  <2>2. \E m \in 0..Len(p) : next_message' = SubSeq(p, 1, m) /\ position' = e[m] + 1
    BY <1>2, <1>10, <2>1
  <2>. QED  BY <1>2, <1>9, <2>2 DEF Parsed
<1>. HIDE DEF p
<1>12. \A j \in 1..1 : j = 1
  OBVIOUS
<1>. QED  BY <1>2, <1>3, <1>7, <1>11, <1>12 DEF InFrame, p

\* One turn of the loop: a character, the first of an escaped one, or the end.
LEMMA BodyRead ==
  ASSUME TypeOK, NEW tags, Tagged(tags), InFrame(tags), ReadBody
  PROVE  InFrame(tags)'
<1>. DEFINE p == outgoing[tags[1].of]
            frame == Frame(p)
            body == Escaped(p)
            n == Len(p)
            L == Len(body)
<1>1. /\ server = "body" /\ Available /\ position' = position + 1
      /\ UNCHANGED <<input_buffer, outgoing>>
  BY Zenon DEF ReadBody
<1>2. server \in FrameStates
  BY <1>1 DEF FrameStates
<1>3. /\ position \in 1..Len(input_buffer) /\ p \in Seq(Bytes)
      /\ tags[1].of \in 1..Len(outgoing)
  BY <1>2, FramePacket
<1>4. /\ n \in Nat /\ L \in Nat /\ Len(frame) = L + 4 /\ body \in Seq(Bytes)
      /\ \A k \in 1..L : frame[k + 1] = body[k] /\ body[k] \in Bytes
      /\ frame[L + 2] = HASH
  <2>1. body \in Seq(Bytes)
    BY <1>3, EscapedBytes
  <2>. QED  BY <1>3, <2>1, LenIsNat, ElementOfSeq, FrameBytes
<1>5. Parsed(p)
  BY <1>2 DEF InFrame, FrameStates
<1>6. PICK e \in [0..n -> Nat], m \in 0..n :
        /\ Escapes(p, e) /\ next_message = SubSeq(p, 1, m)
        /\ ~should_escape => position = e[m] + 1
        /\ should_escape => m < n /\ p[m + 1] \in Special /\ position = e[m] + 2
  BY <1>1, <1>5 DEF Parsed
<1>7. /\ e[n] = L /\ e[m] \in Nat /\ e[m] <= L
      /\ m < n =>
           /\ m + 1 \in 1..n /\ m + 1 \in 0..n /\ e[m + 1] \in Nat /\ e[m + 1] <= L
           /\ p[m + 1] \in Special => /\ e[m + 1] = e[m] + 2 /\ body[e[m] + 1] = ESCAPE
                                      /\ body[e[m] + 2] = Flip(p[m + 1])
           /\ p[m + 1] \notin Special => e[m + 1] = e[m] + 1 /\ body[e[m] + 1] = p[m + 1]
  <2>. HIDE DEF p, frame
  <2>1. Escapes(p, e) /\ n \in Nat /\ m \in 0..n /\ n \in 0..n
    BY <1>4, <1>6
  <2>2. e[n] = L /\ e[m] <= L /\ e[m] \in Nat
    BY <2>1, EscapesEnds, EscapesLess
  <2>3. ASSUME m < n
        PROVE  /\ m + 1 \in 1..n /\ m + 1 \in 0..n /\ e[m + 1] \in Nat /\ e[m + 1] <= L
               /\ p[m + 1] \in Special => /\ e[m + 1] = e[m] + 2 /\ body[e[m] + 1] = ESCAPE
                                          /\ body[e[m] + 2] = Flip(p[m + 1])
               /\ p[m + 1] \notin Special => e[m + 1] = e[m] + 1 /\ body[e[m] + 1] = p[m + 1]
    <3>. DEFINE k == m + 1
    <3>1. k \in 1..n /\ k \in 0..n /\ k - 1 = m
      <4>. HIDE DEF n
      <4>. QED  BY <2>1, <2>3
    <3>. HIDE DEF k
    <3>2. e[k] <= L /\ e[k] \in Nat
      BY <2>1, <3>1, EscapesLess
    <3>3. /\ p[k] \in Special => /\ e[k] = e[k - 1] + 2 /\ body[e[k - 1] + 1] = ESCAPE
                                 /\ body[e[k - 1] + 2] = Flip(p[k])
          /\ p[k] \notin Special => e[k] = e[k - 1] + 1 /\ body[e[k - 1] + 1] = p[k]
      BY ONLY <2>1, <3>1, EscapesAt
    <3>. HIDE DEF n, L, body
    <3>. QED  BY ONLY <3>1, <3>2, <3>3 DEF k
  <2>. QED  BY ONLY <2>2, <2>3
<1>. DEFINE x == e[m]
<1>8. m < n => SubSeq(p, 1, m + 1) = Append(SubSeq(p, 1, m), p[m + 1])
  <2>1. SUFFICES ASSUME m < n PROVE SubSeq(p, 1, m + 1) = Append(SubSeq(p, 1, m), p[m + 1])
    OBVIOUS
  <2>. DEFINE a == SubSeq(p, 1, m)
              b == SubSeq(p, 1, m + 1)
              c == p[m + 1]
  <2>2. m \in Nat /\ m + 1 \in Nat /\ m <= n /\ m + 1 <= n /\ 1 \in Nat \ {0} /\ m + 1 \in 1..n
    <3>1. n \in Nat /\ m \in 0..n
      BY <1>4
    <3>. HIDE DEF n
    <3>. QED  BY ONLY <2>1, <3>1
  <2>3. /\ a \in Seq(Bytes) /\ Len(a) = IF 1 <= m THEN (m - 1) + 1 ELSE 0
        /\ \A i \in 1..Len(a) : a[i] = p[1 + i - 1]
    BY <1>3, <2>2, SubSeqType
  <2>4. /\ b \in Seq(Bytes) /\ Len(b) = IF 1 <= m + 1 THEN ((m + 1) - 1) + 1 ELSE 0
        /\ \A i \in 1..Len(b) : b[i] = p[1 + i - 1]
    BY <1>3, <2>2, SubSeqType
  <2>5. c \in Bytes
    BY <1>3, <2>2, ElementOfSeq
  <2>. HIDE DEF a, b, c
  <2>6. Len(a) = m /\ Len(b) = m + 1
    BY <2>2, <2>3, <2>4
  <2>7. \A i \in 1..(m + 1) : 1 + i - 1 = i /\ (i \in 1..m \/ i = m + 1)
    BY <2>2
  <2>8. /\ Append(a, c) \in Seq(Bytes) /\ Len(Append(a, c)) = m + 1
        /\ \A i \in 1..m : Append(a, c)[i] = a[i]
        /\ Append(a, c)[m + 1] = c
    BY <2>3, <2>5, <2>6, AppendProperties
  <2>9. b[m + 1] = c
    <3>1. m + 1 \in 1..(m + 1)
      BY <2>2
    <3>. QED  BY <2>4, <2>6, <2>7, <3>1 DEF c
  <2>10. \A i \in 1..Len(b) : b[i] = Append(a, c)[i]
    <3>1. \A i \in 1..m : i \in 1..(m + 1)
      BY <2>2
    <3>. QED  BY <2>3, <2>4, <2>6, <2>7, <2>8, <2>9, <3>1
  <2>11. Len(b) = Len(Append(a, c))
    BY <2>6, <2>8
  <2>12. b = Append(a, c)
    BY ONLY <2>4, <2>8, <2>10, <2>11, SeqEqual
  <2>. QED  BY <2>12 DEF a, b, c
<1>9. position < Len(frame)
  <2>. DEFINE f == Len(frame)
              y == e[m + 1]
  <2>1. /\ f = L + 4 /\ L \in Nat /\ x \in Nat /\ x <= L
        /\ position = x + 1 \/ (position = x + 2 /\ y = x + 2 /\ y <= L)
    <3>. HIDE DEF p, n, L, body, frame
    <3>1. L \in Nat /\ x \in Nat /\ x <= L /\ f = L + 4
      BY <1>4, <1>7
    <3>2. ~should_escape => position = x + 1
      BY <1>6
    <3>3. should_escape => position = x + 2 /\ y = x + 2 /\ y <= L
      BY <1>6, <1>7
    <3>. QED  BY <3>1, <3>2, <3>3
  <2>. HIDE DEF f, y, x, L
  <2>2. position < f
    BY ONLY <2>1
  <2>. QED  BY ONLY <2>2 DEF f
<1>10. /\ position + 1 \in 1..Len(input_buffer) /\ Byte = frame[position + 1]
       /\ \A j \in 1..(position + 1) : tags[j].from = j /\ tags[j].of = tags[1].of
  BY <1>1, <1>2, <1>9, NextByte
<1>11. SUFFICES Parsed(p)'
  BY <1>1, <1>10 DEF InFrame, FrameStates
<1>12. CASE should_escape
  <2>1. m < n /\ p[m + 1] \in Special /\ position = x + 2
    BY <1>6, <1>12
  <2>2. server' = "body" /\ should_escape' = FALSE /\ next_message' = Append(next_message, Flip(Byte))
    BY <1>1, <1>12 DEF ReadBody, Unescaped
  <2>3. e[m + 1] = x + 2 /\ x + 2 \in 1..L /\ body[x + 2] = Flip(p[m + 1]) /\ x \in Nat
    <3>. DEFINE y == e[m + 1]
    <3>1. y = x + 2 /\ y <= L /\ body[x + 2] = Flip(p[m + 1]) /\ x \in Nat /\ L \in Nat
      <4>. HIDE DEF p, n, L, body, frame
      <4>. QED  BY <1>4, <1>7, <2>1
    <3>. HIDE DEF p, n, L, body, frame, x, y
    <3>2. x + 2 \in 1..L
      BY ONLY <3>1
    <3>. QED  BY ONLY <3>1, <3>2 DEF x, y
  <2>4. Byte = Flip(p[m + 1])
    BY <1>4, <1>10, <2>1, <2>3
  <2>5. Flip(Byte) = p[m + 1]
    BY <2>1, <2>4, FlipSpecial
  <2>6. next_message' = SubSeq(p, 1, m + 1) /\ position' = e[m + 1] + 1 /\ m + 1 \in 0..n
    <3>1. next_message' = Append(SubSeq(p, 1, m), p[m + 1])
      BY <1>6, <2>2, <2>5
    <3>2. position' = (x + 2) + 1 /\ m + 1 \in 0..n
      BY <1>1, <1>7, <2>1
    <3>. HIDE DEF p, frame, body, n, L
    <3>. QED  BY <1>8, <2>1, <2>3, <3>1, <3>2
  <2>. QED  BY <1>1, <1>6, <2>2, <2>6 DEF Parsed
<1>13. CASE ~should_escape
  <2>1. position = x + 1 /\ x \in Nat /\ x <= L
    BY <1>6, <1>7, <1>13
  <2>2. m < n => x + 1 \in 1..L
    <3>1. SUFFICES ASSUME m < n PROVE x + 1 \in 1..L
      OBVIOUS
    <3>. DEFINE y == e[m + 1]
    <3>2. y = x + 2 \/ y = x + 1
      <4>. HIDE DEF p, n, L, body, frame
      <4>. QED  BY <1>7, <3>1
    <3>3. y <= L /\ x \in Nat /\ L \in Nat
      <4>. HIDE DEF p, n, L, body, frame
      <4>. QED  BY <1>4, <1>7, <3>1
    <3>. HIDE DEF x, y, L
    <3>. QED  BY ONLY <3>2, <3>3
  <2>3. m < n => Byte = body[x + 1]
    BY <1>4, <1>10, <2>1, <2>2
  <2>4. ~(m < n) => m = n /\ x = L /\ Byte = HASH
    <3>1. SUFFICES ASSUME ~(m < n) PROVE m = n /\ x = L /\ Byte = HASH
      OBVIOUS
    <3>2. m = n
      BY <1>4, <3>1
    <3>3. x = L /\ position + 1 = L + 2
      <4>1. x = L /\ L \in Nat /\ position = x + 1
        <5>. HIDE DEF p, n, L, body, frame
        <5>1. e[n] = L /\ L \in Nat /\ position = x + 1
          BY <1>4, <1>7, <2>1
        <5>. QED  BY ONLY <3>2, <5>1
      <4>. HIDE DEF L, x
      <4>. QED  BY ONLY <4>1
    <3>. QED  BY <1>4, <1>10, <3>2, <3>3
  <2>5. HASH # ESCAPE /\ HASH \in Special /\ ESCAPE \in Special
    BY DEF HASH, ESCAPE, Special
  <2>6. CASE m < n /\ p[m + 1] \in Special
    <3>1. Byte = ESCAPE
      BY <1>7, <2>3, <2>6
    <3>2. server' = "body" /\ should_escape' = TRUE /\ next_message' = next_message
      BY <1>1, <1>13, <2>5, <3>1 DEF ReadBody
    <3>3. position' = e[m] + 2
      BY <1>1, <2>1
    <3>. QED  BY <1>1, <1>6, <2>6, <3>2, <3>3 DEF Parsed
  <2>7. CASE m < n /\ p[m + 1] \notin Special
    <3>1. Byte = p[m + 1] /\ Byte # ESCAPE /\ Byte # HASH
      BY <1>7, <2>3, <2>5, <2>7
    <3>2. server' = "body" /\ should_escape' = FALSE /\ next_message' = Append(next_message, Byte)
      BY <1>1, <1>13, <3>1 DEF ReadBody
    <3>3. next_message' = SubSeq(p, 1, m + 1) /\ position' = e[m + 1] + 1 /\ m + 1 \in 0..n
      <4>1. next_message' = Append(SubSeq(p, 1, m), p[m + 1])
        BY <1>6, <3>1, <3>2
      <4>2. position' = (x + 1) + 1 /\ m + 1 \in 0..n /\ e[m + 1] = x + 1
        BY <1>1, <1>7, <2>1, <2>7
      <4>. HIDE DEF p, frame, body, n, L
      <4>. QED  BY <1>8, <2>7, <4>1, <4>2
    <3>. QED  BY <1>1, <1>6, <3>2, <3>3 DEF Parsed
  <2>8. CASE ~(m < n)
    <3>1. server' = "digit1" /\ next_message' = next_message
      BY <1>1, <1>13, <2>4, <2>5, <2>8 DEF ReadBody
    <3>2. SubSeq(p, 1, n) = p
      <4>1. 1 \in Nat \ {0} /\ n \in Nat /\ n <= Len(p)
        BY <1>4
      <4>2. /\ SubSeq(p, 1, n) \in Seq(Bytes)
            /\ Len(SubSeq(p, 1, n)) = IF 1 <= n THEN (n - 1) + 1 ELSE 0
            /\ \A i \in 1..Len(SubSeq(p, 1, n)) : SubSeq(p, 1, n)[i] = p[1 + i - 1]
        <5>1. p \in Seq(Bytes)
          BY <1>3
        <5>. HIDE DEF p, n
        <5>. QED  BY ONLY <4>1, <5>1, SubSeqType
      <4>. DEFINE all == SubSeq(p, 1, n)
      <4>3. Len(all) = n
        BY <1>4, <4>2
      <4>4. \A i \in 1..n : 1 + i - 1 = i
        BY <1>4
      <4>5. /\ all \in Seq(Bytes) /\ p \in Seq(Bytes) /\ Len(all) = Len(p)
            /\ \A i \in 1..Len(all) : all[i] = p[i]
        BY <1>3, <4>2, <4>3, <4>4
      <4>. HIDE DEF all, p, n
      <4>6. all = p
        BY ONLY <4>5, SeqEqual
      <4>. QED  BY <4>6 DEF all
    <3>3. next_message' = p /\ position' = Len(frame) - 2
      <4>. DEFINE f == Len(frame)
      <4>1. next_message' = SubSeq(p, 1, n)
        BY <1>6, <2>4, <2>8, <3>1
      <4>2. x = L /\ L \in Nat /\ position = x + 1 /\ position' = position + 1 /\ f = L + 4
        BY <1>1, <1>4, <2>1, <2>4, <2>8
      <4>. HIDE DEF f, x, L
      <4>3. position' = f - 2
        BY ONLY <4>2
      <4>. QED  BY ONLY <3>2, <4>1, <4>3 DEF f
    <3>. QED  BY <1>1, <3>1, <3>3 DEF Parsed
  <2>. QED  BY <2>6, <2>7, <2>8
<1>. QED  BY <1>12, <1>13

LEMMA Digit1Read ==
  ASSUME TypeOK, NEW tags, Tagged(tags), InFrame(tags), ReadDigit1
  PROVE  InFrame(tags)'
<1>. DEFINE p == outgoing[tags[1].of]
            F == Len(Frame(p))
<1>1. /\ server = "digit1" /\ Available /\ position' = position + 1 /\ server' = "digit2"
      /\ UNCHANGED <<input_buffer, outgoing, next_message>>
  BY Zenon DEF ReadDigit1
<1>2. server \in FrameStates
  BY <1>1 DEF FrameStates
<1>3. /\ position \in 1..Len(input_buffer) /\ p \in Seq(Bytes)
      /\ tags[1].of \in 1..Len(outgoing)
  BY <1>2, FramePacket
<1>4. next_message = p /\ position = F - 2
  BY <1>1 DEF InFrame, Parsed
<1>5. F \in Nat /\ position < F /\ position' = F - 1
  <2>1. Frame(p) \in Seq(Bytes)
    BY <1>3, FrameBytes
  <2>2. F \in Nat
    BY <2>1, LenIsNat
  <2>. HIDE DEF F
  <2>. QED  BY <1>1, <1>4, <2>2
<1>6. /\ position + 1 \in 1..Len(input_buffer)
      /\ \A j \in 1..(position + 1) : tags[j].from = j /\ tags[j].of = tags[1].of
  BY <1>1, <1>2, <1>5, NextByte
<1>. QED  BY <1>1, <1>4, <1>5, <1>6 DEF InFrame, Parsed

\* With the last byte the message is that of the packet.
LEMMA Digit2Read ==
  ASSUME TypeOK, NEW tags, Tagged(tags), InFrame(tags), server = "digit2", Available
  PROVE  /\ next_message = outgoing[tags[1].of] /\ tags[1].of \in 1..Len(outgoing)
         /\ next_message \in Seq(Bytes) /\ tags[1].from = 1
         /\ position + 1 \in 1..Len(input_buffer)
<1>. DEFINE p == outgoing[tags[1].of]
            F == Len(Frame(p))
<1>1. server \in FrameStates
  BY DEF FrameStates
<1>2. /\ position \in 1..Len(input_buffer) /\ p \in Seq(Bytes)
      /\ tags[1].of \in 1..Len(outgoing) /\ tags[1].from = 1
  BY <1>1, FramePacket
<1>3. next_message = p /\ position = F - 1
  BY DEF InFrame, Parsed
<1>4. position < F
  <2>1. Frame(p) \in Seq(Bytes)
    BY <1>2, FrameBytes
  <2>2. F \in Nat
    BY <2>1, LenIsNat
  <2>. HIDE DEF F
  <2>. QED  BY <1>3, <2>2
<1>5. position + 1 \in 1..Len(input_buffer)
  BY <1>1, <1>4, NextByte
<1>. QED  BY <1>2, <1>3, <1>5
---------------------------------------------------------------------------
(* Each step keeps what is in flight in order.                             *)

Coming(tags) == Begin(tags, Flying) # {}

LEMMA DialogueLessNext ==
  ASSUME NEW c, NEW d, Dialogue(c)', d => c
  PROVE  Dialogue(d)'
BY Zenon DEF Dialogue

LEMMA StreamShown ==
  ASSUME NEW tags, Placing(outgoing', input_buffer', wire', tags),
         Complete(outgoing', tags, Flying'), Ordering(outgoing', delivered', tags, Flying'),
         InFrame(tags)',
         repeated' \/ (Fresh(outgoing', tags, Flying') /\ \E c : Dialogue(c)' /\ (Coming(tags)' => c))
  PROVE  StreamOK'
<1>1. tags \in [1..Flying' -> Tags]
  BY DEF Placing, Flying
<1>2. Tagged(tags)' /\ Ordered(tags)'
  BY DEF Tagged, Ordered, Flying
<1>3. ASSUME ~repeated'  PROVE Answering(tags)'
  <2>1. Fresh(outgoing', tags, Flying')
    BY <1>3
  <2>2. PICK c : Dialogue(c)' /\ (Coming(tags)' => c)
    BY <1>3
  <2>3. PICK d : d <=> Begin(tags, Flying') # {}
    OBVIOUS
  <2>4. Dialogue(d)'
    <3>1. d => c
      BY <2>2, <2>3 DEF Coming
    <3>. QED  BY <2>2, <3>1, DialogueLessNext
  <2>5. Dialogue(Begin(tags, Flying) # {})'
    BY <2>3, <2>4 DEF Dialogue
  <2>. QED  BY <2>1, <2>5 DEF Answering
<1>. QED  BY <1>1, <1>2, <1>3 DEF StreamOK, Good

\* Nothing new is in flight.
LEMMA FewerStream ==
  ASSUME NEW tags, Good(tags), NEW less,
         Placing(outgoing', input_buffer', wire', less), Complete(outgoing', less, Flying'),
         Fewer(less, Flying', tags, Flying), InFrame(less)',
         UNCHANGED <<outgoing, delivered, repeated>>,
         repeated \/ \E c : Dialogue(c)' /\ (Coming(tags) => c)
  PROVE  StreamOK'
<1>1. /\ Ordering(outgoing, delivered, tags, Flying)
      /\ repeated \/ Fresh(outgoing, tags, Flying)
  BY DEF Good, Ordered, Answering
<1>2. Ordering(outgoing', delivered', less, Flying')
  BY <1>1, FewerKeep
<1>3. ASSUME ~repeated
      PROVE  Fresh(outgoing', less, Flying') /\ \E c : Dialogue(c)' /\ (Coming(less)' => c)
  <2>1. Fresh(outgoing', less, Flying') /\ (Begin(less, Flying') # {} => Begin(tags, Flying) # {})
    BY <1>1, <1>3, FewerKeep
  <2>2. Coming(less)' => Coming(tags)
    BY <2>1 DEF Coming
  <2>. QED  BY <1>3, <2>1, <2>2
<1>. QED  BY <1>2, <1>3, StreamShown

\* The same is in flight.
LEMMA SameStream ==
  ASSUME NEW tags, Good(tags), InFrame(tags)',
         UNCHANGED <<outgoing, input_buffer, wire, delivered, repeated>>,
         repeated \/ \E c : Dialogue(c)' /\ (Coming(tags) => c)
  PROVE  StreamOK'
<1>1. Flying' = Flying
  BY DEF Flying
<1>2. Placing(outgoing', input_buffer', wire', tags) /\ Complete(outgoing', tags, Flying')
  BY <1>1 DEF Good, Tagged
<1>3. Fewer(tags, Flying', tags, Flying)
  BY <1>1 DEF Fewer
<1>. QED  BY <1>2, <1>3, FewerStream

\* What the server and the client know of a good state.
LEMMA GoodParts ==
  ASSUME TypeOK, NEW tags, Good(tags)
  PROVE  /\ input_buffer \in Seq(Bytes) /\ wire \in Seq(Seq(Bytes)) /\ outgoing \in Seq(Payloads)
         /\ Len(input_buffer) \in Nat /\ Len(wire) \in Nat /\ Flying = Len(input_buffer) + Len(wire)
         /\ Placing(outgoing, input_buffer, wire, tags)
         /\ Complete(outgoing, tags, Flying) /\ Ordering(outgoing, delivered, tags, Flying)
         /\ InFrame(tags) /\ Tagged(tags)
         /\ repeated \/ (Fresh(outgoing, tags, Flying) /\ Dialogue(Coming(tags)))
<1>1. input_buffer \in Seq(Bytes) /\ wire \in Seq(Seq(Bytes)) /\ outgoing \in Seq(Payloads)
  BY TypeParts DEF StreamTypes, ClientTypes
<1>2. Len(input_buffer) \in Nat /\ Len(wire) \in Nat
  BY <1>1, LenIsNat
<1>3. repeated \/ (Fresh(outgoing, tags, Flying) /\ Dialogue(Coming(tags)))
  BY DEF Good, Answering, Coming
<1>. QED  BY <1>1, <1>2, <1>3 DEF Good, Tagged, Ordered, Flying

LEMMA QuietSteps ==
  ASSUME TypeOK, AtStart, NEW tags, Good(tags),
         EndOfStream \/ ReadStart \/ ReadBody \/ ReadDigit1 \/ Handle \/ CoreStops \/ Close
  PROVE  StreamOK'
<1>0. /\ InFrame(tags) /\ Tagged(tags) /\ input_buffer \in Seq(Bytes)
      /\ repeated \/ Dialogue(Coming(tags))
  BY GoodParts
<1>. PICK c : c <=> Coming(tags)
  OBVIOUS
<1>00. repeated \/ Dialogue(c)
  <2>1. c => Coming(tags)
    OBVIOUS
  <2>. QED  BY <1>0, <2>1, DialogueLess
<1>1. CASE EndOfStream
  <2>1. /\ server' = "closed"
        /\ UNCHANGED <<outgoing, input_buffer, wire, delivered, repeated, client, answered, answers>>
    BY <1>1 DEF EndOfStream, network, stream, history
  <2>2. InFrame(tags)' /\ ~Handling'
    BY <2>1 DEF InFrame, Handling
  <2>3. repeated \/ Dialogue(c)'
    BY <1>00, <2>1, <2>2, NothingSaid
  <2>. QED  BY <2>1, <2>2, <2>3, SameStream
<1>2. CASE ReadStart
  <2>1. /\ server = "read" /\ server' = "body"
        /\ UNCHANGED <<outgoing, input_buffer, wire, delivered, repeated, client, answered, answers>>
    BY <1>2 DEF ReadStart, network, stream, history
  <2>2. InFrame(tags)' /\ ~Handling'
    <3>1. position = 0
      BY <2>1 DEF AtStart
    <3>2. InFrame(tags)'
      BY <1>0, <1>2, <3>1, StartRead
    <3>. QED  BY <2>1, <3>2 DEF Handling
  <2>3. repeated \/ Dialogue(c)'
    BY <1>00, <2>1, <2>2, NothingSaid
  <2>. QED  BY <2>1, <2>2, <2>3, SameStream
<1>3. CASE ReadBody
  <2>1. /\ server' \in {"body", "digit1"}
        /\ UNCHANGED <<outgoing, input_buffer, wire, delivered, repeated, client, answered, answers>>
    BY <1>3 DEF ReadBody, network, history
  <2>2. InFrame(tags)' /\ ~Handling'
    BY <1>0, <1>3, <2>1, BodyRead DEF Handling
  <2>3. repeated \/ Dialogue(c)'
    BY <1>00, <2>1, <2>2, NothingSaid
  <2>. QED  BY <2>1, <2>2, <2>3, SameStream
<1>4. CASE ReadDigit1
  <2>1. /\ server' = "digit2"
        /\ UNCHANGED <<outgoing, input_buffer, wire, delivered, repeated, client, answered, answers>>
    BY <1>4 DEF ReadDigit1, network, history
  <2>2. InFrame(tags)' /\ ~Handling'
    BY <1>0, <1>4, <2>1, Digit1Read DEF Handling
  <2>3. repeated \/ Dialogue(c)'
    BY <1>00, <2>1, <2>2, NothingSaid
  <2>. QED  BY <2>1, <2>2, <2>3, SameStream
<1>5. CASE Handle
  <2>1. /\ server = "handle" /\ server' \in {"read", "watch"}
        /\ UNCHANGED <<outgoing, input_buffer, wire, delivered, repeated, client, answered>>
        /\ \/ server' = "watch" /\ answers' = answers
           \/ server' = "read" /\ answers' = answers \o Reply
           \/ server' = "read" /\ answers' = Append(answers, Error)
    BY <1>5 DEF Handle, stream, history
  <2>2. InFrame(tags)' /\ Handling
    BY <2>1 DEF InFrame, Handling
  <2>3. repeated \/ Dialogue(c)'
    BY <1>00, <2>1, <2>2, NothingSaid, ReplySaid, ErrorSaid
  <2>. QED  BY <2>1, <2>2, <2>3, SameStream
<1>6. CASE CoreStops
  <2>1. /\ server = "watch" /\ server' = "read" /\ answers' = answers \o Reply
        /\ UNCHANGED <<outgoing, input_buffer, wire, delivered, repeated, client, answered>>
    BY <1>6 DEF CoreStops, StopWatching, stream
  <2>2. InFrame(tags)' /\ Handling
    BY <2>1 DEF InFrame, Handling
  <2>3. repeated \/ Dialogue(c)'
    BY <1>00, <2>1, <2>2, ReplySaid
  <2>. QED  BY <2>1, <2>2, <2>3, SameStream
<1>7. CASE Close
  <2>1. /\ client' = "closed"
        /\ UNCHANGED <<outgoing, input_buffer, wire, delivered, repeated, answered, answers, stream, server>>
    BY <1>7 DEF Close, network, stream, history
  <2>2. InFrame(tags)'
    BY <1>0, <2>1, FrameKept
  <2>3. repeated \/ Dialogue(c)'
    BY <1>00, <2>1, ClientLeaves
  <2>. QED  BY <2>1, <2>2, <2>3, SameStream
<1>. QED  BY <1>1, <1>2, <1>3, <1>4, <1>5, <1>6, <1>7

\* The buffer was read to its end, or the position was kept past it.
LEMMA RefillStep ==
  ASSUME TypeOK, AtStart, NEW tags, Good(tags), Refill
  PROVE  StreamOK'
<1>0. /\ input_buffer \in Seq(Bytes) /\ wire \in Seq(Seq(Bytes)) /\ outgoing \in Seq(Payloads)
      /\ Len(input_buffer) \in Nat /\ Len(wire) \in Nat /\ Flying = Len(input_buffer) + Len(wire)
      /\ Placing(outgoing, input_buffer, wire, tags) /\ Complete(outgoing, tags, Flying)
      /\ InFrame(tags) /\ Tagged(tags) /\ (repeated \/ Dialogue(Coming(tags)))
  BY GoodParts
<1>1. CASE position > 0
  BY <1>1 DEF Refill, StreamOK
<1>2. CASE ~(position > 0)
  <2>1. PICK n \in 1..Len(wire) :
          /\ input_buffer' = FlattenSeq(SubSeq(wire, 1, n))
          /\ wire' = SubSeq(wire, n + 1, Len(wire))
          /\ server' = IF position < Len(FlattenSeq(SubSeq(wire, 1, n))) THEN server ELSE "closed"
    BY Zenon DEF Refill
  <2>2. /\ server \in Reading /\ ~Available
        /\ UNCHANGED <<outgoing, delivered, repeated, client, answered, answers>>
    BY DEF Refill
  <2>3. position = 0
    BY <1>2, TypeParts DEF StreamTypes
  <2>4. input_buffer = <<>> /\ Flying = Len(wire)
    BY <1>0, <2>2, <2>3, LenIsNat DEF Available
  <2>5. server \notin FrameStates
    <3>1. server \in FrameStates => position \in 1..Len(input_buffer)
      BY <1>0 DEF InFrame, FrameStates
    <3>. QED  BY <2>3, <3>1
  <2>6. server \notin {"handle", "watch"} /\ server' \in {server, "closed"}
    BY <2>1, <2>2 DEF Reading
  <2>7. ~Handling'
    BY <2>6 DEF Handling
  <2>8. /\ Placing(outgoing, <<>>, wire, tags) /\ Complete(outgoing, tags, Len(wire))
        /\ wire \in Seq(Seq(Bytes)) /\ outgoing \in Seq(Payloads) /\ n \in 1..Len(wire)
    BY <1>0, <2>4
  <2>9. \E more : /\ Placing(outgoing, input_buffer', wire', more)
                  /\ Complete(outgoing, more, Len(input_buffer') + Len(wire'))
                  /\ Fewer(more, Len(input_buffer') + Len(wire'), tags, Len(wire))
    <3>1. LET s == FlattenSeq(SubSeq(wire, 1, n))
              rest == SubSeq(wire, n + 1, Len(wire))
              m == Len(s) + Len(rest)
          IN \E more : /\ Placing(outgoing, s, rest, more) /\ Complete(outgoing, more, m)
                       /\ Fewer(more, m, tags, Len(wire))
      BY ONLY <2>8, ReadTags
    <3>. QED  BY <2>1, <3>1
  <2>10. PICK more : /\ Placing(outgoing, input_buffer', wire', more)
                     /\ Complete(outgoing, more, Flying')
                     /\ Fewer(more, Flying', tags, Flying)
    BY <2>4, <2>9 DEF Flying
  <2>11. InFrame(more)'
    BY <2>5, <2>6 DEF InFrame, FrameStates
  <2>. PICK c : c <=> Coming(tags)
    OBVIOUS
  <2>12. repeated \/ Dialogue(c)'
    <3>1. c => Coming(tags)
      OBVIOUS
    <3>2. repeated \/ Dialogue(c)
      BY <1>0, <3>1, DialogueLess
    <3>. QED  BY <2>2, <2>7, <3>2, NothingSaid
  <2>. QED  BY <2>2, <2>10, <2>11, <2>12, FewerStream
<1>. QED  BY <1>1, <1>2

\* Bytes that are no part of a frame that is read, and a frame that ends.
LEMMA ShiftStep ==
  ASSUME TypeOK, NEW tags, Good(tags), NEW d \in 0..Len(input_buffer), NEW rest \in Seq(Bytes),
         Len(rest) = Len(input_buffer) - d, \A k \in 1..Len(rest) : rest[k] = input_buffer[k + d],
         input_buffer' = rest, wire' = wire, outgoing' = outgoing
  PROVE  \E less : /\ Placing(outgoing', input_buffer', wire', less)
                   /\ Complete(outgoing', less, Flying')
                   /\ Fewer(less, Flying', tags, Flying)
                   /\ less = Shift(tags, Flying, d) /\ Flying' = Flying - d
<1>0. /\ input_buffer \in Seq(Bytes) /\ wire \in Seq(Seq(Bytes))
      /\ Len(input_buffer) \in Nat /\ Len(wire) \in Nat /\ Flying = Len(input_buffer) + Len(wire)
      /\ Placing(outgoing, input_buffer, wire, tags) /\ Complete(outgoing, tags, Flying)
  BY GoodParts
<1>. DEFINE less == Shift(tags, Len(input_buffer) + Len(wire), d)
<1>1. /\ Placing(outgoing, rest, wire, less)
      /\ Complete(outgoing, tags, Len(input_buffer) + Len(wire)) =>
           Complete(outgoing, less, Len(rest) + Len(wire))
      /\ Fewer(less, Len(rest) + Len(wire), tags, Len(input_buffer) + Len(wire))
  <2>1. /\ rest \in Seq(Bytes) /\ d \in 0..Len(input_buffer) /\ Len(rest) = Len(input_buffer) - d
        /\ \A k \in 1..Len(rest) : rest[k] = input_buffer[k + d]
    OBVIOUS
  <2>. QED  BY ONLY <1>0, <2>1, ShiftTags
<1>2. Flying' = Len(rest) + Len(wire) /\ Flying' = Flying - d
  <2>1. Flying' = Len(rest) + Len(wire)
    BY DEF Flying
  <2>. DEFINE b == Len(input_buffer)
              w == Len(wire)
              r == Len(rest)
  <2>2. b \in Nat /\ w \in Nat /\ r = b - d /\ d \in 0..b /\ Flying = b + w /\ Flying' = r + w
    BY <1>0, <2>1
  <2>. HIDE DEF b, w, r
  <2>3. Flying' = Flying - d
    BY ONLY <2>2
  <2>. QED  BY <2>1, <2>3
<1>. HIDE DEF less
<1>3. Placing(outgoing', input_buffer', wire', less) /\ Complete(outgoing', less, Flying')
      /\ Fewer(less, Flying', tags, Flying)
  BY <1>0, <1>1, <1>2
<1>. QED  BY <1>0, <1>2, <1>3 DEF less

LEMMA AckAndDiscard ==
  ASSUME TypeOK, AtStart, NEW tags, Good(tags), ReadAck \/ Discard
  PROVE  StreamOK'
<1>0. /\ input_buffer \in Seq(Bytes) /\ Len(input_buffer) \in Nat
      /\ (repeated \/ Dialogue(Coming(tags)))
  BY GoodParts
<1>1. /\ server = "read" /\ server' = server /\ Available
      /\ UNCHANGED <<outgoing, wire, delivered, repeated, client, answered>>
  BY DEF ReadAck, Discard, network, history
<1>2. InFrame(Shift(tags, Flying, 1))' /\ InFrame(Shift(tags, Flying, Len(input_buffer)))' /\ ~Handling'
  BY <1>1 DEF InFrame, Handling
<1>. PICK c : c <=> Coming(tags)
  OBVIOUS
<1>3. repeated \/ Dialogue(c)
  <2>1. c => Coming(tags)
    OBVIOUS
  <2>. QED  BY <1>0, <2>1, DialogueLess
<1>4. Len(input_buffer) >= 1
  <2>1. position = 0
    BY <1>1 DEF AtStart
  <2>. QED  BY <1>0, <1>1, <2>1 DEF Available
<1>5. CASE ReadAck
  <2>1. input_buffer' = Tail(input_buffer) /\ answers' = answers
    BY <1>5 DEF ReadAck, AfterAck, network
  <2>. DEFINE rest == Tail(input_buffer)
  <2>2. /\ rest \in Seq(Bytes) /\ Len(rest) = Len(input_buffer) - 1
        /\ \A k \in 1..Len(rest) : rest[k] = input_buffer[k + 1]
        /\ 1 \in 0..Len(input_buffer)
    BY <1>0, <1>4, HeadTailProperties, LenIsNat
  <2>. HIDE DEF rest
  <2>3. PICK less : /\ Placing(outgoing', input_buffer', wire', less)
                    /\ Complete(outgoing', less, Flying')
                    /\ Fewer(less, Flying', tags, Flying)
                    /\ less = Shift(tags, Flying, 1)
    <3>1. input_buffer' = rest /\ wire' = wire /\ outgoing' = outgoing
      BY <1>1, <2>1 DEF rest
    <3>2. \E less : /\ Placing(outgoing', input_buffer', wire', less)
                     /\ Complete(outgoing', less, Flying') /\ Fewer(less, Flying', tags, Flying)
                     /\ less = Shift(tags, Flying, 1) /\ Flying' = Flying - 1
      BY <2>2, <3>1, ShiftStep
    <3>. QED  BY ONLY <3>2
  <2>4. InFrame(less)'
    BY <1>1 DEF InFrame
  <2>5. repeated \/ Dialogue(c)'
    BY <1>1, <1>2, <1>3, <2>1, NothingSaid
  <2>. QED  BY <1>1, <2>3, <2>4, <2>5, FewerStream
<1>6. CASE Discard
  <2>1. input_buffer' = <<>> /\ answers' = Append(answers, Error)
    BY <1>6 DEF Discard
  <2>. DEFINE rest == <<>>
              d == Len(input_buffer)
  <2>2. /\ rest \in Seq(Bytes) /\ Len(rest) = Len(input_buffer) - d
        /\ \A k \in 1..Len(rest) : rest[k] = input_buffer[k + d]
        /\ d \in 0..Len(input_buffer)
    BY <1>0
  <2>. HIDE DEF rest, d
  <2>3. PICK less : /\ Placing(outgoing', input_buffer', wire', less)
                    /\ Complete(outgoing', less, Flying')
                    /\ Fewer(less, Flying', tags, Flying)
                    /\ less = Shift(tags, Flying, d)
    BY <1>1, <2>1, <2>2, ShiftStep DEF rest
  <2>4. InFrame(less)'
    BY <1>1 DEF InFrame
  <2>5. repeated \/ Dialogue(c)'
    BY <1>1, <1>2, <1>3, <2>1, ErrorSaid
  <2>. QED  BY <1>1, <2>3, <2>4, <2>5, FewerStream
<1>. QED  BY <1>5, <1>6

\* The message is handed over, or not understood.
LEMMA Digit2Step ==
  ASSUME TypeOK, NEW tags, Good(tags), ReadDigit2
  PROVE  StreamOK'
<1>0. /\ input_buffer \in Seq(Bytes) /\ outgoing \in Seq(Payloads)
      /\ Len(input_buffer) \in Nat /\ Len(wire) \in Nat /\ Flying = Len(input_buffer) + Len(wire)
      /\ Placing(outgoing, input_buffer, wire, tags) /\ Ordering(outgoing, delivered, tags, Flying)
      /\ InFrame(tags) /\ Tagged(tags)
      /\ repeated \/ (Fresh(outgoing, tags, Flying) /\ Dialogue(Coming(tags)))
  BY GoodParts
<1>1. /\ server = "digit2" /\ Available
      /\ input_buffer' = SubSeq(input_buffer, position + 2, Len(input_buffer))
      /\ UNCHANGED <<outgoing, wire, repeated, client, answered>>
      /\ \/ /\ server' = "handle" /\ delivered' = Append(delivered, next_message)
            /\ answers' = answers
         \/ /\ server' = "read" /\ answers' = Append(answers, Error)
            /\ delivered' = delivered
  BY DEF ReadDigit2
<1>2. /\ next_message = outgoing[tags[1].of] /\ tags[1].of \in 1..Len(outgoing)
      /\ next_message \in Seq(Bytes) /\ tags[1].from = 1
      /\ position + 1 \in 1..Len(input_buffer)
  BY <1>0, <1>1, Digit2Read
<1>. DEFINE rest == SubSeq(input_buffer, position + 2, Len(input_buffer))
            d == position + 1
<1>3. /\ rest \in Seq(Bytes) /\ Len(rest) = Len(input_buffer) - d
      /\ \A k \in 1..Len(rest) : rest[k] = input_buffer[k + d]
      /\ d \in 0..Len(input_buffer) /\ d >= 1 /\ d \in Nat
  <2>. DEFINE L == Len(input_buffer)
              r == Len(rest)
  <2>0. position \in Nat
    BY TypeParts DEF StreamTypes
  <2>1. d \in 1..L /\ L \in Nat /\ position + 2 \in Nat \ {0} /\ L <= Len(input_buffer) /\ d \in Nat
    <3>1. L \in Nat /\ position \in Nat /\ position + 1 \in 1..L
      BY ONLY <1>0, <1>2, <2>0
    <3>. HIDE DEF L
    <3>2. L <= L /\ position + 2 \in Nat \ {0} /\ position + 1 \in Nat
      BY ONLY <3>1
    <3>. QED  BY ONLY <3>1, <3>2 DEF L
  <2>2. /\ rest \in Seq(Bytes) /\ r = IF position + 2 <= L THEN (L - (position + 2)) + 1 ELSE 0
        /\ \A k \in 1..r : rest[k] = input_buffer[(position + 2) + k - 1]
    <3>. HIDE DEF d
    <3>1. position + 2 \in Nat \ {0} /\ L \in Nat /\ L <= Len(input_buffer)
      BY <2>1
    <3>2. LET y == SubSeq(input_buffer, position + 2, L)
          IN /\ y \in Seq(Bytes)
             /\ Len(y) = IF position + 2 <= L THEN (L - (position + 2)) + 1 ELSE 0
             /\ \A i \in 1..Len(y) : y[i] = input_buffer[(position + 2) + i - 1]
      <4>1. input_buffer \in Seq(Bytes)
        BY <1>0
      <4>. HIDE DEF L
      <4>. QED  BY ONLY <3>1, <4>1, SubSeqType
    <3>. QED  BY ONLY <3>2
  <2>. HIDE DEF L, r, rest
  <2>3. r = L - d
    BY <2>0, <2>1, <2>2
  <2>4. \A k \in 1..r : (position + 2) + k - 1 = k + d
    BY <2>0
  <2>. QED  BY <2>1, <2>2, <2>3, <2>4 DEF L, r
<1>. HIDE DEF rest, d
<1>4. PICK less : /\ Placing(outgoing', input_buffer', wire', less)
                  /\ Complete(outgoing', less, Flying')
                  /\ Fewer(less, Flying', tags, Flying)
                  /\ less = Shift(tags, Flying, d) /\ Flying' = Flying - d
  BY <1>1, <1>3, ShiftStep DEF rest
<1>5. InFrame(less)'
  BY <1>1 DEF InFrame
<1>6. CASE delivered' = delivered /\ server' = "read" /\ answers' = Append(answers, Error)
  <2>. PICK c : c <=> Coming(tags)
    OBVIOUS
  <2>1. repeated \/ Dialogue(c)
    <3>1. c => Coming(tags)
      OBVIOUS
    <3>. QED  BY <1>0, <3>1, DialogueLess
  <2>2. ~Handling'
    BY <1>6 DEF Handling
  <2>3. repeated \/ Dialogue(c)'
    BY <1>1, <1>6, <2>1, <2>2, ErrorSaid
  <2>. QED  BY <1>1, <1>4, <1>5, <1>6, <2>3, FewerStream
<1>7. CASE /\ server' = "handle" /\ delivered' = Append(delivered, next_message)
           /\ answers' = answers
  <2>1. Flying \in Nat /\ Flying > 0 /\ 1 \in 1..Flying
    BY <1>0, <1>2
  <2>2. Ordering(outgoing, delivered', tags, Flying)
    <3>1. tags \in [1..Flying -> Tags] /\ Linked(outgoing, tags, Flying)
      BY <1>0 DEF Placing
    <3>2. delivered \in Seq(Seq(Bytes))
      BY TypeParts DEF HistoryTypes
    <3>3. Ordering(outgoing, Append(delivered, next_message), tags, Flying)
      BY ONLY <1>0, <1>2, <2>1, <3>1, <3>2, OrderDelivered
    <3>. QED  BY <1>7, <3>3
  <2>3. Ordering(outgoing', delivered', less, Flying')
    BY <1>1, <1>4, <2>2, FewerKeep
  <2>4. ASSUME ~repeated
        PROVE  /\ Fresh(outgoing', less, Flying')
               /\ \E c : Dialogue(c)' /\ (Coming(less)' => c)
    <3>1. 1 \in Begin(tags, Flying)
      BY <1>2, <2>1 DEF Begin
    <3>2. tags[1].of = Len(outgoing) /\ Alone(tags, Flying) /\ Coming(tags)
      BY <1>0, <2>4, <3>1 DEF Fresh, Coming
    <3>3. Dialogue(TRUE)
      BY <1>0, <2>4, <3>2, DialogueLess
    <3>4. \A c : ~c => Dialogue(c)'
      BY <1>1, <1>2, <1>7, <3>2, <3>3, LastDelivered
    <3>5. Begin(less, Flying') = {}
      <4>1. SUFFICES ASSUME NEW k \in 1..(Flying - d), less[k].from = 1 PROVE FALSE
        BY <1>4 DEF Begin
      <4>2. k + d \in 1..Flying /\ k + d # 1
        BY <1>3, <2>1
      <4>3. less[k] = tags[k + d]
        BY <1>4 DEF Shift
      <4>4. k + d \in Begin(tags, Flying)
        BY <4>1, <4>2, <4>3 DEF Begin
      <4>. QED  BY <3>1, <3>2, <4>2, <4>4 DEF Alone
    <3>6. Fresh(outgoing', less, Flying') /\ ~(Coming(less)')
      BY <3>5 DEF Fresh, Alone, Coming
    <3>7. PICK c : c <=> (Begin(less, Flying') # {})
      OBVIOUS
    <3>8. ~c
      BY <3>5, <3>7
    <3>. QED  BY <3>4, <3>6, <3>8
  <2>5. repeated' \/ (Fresh(outgoing', less, Flying') /\ \E c : Dialogue(c)' /\ (Coming(less)' => c))
    BY <1>1, <2>4
  <2>. QED  BY <1>4, <1>5, <2>3, <2>5, StreamShown
<1>. QED  BY <1>1, <1>6, <1>7

\* The break that ends the watch is taken off the wire.
LEMMA BreakStep ==
  ASSUME TypeOK, NEW tags, Good(tags), SeeBreak
  PROVE  StreamOK'
<1>0. /\ input_buffer \in Seq(Bytes) /\ wire \in Seq(Seq(Bytes)) /\ outgoing \in Seq(Payloads)
      /\ Flying = Len(input_buffer) + Len(wire)
      /\ Placing(outgoing, input_buffer, wire, tags) /\ Complete(outgoing, tags, Flying)
      /\ (repeated \/ Dialogue(Coming(tags)))
  BY GoodParts
<1>1. /\ server = "watch" /\ server' = "read" /\ answers' = answers \o Reply
      /\ wire # <<>> /\ wire[1] = <<BREAK>> /\ wire' = Tail(wire)
      /\ UNCHANGED <<outgoing, input_buffer, delivered, repeated, client, answered>>
  BY DEF SeeBreak, BreakWaits, StopWatching, stream
<1>. PICK less : less = Without(tags, Len(input_buffer) + Len(wire), Len(input_buffer) + 1)
  OBVIOUS
<1>2. /\ Placing(outgoing, input_buffer, Tail(wire), less)
      /\ Complete(outgoing, tags, Len(input_buffer) + Len(wire)) =>
           Complete(outgoing, less, Len(input_buffer) + Len(Tail(wire)))
      /\ Fewer(less, Len(input_buffer) + Len(Tail(wire)), tags, Len(input_buffer) + Len(wire))
  <2>1. LET n == Len(input_buffer) + Len(wire)
            x == Without(tags, n, Len(input_buffer) + 1)
        IN /\ Placing(outgoing, input_buffer, Tail(wire), x)
           /\ Complete(outgoing, tags, n) => Complete(outgoing, x, Len(input_buffer) + Len(Tail(wire)))
           /\ Fewer(x, Len(input_buffer) + Len(Tail(wire)), tags, n)
    BY ONLY <1>0, <1>1, RemoveTags
  <2>. QED  BY <2>1
<1>3. /\ Placing(outgoing', input_buffer', wire', less) /\ Complete(outgoing', less, Flying')
      /\ Fewer(less, Flying', tags, Flying)
  BY <1>0, <1>1, <1>2 DEF Flying
<1>4. InFrame(less)' /\ Handling
  BY <1>1 DEF InFrame, Handling
<1>. PICK c : c <=> Coming(tags)
  OBVIOUS
<1>5. repeated \/ Dialogue(c)'
  <2>1. c => Coming(tags)
    OBVIOUS
  <2>2. repeated \/ Dialogue(c)
    BY <1>0, <2>1, DialogueLess
  <2>. QED  BY <1>1, <1>4, <2>2, ReplySaid
<1>. QED  BY <1>1, <1>3, <1>4, <1>5, FewerStream

\* What the client adds is of its last packet, and comes last.
LEMMA AddsStream ==
  ASSUME TypeOK, NEW tags, Good(tags), NEW more, InFrame(more)',
         Ordering(outgoing', delivered', tags, Flying),
         outgoing' \in Seq(Payloads), Flying \in Nat, Flying' \in Nat,
         Placing(outgoing', input_buffer', wire', more), Complete(outgoing', more, Flying'),
         Adds(outgoing', tags, Flying, more, Flying'),
         \/ repeated'
         \/ ~Coming(tags) /\ \A c : Dialogue(c)'
         \/ /\ \A k \in (Flying + 1)..Flying' : more[k].from # 1
            /\ Fresh(outgoing', tags, Flying) /\ \E c : Dialogue(c)' /\ (Coming(tags) => c)
  PROVE  StreamOK'
<1>1. Ordering(outgoing', delivered', more, Flying')
  BY AddsKeep
<1>2. CASE repeated'
  BY <1>1, <1>2, StreamShown
<1>3. CASE ~Coming(tags) /\ \A c : Dialogue(c)'
  <2>1. Fresh(outgoing', more, Flying')
    BY <1>3, AddsKeep DEF Coming
  <2>2. PICK c : c = TRUE
    OBVIOUS
  <2>3. \E d : Dialogue(d)' /\ (Coming(more)' => d)
    BY <1>3, <2>2
  <2>. QED  BY <1>1, <2>1, <2>3, StreamShown
<1>4. CASE /\ \A k \in (Flying + 1)..Flying' : more[k].from # 1
           /\ Fresh(outgoing', tags, Flying) /\ \E c : Dialogue(c)' /\ (Coming(tags) => c)
  <2>1. Begin(more, Flying') = Begin(tags, Flying) /\ Fresh(outgoing', more, Flying')
    BY <1>4, AddsKeep
  <2>2. Coming(more)' => Coming(tags)
    BY <2>1 DEF Coming
  <2>. QED  BY <1>1, <1>4, <2>1, <2>2, StreamShown
<1>. QED  BY <1>2, <1>3, <1>4

\* A frame is read as before while pieces come on the wire.
LEMMA AddsFrame ==
  ASSUME TypeOK, NEW tags, Good(tags), NEW more, NEW m, Adds(outgoing', tags, Flying, more, m),
         UNCHANGED <<stream, server>>,
         \A i \in 1..Len(outgoing) : outgoing'[i] = outgoing[i]
  PROVE  InFrame(more)'
<1>1. /\ input_buffer \in Seq(Bytes) /\ Len(input_buffer) \in Nat /\ Len(wire) \in Nat
      /\ Flying = Len(input_buffer) + Len(wire)
      /\ InFrame(tags) /\ Tagged(tags)
  BY GoodParts
<1>2. \A j \in 1..Len(input_buffer) : more[j] = tags[j]
  <2>1. \A j \in 1..Len(input_buffer) : j \in 1..Flying
    BY <1>1
  <2>. QED  BY <2>1 DEF Adds
<1>3. server \in FrameStates => outgoing'[tags[1].of] = outgoing[tags[1].of]
  BY <1>1, FramePacket
<1>. QED  BY <1>1, <1>2, <1>3, FrameKept

\* Send: the frame is on the wire, whole or in two pieces.
LEMMA SentPieces ==
  ASSUME NEW frame, Send(frame)
  PROVE  \/ wire' = Append(wire, frame)
         \/ \E c \in 1..(Len(frame) - 1) :
              wire' = wire \o <<SubSeq(frame, 1, c), SubSeq(frame, c + 1, Len(frame))>>
BY Zenon DEF Send

LEMMA FlyingNat ==
  ASSUME TypeOK
  PROVE  Flying \in Nat
<1>1. input_buffer \in Seq(Bytes) /\ wire \in Seq(Seq(Bytes))
  BY TypeParts DEF StreamTypes
<1>2. Len(input_buffer) \in Nat /\ Len(wire) \in Nat
  BY <1>1, LenIsNat
<1>. QED  BY <1>2 DEF Flying

LEMMA FlyingNatNext ==
  ASSUME TypeOK'
  PROVE  Flying' \in Nat
<1>1. input_buffer' \in Seq(Bytes) /\ wire' \in Seq(Seq(Bytes))
  BY Zenon DEF TypeOK, Bytes
<1>2. Len(input_buffer') \in Nat /\ Len(wire') \in Nat
  BY <1>1, LenIsNat
<1>. QED  BY <1>2 DEF Flying

\* The next packet.
LEMMA PacketStep ==
  ASSUME TypeOK, TypeOK', NEW tags, Good(tags), SendPacket
  PROVE  StreamOK'
<1>0. /\ input_buffer \in Seq(Bytes) /\ wire \in Seq(Seq(Bytes)) /\ outgoing \in Seq(Payloads)
      /\ Flying = Len(input_buffer) + Len(wire)
      /\ Placing(outgoing, input_buffer, wire, tags) /\ Complete(outgoing, tags, Flying)
      /\ Ordering(outgoing, delivered, tags, Flying)
      /\ repeated \/ Dialogue(Coming(tags))
  BY GoodParts
<1>1. PICK p \in Payloads : outgoing' = Append(outgoing, p) /\ Send(Frame(p))
  BY Zenon DEF SendPacket
<1>2. /\ client = "ready" /\ client' # "ready"
      /\ UNCHANGED <<input_buffer, delivered, repeated, answered, answers, stream, server>>
  BY DEF SendPacket, stream, history
<1>3. /\ outgoing' \in Seq(Payloads) /\ Len(outgoing') = Len(outgoing) + 1
      /\ Len(outgoing) \in Nat /\ outgoing' # <<>>
      /\ \A i \in 1..Len(outgoing) : outgoing'[i] = outgoing[i]
      /\ outgoing'[Len(outgoing')] = p
  BY <1>0, <1>1, LenIsNat, AppendProperties
<1>4. /\ Placing(outgoing', input_buffer, wire, tags)
      /\ Complete(outgoing', tags, Len(input_buffer) + Len(wire))
  <2>1. Complete(outgoing, tags, Len(input_buffer) + Len(wire)) /\ p \in Payloads
    BY <1>0
  <2>2. /\ Placing(Append(outgoing, p), input_buffer, wire, tags)
        /\ Complete(Append(outgoing, p), tags, Len(input_buffer) + Len(wire))
    BY ONLY <1>0, <2>1, MorePackets
  <2>. QED  BY <1>1, <2>2
<1>5. Ordering(outgoing', delivered', tags, Flying)
  BY <1>0, <1>1, <1>2, OrderMore
<1>6. PICK more : /\ Placing(outgoing', input_buffer', wire', more)
                  /\ Complete(outgoing', more, Flying') /\ Adds(outgoing', tags, Flying, more, Flying')
  <2>1. LET frame == Frame(outgoing'[Len(outgoing')])
        IN \/ wire' = Append(wire, frame)
           \/ \E c \in 1..(Len(frame) - 1) :
                wire' = wire \o <<SubSeq(frame, 1, c), SubSeq(frame, c + 1, Len(frame))>>
    BY <1>1, <1>3, SentPieces
  <2>2. LET n == Len(input_buffer) + Len(wire)
            m == Len(input_buffer) + Len(wire')
        IN \E more : /\ Placing(outgoing', input_buffer, wire', more)
                     /\ Complete(outgoing', more, m) /\ Adds(outgoing', tags, n, more, m)
    BY ONLY <1>0, <1>3, <1>4, <2>1, FrameTags
  <2>. QED  BY <1>0, <1>2, <2>2 DEF Flying
<1>7. InFrame(more)'
  BY <1>2, <1>3, <1>6, AddsFrame
<1>8. repeated' \/ (~Coming(tags) /\ \A c : Dialogue(c)')
  <2>. PICK c : c <=> Coming(tags)
    OBVIOUS
  <2>1. c => Coming(tags)
    OBVIOUS
  <2>2. repeated \/ Dialogue(c)
    BY <1>0, <2>1, DialogueLess
  <2>3. repeated \/ (~c /\ \A d : Dialogue(d)')
    BY <1>1, <1>2, <2>2, PacketSent
  <2>. QED  BY <1>2, <2>3
<1>9. Flying \in Nat /\ Flying' \in Nat
  BY FlyingNat, FlyingNatNext
<1>. QED  BY <1>3, <1>5, <1>6, <1>7, <1>8, <1>9, AddsStream

\* The client sends a break.
LEMMA BreakSent ==
  ASSUME TypeOK, TypeOK', NEW tags, Good(tags), SendBreak
  PROVE  StreamOK'
<1>0. /\ input_buffer \in Seq(Bytes) /\ wire \in Seq(Seq(Bytes)) /\ outgoing \in Seq(Payloads)
      /\ Flying = Len(input_buffer) + Len(wire)
      /\ Placing(outgoing, input_buffer, wire, tags)
      /\ Complete(outgoing, tags, Len(input_buffer) + Len(wire))
      /\ Ordering(outgoing, delivered, tags, Flying)
      /\ repeated \/ (Fresh(outgoing, tags, Flying) /\ Dialogue(Coming(tags)))
  BY GoodParts
<1>1. /\ wire' = Append(wire, <<BREAK>>)
      /\ UNCHANGED <<input_buffer, outgoing, delivered, repeated, answered, answers, client,
                     stream, server>>
  BY DEF SendBreak, stream, history
<1>2. PICK more : /\ Placing(outgoing, input_buffer, wire', more) /\ Complete(outgoing, more, Flying')
                  /\ Adds(outgoing, tags, Flying, more, Flying')
                  /\ \A k \in (Flying + 1)..Flying' : more[k].from # 1
  <2>1. BREAK \in {BREAK, PLUS}
    OBVIOUS
  <2>2. LET n == Len(input_buffer) + Len(wire)
            m == Len(input_buffer) + Len(Append(wire, <<BREAK>>))
        IN \E more : /\ Placing(outgoing, input_buffer, Append(wire, <<BREAK>>), more)
                     /\ Complete(outgoing, more, m) /\ Adds(outgoing, tags, n, more, m)
                     /\ \A k \in (n + 1)..m : more[k].from # 1
    BY ONLY <1>0, <2>1, SignTags
  <2>. QED  BY <1>0, <1>1, <2>2 DEF Flying
<1>3. outgoing' = outgoing
  BY <1>1
<1>4. InFrame(more)'
  <2>1. Adds(outgoing', tags, Flying, more, Flying')
    BY <1>2, <1>3
  <2>2. \A i \in 1..Len(outgoing) : outgoing'[i] = outgoing[i]
    BY <1>3
  <2>. QED  BY <1>1, <2>1, <2>2, AddsFrame
<1>5. repeated' \/ (Fresh(outgoing', tags, Flying) /\ \E c : Dialogue(c)' /\ (Coming(tags) => c))
  <2>. PICK c : c <=> Coming(tags)
    OBVIOUS
  <2>1. c => Coming(tags)
    OBVIOUS
  <2>2. repeated \/ Dialogue(c)
    BY <1>0, <2>1, DialogueLess
  <2>3. Handling' => Handling
    BY <1>1 DEF Handling
  <2>4. repeated \/ Dialogue(c)'
    BY <1>1, <2>2, <2>3, NothingSaid
  <2>. QED  BY <1>0, <1>1, <2>4
<1>6. Flying \in Nat /\ Flying' \in Nat
  BY FlyingNat, FlyingNatNext
<1>7. /\ Ordering(outgoing', delivered', tags, Flying) /\ outgoing' \in Seq(Payloads)
      /\ Placing(outgoing', input_buffer', wire', more) /\ Complete(outgoing', more, Flying')
      /\ Adds(outgoing', tags, Flying, more, Flying')
  BY <1>0, <1>1, <1>2
<1>. QED  BY <1>2, <1>4, <1>5, <1>6, <1>7, AddsStream

\* The client reads an answer.
LEMMA ReceiveStep ==
  ASSUME TypeOK, TypeOK', Asked, NEW tags, Good(tags), Receive
  PROVE  StreamOK'
<1>0. /\ input_buffer \in Seq(Bytes) /\ wire \in Seq(Seq(Bytes)) /\ outgoing \in Seq(Payloads)
      /\ Flying = Len(input_buffer) + Len(wire)
      /\ Placing(outgoing, input_buffer, wire, tags)
      /\ Complete(outgoing, tags, Len(input_buffer) + Len(wire))
      /\ Ordering(outgoing, delivered, tags, Flying) /\ InFrame(tags)
      /\ repeated \/ (Fresh(outgoing, tags, Flying) /\ Dialogue(Coming(tags)))
  BY GoodParts
<1>1. /\ client \in {"ack", "reply"} /\ answers # <<>> /\ answers' = Tail(answers)
      /\ UNCHANGED <<input_buffer, outgoing, delivered, stream, server>>
  BY DEF Receive, stream
<1>2. \/ /\ client' \in {"ack", "reply"}
         /\ UNCHANGED <<wire, repeated, answered>>
      \/ /\ Send(Frame(Last(outgoing))) /\ repeated' = TRUE
         /\ UNCHANGED <<client, answered>>
      \/ /\ Head(answers).text = "reply" /\ client' = "ready"
         /\ answered' = Append(answered, Head(answers).of)
         /\ wire' = IF should_ack THEN Append(wire, <<PLUS>>) ELSE wire
         /\ UNCHANGED repeated
  <2>1. \/ client' = "reply" /\ UNCHANGED <<wire, tears, repeated, answered>>
        \/ Send(Frame(Last(outgoing))) /\ repeated' = TRUE /\ UNCHANGED <<client, answered>>
        \/ /\ Head(answers).text = "reply" /\ client' = "ready"
           /\ answered' = Append(answered, Head(answers).of)
           /\ wire' = IF should_ack THEN Append(wire, <<PLUS>>) ELSE wire
           /\ UNCHANGED <<tears, repeated>>
        \/ UNCHANGED <<wire, tears, client, repeated, answered>>
    BY Zenon DEF Receive
  <2>. QED  BY <1>1, <2>1
<1>. PICK c : c <=> Coming(tags)
  OBVIOUS
<1>3. repeated \/ Dialogue(c)
  <2>1. c => Coming(tags)
    OBVIOUS
  <2>. QED  BY <1>0, <2>1, DialogueLess
<1>4. InFrame(tags)'
  <2>1. \A j \in 1..Len(input_buffer) : tags[j] = tags[j]
    OBVIOUS
  <2>2. server \in FrameStates => outgoing'[tags[1].of] = outgoing[tags[1].of]
    BY <1>1
  <2>. QED  BY <1>0, <1>1, <2>1, <2>2, FrameKept
<1>5. outgoing' = outgoing /\ outgoing' \in Seq(Payloads) /\ Flying \in Nat /\ Flying' \in Nat
  BY <1>0, <1>1, FlyingNat, FlyingNatNext
<1>6. CASE client' \in {"ack", "reply"} /\ UNCHANGED <<wire, repeated, answered>>
  <2>1. repeated \/ Dialogue(c)'
    BY <1>1, <1>3, <1>6, AnswerSkipped
  <2>. QED  BY <1>1, <1>4, <1>6, <2>1, SameStream
<1>7. CASE /\ Send(Frame(Last(outgoing))) /\ repeated' = TRUE
           /\ UNCHANGED <<client, answered>>
  <2>1. outgoing # <<>> /\ Last(outgoing) = outgoing[Len(outgoing)]
    BY <1>1 DEF Asked, Last
  <2>2. PICK more : /\ Placing(outgoing, input_buffer, wire', more)
                    /\ Complete(outgoing, more, Flying') /\ Adds(outgoing, tags, Flying, more, Flying')
    <3>1. LET frame == Frame(outgoing[Len(outgoing)])
          IN \/ wire' = Append(wire, frame)
             \/ \E d \in 1..(Len(frame) - 1) :
                  wire' = wire \o <<SubSeq(frame, 1, d), SubSeq(frame, d + 1, Len(frame))>>
      BY <1>7, <2>1, SentPieces
    <3>2. LET n == Len(input_buffer) + Len(wire)
              m == Len(input_buffer) + Len(wire')
          IN \E more : /\ Placing(outgoing, input_buffer, wire', more)
                       /\ Complete(outgoing, more, m) /\ Adds(outgoing, tags, n, more, m)
      BY ONLY <1>0, <2>1, <3>1, FrameTags
    <3>. QED  BY <1>0, <1>1, <3>2 DEF Flying
  <2>3. InFrame(more)'
    <3>1. Adds(outgoing', tags, Flying, more, Flying')
      BY <1>5, <2>2
    <3>. QED  BY <1>1, <3>1, AddsFrame
  <2>4. /\ Ordering(outgoing', delivered', tags, Flying) /\ repeated'
        /\ Placing(outgoing', input_buffer', wire', more) /\ Complete(outgoing', more, Flying')
        /\ Adds(outgoing', tags, Flying, more, Flying')
    BY <1>0, <1>1, <1>7, <2>2
  <2>. QED  BY <1>5, <2>3, <2>4, AddsStream
<1>8. CASE /\ Head(answers).text = "reply" /\ client' = "ready"
           /\ answered' = Append(answered, Head(answers).of)
           /\ wire' = IF should_ack THEN Append(wire, <<PLUS>>) ELSE wire
           /\ UNCHANGED repeated
  <2>1. repeated \/ Dialogue(c)'
    BY <1>1, <1>3, <1>8, ReplyTaken
  <2>2. CASE wire' = wire
    BY <1>1, <1>4, <1>8, <2>1, <2>2, SameStream
  <2>3. CASE wire' = Append(wire, <<PLUS>>)
    <3>1. PICK more : /\ Placing(outgoing, input_buffer, wire', more)
                      /\ Complete(outgoing, more, Flying') /\ Adds(outgoing, tags, Flying, more, Flying')
                      /\ \A k \in (Flying + 1)..Flying' : more[k].from # 1
      <4>1. PLUS \in {BREAK, PLUS}
        OBVIOUS
      <4>2. LET n == Len(input_buffer) + Len(wire)
                m == Len(input_buffer) + Len(Append(wire, <<PLUS>>))
            IN \E more : /\ Placing(outgoing, input_buffer, Append(wire, <<PLUS>>), more)
                         /\ Complete(outgoing, more, m) /\ Adds(outgoing, tags, n, more, m)
                         /\ \A k \in (n + 1)..m : more[k].from # 1
        BY ONLY <1>0, <4>1, SignTags
      <4>. QED  BY <1>0, <1>1, <2>3, <4>2 DEF Flying
    <3>2. InFrame(more)'
      <4>1. Adds(outgoing', tags, Flying, more, Flying')
        BY <1>5, <3>1
      <4>. QED  BY <1>1, <4>1, AddsFrame
    <3>3. /\ Ordering(outgoing', delivered', tags, Flying)
          /\ Placing(outgoing', input_buffer', wire', more) /\ Complete(outgoing', more, Flying')
          /\ Adds(outgoing', tags, Flying, more, Flying')
      BY <1>0, <1>1, <3>1
    <3>4. repeated' \/ (Fresh(outgoing', tags, Flying) /\ \E d : Dialogue(d)' /\ (Coming(tags) => d))
      BY <1>0, <1>1, <1>8, <2>1
    <3>. QED  BY <1>5, <3>1, <3>2, <3>3, <3>4, AddsStream
  <2>. QED  BY <1>8, <2>2, <2>3
<1>. QED  BY <1>2, <1>6, <1>7, <1>8
---------------------------------------------------------------------------
(* The theorems.                                                           *)

StreamInv == TypeOK /\ Asked /\ AtStart /\ StreamOK

LEMMA StreamInit ==
  ASSUME Init
  PROVE  StreamInv
<1>1. TypeOK /\ Asked /\ AtStart
  BY TypeInit DEF Init, Asked, AtStart
<1>2. /\ input_buffer = <<>> /\ wire = <<>> /\ outgoing = <<>> /\ delivered = <<>>
      /\ answered = <<>> /\ answers = <<>> /\ client = "ready" /\ server = "read"
  BY DEF Init
<1>3. /\ Flying = 0 /\ Len(input_buffer) = 0 /\ Len(wire) = 0
      /\ Len(delivered) = 0 /\ Len(outgoing) = 0 /\ Len(answered) = 0 /\ Len(answers) = 0
  BY <1>2 DEF Flying
<1>. PICK tags : tags = [k \in 1..0 |-> [of |-> 0, from |-> 0, to |-> 0]]
  OBVIOUS
<1>4. tags \in [1..Flying -> Tags] /\ 1..0 = {}
  BY <1>3
<1>5. Tagged(tags)
  <2>1. Linked(outgoing, tags, 0)
    BY DEF Linked
  <2>. QED  BY <1>3, <1>4, <2>1 DEF Tagged, Placing, Complete
<1>6. Ordered(tags)
  <2>. PICK f : f = [i \in 1..0 |-> 0]
    OBVIOUS
  <2>1. f \in [1..0 -> 1..0]
    OBVIOUS
  <2>2. 1..(0 - 1) = {}
    OBVIOUS
  <2>. QED  BY <1>3, <1>4, <2>1, <2>2 DEF Ordered, Ordering
<1>7. InFrame(tags)
  BY <1>2 DEF InFrame
<1>8. Begin(tags, Flying) = {}
  BY <1>3 DEF Begin
<1>9. Fresh(outgoing, tags, Flying)
  BY <1>8 DEF Fresh, Alone
<1>10. Dialogue(Begin(tags, Flying) # {})
  <2>1. Replies = {}
    BY <1>3 DEF Replies
  <2>2. ~Handling
    BY <1>2 DEF Handling
  <2>. QED  BY <1>2, <1>3, <1>8, <2>1, <2>2 DEF Dialogue
<1>. QED  BY <1>1, <1>4, <1>5, <1>6, <1>7, <1>9, <1>10 DEF StreamInv, StreamOK, Good, Answering

\* Between two messages the position is at the start of the buffer.
LEMMA AtStartNext ==
  ASSUME AtStart, [Next]_vars
  PROVE  AtStart'
<1>1. CASE Refill \/ EndOfStream \/ ReadAck \/ Discard
  BY <1>1 DEF Refill, EndOfStream, ReadAck, Discard, stream, AtStart
<1>2. CASE ReadStart
  BY <1>2 DEF ReadStart, AtStart
<1>3. CASE ReadBody
  BY <1>3 DEF ReadBody, AtStart
<1>4. CASE ReadDigit1 \/ ReadDigit2
  BY <1>4 DEF ReadDigit1, ReadDigit2, AtStart
<1>5. CASE Handle \/ SeeBreak \/ CoreStops
  BY <1>5 DEF Handle, SeeBreak, CoreStops, StopWatching, stream, AtStart
<1>6. CASE SendPacket \/ SendBreak \/ Receive \/ Close \/ UNCHANGED vars
  <2>1. server' = server /\ position' = position
    BY <1>6 DEF SendPacket, SendBreak, Receive, Close, vars, stream
  <2>. QED  BY <2>1 DEF AtStart
<1>. QED  BY <1>1, <1>2, <1>3, <1>4, <1>5, <1>6 DEF Next, ReadStep

LEMMA StreamSame ==
  ASSUME StreamOK, UNCHANGED vars
  PROVE  StreamOK'
<1>1. UNCHANGED <<input_buffer, wire, outgoing, delivered, answered, answers, client, server,
                  position, next_message, should_escape, torn, repeated>>
  BY DEF vars, network, stream, bounds, history
<1>2. CASE torn
  BY <1>1, <1>2 DEF StreamOK
<1>3. CASE ~torn
  <2>1. PICK tags \in [1..Flying -> Tags] : Good(tags)
    BY <1>3 DEF StreamOK
  <2>2. InFrame(tags)'
    BY <1>1, <2>1 DEF Good, InFrame, Parsed
  <2>. PICK c : c <=> Coming(tags)
    OBVIOUS
  <2>3. repeated \/ Dialogue(c)
    BY <2>1, DialogueLess DEF Good, Answering, Coming
  <2>4. Handling' => Handling
    BY <1>1 DEF Handling
  <2>5. repeated \/ Dialogue(c)'
    BY <1>1, <2>3, <2>4, NothingSaid
  <2>. QED  BY <1>1, <2>1, <2>2, <2>5, SameStream
<1>. QED  BY <1>2, <1>3

LEMMA StreamNext ==
  ASSUME StreamInv, [Next]_vars
  PROVE  StreamInv'
<1>1. TypeOK' /\ Asked' /\ AtStart'
  BY TypeNext, AskedNext, AtStartNext DEF StreamInv
<1>. SUFFICES StreamOK'
  BY <1>1 DEF StreamInv
<1>2. CASE torn
  <2>1. torn'
    BY <1>2 DEF Next, ReadStep, Refill, EndOfStream, ReadAck, ReadStart, Discard, ReadBody,
                ReadDigit1, ReadDigit2, Handle, SeeBreak, CoreStops, StopWatching, SendPacket,
                SendBreak, Receive, Close, history, vars
  <2>. QED  BY <2>1 DEF StreamOK
<1>3. CASE ~torn /\ Next
  <2>1. PICK tags : Good(tags)
    BY <1>3 DEF StreamInv, StreamOK
  <2>2. TypeOK /\ Asked /\ AtStart
    BY DEF StreamInv
  <2>3. CASE EndOfStream \/ ReadStart \/ ReadBody \/ ReadDigit1 \/ Handle \/ CoreStops \/ Close
    BY <2>1, <2>2, <2>3, QuietSteps
  <2>4. CASE Refill
    BY <2>1, <2>2, <2>4, RefillStep
  <2>5. CASE ReadAck \/ Discard
    BY <2>1, <2>2, <2>5, AckAndDiscard
  <2>6. CASE ReadDigit2
    BY <2>1, <2>2, <2>6, Digit2Step
  <2>7. CASE SeeBreak
    BY <2>1, <2>2, <2>7, BreakStep
  <2>8. CASE SendPacket
    BY <1>1, <2>1, <2>2, <2>8, PacketStep
  <2>9. CASE SendBreak
    BY <1>1, <2>1, <2>2, <2>9, BreakSent
  <2>10. CASE Receive
    BY <1>1, <2>1, <2>2, <2>10, ReceiveStep
  <2>. QED
    BY <1>3, <2>3, <2>4, <2>5, <2>6, <2>7, <2>8, <2>9, <2>10 DEF Next, ReadStep
<1>4. CASE UNCHANGED vars
  BY <1>4, StreamSame DEF StreamInv
<1>. QED  BY <1>2, <1>3, <1>4

LEMMA StreamHolds == Spec => []StreamInv
<1>1. Init => StreamInv
  BY StreamInit
<1>2. StreamInv /\ [Next]_vars => StreamInv'
  BY StreamNext
<1>. QED  BY <1>1, <1>2, PTL DEF Spec

\* Whatever acknowledgments, breaks and packets sent again lie between them, the
\* messages handed over are packets of the client in the order it sent them
\* (gdb_communication.py 146-217), unless a packet was read in two pieces.
THEOREM MessagesInOrder == Spec => []InOrder
<1>1. StreamInv => InOrder
  <2>. SUFFICES ASSUME StreamInv, ~torn PROVE InOrder
    BY DEF InOrder
  <2>1. PICK tags : Ordering(outgoing, delivered, tags, Flying)
    BY DEF StreamInv, StreamOK, Good, Ordered
  <2>. QED  BY <2>1 DEF Ordering, InOrder
<1>. QED  BY <1>1, StreamHolds, PTL

\* The reply a client takes for that of its n-th packet was sent for a message
\* equal to that packet (gdb_server.py 194-211), unless it sent a packet again
\* or one was read in two pieces.
THEOREM AnswersAreMatched == Spec => []AnswersMatch
<1>1. StreamInv => AnswersMatch
  <2>. SUFFICES ASSUME StreamInv, ~torn, ~repeated PROVE AnswersMatch
    BY DEF AnswersMatch
  <2>1. PICK tags : Dialogue(Begin(tags, Flying) # {})
    BY DEF StreamInv, StreamOK, Good, Answering
  <2>2. \A i \in 1..Len(answered) :
          answered[i] \in 1..Len(delivered) /\ delivered[answered[i]] = outgoing[i]
    BY <2>1 DEF Dialogue
  <2>3. DOMAIN delivered = 1..Len(delivered)
    <3>1. delivered \in Seq(Seq(Bytes))
      BY TypeParts DEF StreamInv, HistoryTypes
    <3>. QED  BY <3>1
  <2>. QED  BY <2>2, <2>3 DEF AnswersMatch
<1>. QED  BY <1>1, StreamHolds, PTL
=============================================================================
