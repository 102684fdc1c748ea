----------------------------- MODULE GdbPackets -----------------------------
(***************************************************************************)
(* The GDB packet layer: GdbInputStream.read (gdb/gdb_communication.py)    *)
(* over a stream of bytes that arrives in pieces, the message loop of      *)
(* process_client and the break of vCont's watch loop (gdb/gdb_server.py), *)
(* and a client that frames, acknowledges and retransmits as GDB does.     *)
(*                                                                         *)
(* The client is external: it sends the next packet after the reply to the *)
(* last one, sends a packet again on "-" while acknowledgments are on, and *)
(* skips what it does not expect.  TCP neither loses nor reorders bytes,   *)
(* but a read returns any number of the pieces that were sent.             *)
(***************************************************************************)
EXTENDS Integers, Sequences, SequencesExt

CONSTANTS
  Payloads,     \* messages of the client, sequences of bytes
  Resume,       \* the payload that resumes cores: its reply waits for a stop
  AckModes,     \* values of should_ack: FALSE after QStartNoAckMode
  MaxPackets,   \* bound on packets of the client
  MaxBreaks,    \* bound on breaks it sends
  MaxTears,     \* bound on packets the network delivers in two pieces
  MaxErrors     \* bound on requests that raise

\* A payload is bytes; the bounds are numbers.
ASSUME PacketsAssumption ==
  /\ Payloads \subseteq Seq(0 .. 255) /\ AckModes \subseteq BOOLEAN
  /\ MaxPackets \in Nat /\ MaxBreaks \in Nat /\ MaxTears \in Nat /\ MaxErrors \in Nat

VARIABLES
  should_ack,   \* of the session
  wire,         \* pieces sent to the server and not yet read
  input_buffer, position, next_message, should_escape, checksum,
  first_digit,  \* the first checksum digit was none that is wrong
  server,       \* where the server thread is
  answers,      \* what was sent to the client and not yet read
  client,       \* "ready", "ack" or "reply" for what it waits for, "closed"
  outgoing,     \* packets of the client, in the order it first sent them
  breaks, tears, errors,
  \* history, read by the properties only
  delivered,    \* messages handed to process_message
  answered,     \* for each packet, the delivery whose reply the client took
  torn,         \* a packet was read in two pieces
  repeated,     \* the client sent a packet again
  stray         \* a break reached the start of a message

stream == <<input_buffer, position, next_message, should_escape, checksum, first_digit>>
network == <<wire, answers>>
bounds == <<breaks, tears, errors>>
history == <<delivered, answered, torn, repeated, stray>>
vars == <<should_ack, network, stream, server, client, outgoing, bounds, history>>
---------------------------------------------------------------------------
(* Bytes and frames.                                                       *)

BREAK == 3
HASH == 35
DOLLAR == 36
STAR == 42
PLUS == 43
MINUS == 45
ESCAPE == 125

\* char ^ 0x20
Flip(char) == IF (char \div 32) % 2 = 1 THEN char - 32 ELSE char + 32

Total(bytes) ==
  LET sum[i \in 0 .. Len(bytes)] == IF i = 0 THEN 0 ELSE sum[i - 1] + bytes[i]
  IN sum[Len(bytes)]
HexDigit(n) == IF n < 10 THEN 48 + n ELSE 87 + n

\* How the client frames a payload.
Escaped(payload) ==
  FlattenSeq([i \in 1 .. Len(payload) |->
    IF payload[i] \in {HASH, DOLLAR, STAR, ESCAPE}
    THEN <<ESCAPE, Flip(payload[i])>> ELSE <<payload[i]>>])
Frame(payload) ==
  LET body == Escaped(payload)
      sum == Total(body) % 256
  IN <<DOLLAR>> \o body \o <<HASH, HexDigit(sum \div 16), HexDigit(sum % 16)>>

Byte == input_buffer[position + 1]
Available == position < Len(input_buffer)
---------------------------------------------------------------------------
Init ==
  /\ should_ack \in AckModes
  /\ wire = <<>> /\ answers = <<>>
  /\ input_buffer = <<>> /\ position = 0 /\ next_message = <<>>
  /\ should_escape = FALSE /\ checksum = 0 /\ first_digit = TRUE
  /\ server = "read"
  /\ client = "ready" /\ outgoing = <<>>
  /\ breaks = 0 /\ tears = 0 /\ errors = 0
  /\ delivered = <<>> /\ answered = <<>>
  /\ torn = FALSE /\ repeated = FALSE /\ stray = FALSE
---------------------------------------------------------------------------
(* GdbInputStream.                                                         *)

Reading == {"read", "body", "digit1", "digit2"}

\* ensure_input_buffer: a read replaces the buffer and keeps the position.  A
\* position past the new bytes is an IndexError, which ends the session.
Refill ==
  /\ server \in Reading /\ ~Available /\ wire # <<>>
  /\ \E n \in 1 .. Len(wire) :
       LET bytes == FlattenSeq(SubSeq(wire, 1, n)) IN
       /\ input_buffer' = bytes
       /\ wire' = SubSeq(wire, n + 1, Len(wire))
       /\ server' = IF position < Len(bytes) THEN server ELSE "closed"
  /\ torn' = (torn \/ position > 0)
  /\ UNCHANGED <<should_ack, answers, position, next_message, should_escape, checksum,
                 first_digit, client, outgoing, bounds, delivered, answered, repeated,
                 stray>>

\* The client has closed the connection: read returns None.
EndOfStream ==
  /\ server \in Reading /\ ~Available /\ wire = <<>> /\ client = "closed"
  /\ server' = "closed"
  /\ UNCHANGED <<should_ack, network, stream, client, outgoing, bounds, history>>

\* Mutant of AfterAck: the buffer is dropped with the acknowledgment.
AfterAckNothing == <<>>

\* What is left of the buffer after an acknowledgment.
AfterAck == Tail(input_buffer)

\* An acknowledgment is a message of its own, which process_message ignores.
ReadAck ==
  /\ server = "read" /\ Available /\ input_buffer[1] \in {PLUS, MINUS}
  /\ input_buffer' = AfterAck
  /\ UNCHANGED <<should_ack, network, position, next_message, should_escape, checksum,
                 first_digit, server, client, outgoing, bounds, history>>

ReadStart ==
  /\ server = "read" /\ Available /\ input_buffer[1] = DOLLAR
  /\ next_message' = <<>> /\ position' = 1 /\ checksum' = 0 /\ should_escape' = FALSE
  /\ server' = "body"
  /\ UNCHANGED <<should_ack, network, input_buffer, first_digit, client, outgoing,
                 bounds, history>>

\* Mutant of Error: what is not understood is answered like a message.
EmptyReply == [text |-> "reply", of |-> 0]

Error == [text |-> "-", of |-> 0]

\* Any other byte is answered with an error, and the whole buffer goes.
Discard ==
  /\ server = "read" /\ Available /\ input_buffer[1] \notin {PLUS, MINUS, DOLLAR}
  /\ answers' = Append(answers, Error)
  /\ input_buffer' = <<>>
  /\ stray' = TRUE
  /\ UNCHANGED <<should_ack, wire, position, next_message, should_escape, checksum,
                 first_digit, server, client, outgoing, bounds, delivered, answered,
                 torn, repeated>>

\* Mutant of Unescaped: the character is taken as it is.
UnescapedAsIs(char) == char
Unescaped(char) == Flip(char)

\* One turn of the loop that looks for the end of the message.
ReadBody ==
  /\ server = "body" /\ Available
  /\ position' = position + 1
  /\ \/ /\ should_escape
        /\ should_escape' = FALSE
        /\ next_message' = Append(next_message, Unescaped(Byte))
        /\ checksum' = checksum + Byte
        /\ UNCHANGED server
     \/ /\ ~should_escape /\ Byte = ESCAPE
        /\ should_escape' = TRUE
        /\ checksum' = checksum + Byte
        /\ UNCHANGED <<next_message, server>>
     \/ /\ ~should_escape /\ Byte = HASH
        /\ server' = "digit1"
        /\ UNCHANGED <<next_message, should_escape, checksum>>
     \/ /\ ~should_escape /\ Byte \notin {ESCAPE, STAR, HASH}
        /\ next_message' = Append(next_message, Byte)
        /\ checksum' = checksum + Byte
        /\ UNCHANGED <<should_escape, server>>
  /\ UNCHANGED <<should_ack, network, input_buffer, first_digit, client, outgoing,
                 bounds, history>>

\* The comparison is of a number below 16 with a character, and asks whether
\* they differ.
ReadDigit1 ==
  /\ server = "digit1" /\ Available
  /\ first_digit' = ((checksum % 256) \div 16 # Byte)
  /\ position' = position + 1
  /\ server' = "digit2"
  /\ UNCHANGED <<should_ack, network, input_buffer, next_message, should_escape, checksum,
                 client, outgoing, bounds, history>>

ReadDigit2 ==
  /\ server = "digit2" /\ Available
  /\ input_buffer' = SubSeq(input_buffer, position + 2, Len(input_buffer))
  /\ position' = 0
  /\ \/ /\ first_digit /\ checksum % 16 # Byte
        /\ server' = "handle"
        /\ delivered' = Append(delivered, next_message)
        /\ UNCHANGED answers
     \/ /\ ~(first_digit /\ checksum % 16 # Byte)
        /\ server' = "read"
        /\ answers' = Append(answers, Error)
        /\ UNCHANGED delivered
  /\ UNCHANGED <<should_ack, wire, next_message, should_escape, checksum, first_digit,
                 client, outgoing, bounds, answered, torn, repeated, stray>>
---------------------------------------------------------------------------
(* process_client.                                                         *)

\* The acknowledgment is sent only after the request was carried out.
Reply ==
  (IF should_ack THEN <<[text |-> "+", of |-> 0]>> ELSE <<>>)
    \o <<[text |-> "reply", of |-> Len(delivered)]>>

Handle ==
  /\ server = "handle"
  /\ \/ /\ next_message = Resume
        /\ server' = "watch"
        /\ UNCHANGED <<answers, errors>>
     \/ /\ next_message # Resume
        /\ server' = "read"
        /\ answers' = answers \o Reply
        /\ UNCHANGED errors
     \/ /\ errors < MaxErrors
        /\ errors' = errors + 1
        /\ server' = "read"
        /\ answers' = Append(answers, Error)
  /\ UNCHANGED <<should_ack, wire, stream, client, outgoing, breaks, tears, history>>

\* peek(1): only what is still in the socket is looked at.
BreakWaits == wire # <<>> /\ wire[1] = <<BREAK>>

StopWatching ==
  /\ server' = "read"
  /\ answers' = answers \o Reply
  /\ UNCHANGED <<should_ack, stream, client, outgoing, bounds, delivered, answered, torn,
                 repeated, stray>>

SeeBreak ==
  /\ server = "watch" /\ BreakWaits
  /\ wire' = Tail(wire)
  /\ StopWatching

\* A watched core stops by itself.
CoreStops ==
  /\ server = "watch"
  /\ UNCHANGED wire
  /\ StopWatching
---------------------------------------------------------------------------
(* The client.                                                             *)

Send(frame) ==
  \/ wire' = Append(wire, frame) /\ UNCHANGED tears
  \/ /\ tears < MaxTears
     /\ tears' = tears + 1
     /\ \E n \in 1 .. Len(frame) - 1 :
          wire' = wire \o <<SubSeq(frame, 1, n), SubSeq(frame, n + 1, Len(frame))>>

SendPacket ==
  /\ client = "ready" /\ Len(outgoing) < MaxPackets
  /\ \E p \in Payloads :
       /\ outgoing' = Append(outgoing, p)
       /\ Send(Frame(p))
  /\ client' = IF should_ack THEN "ack" ELSE "reply"
  /\ UNCHANGED <<should_ack, answers, stream, server, breaks, errors, history>>

SendBreak ==
  /\ client = "reply" /\ Last(outgoing) = Resume
  /\ breaks < MaxBreaks
  /\ breaks' = breaks + 1
  /\ wire' = Append(wire, <<BREAK>>)
  /\ UNCHANGED <<should_ack, answers, stream, server, client, outgoing, tears, errors,
                 history>>

Receive ==
  /\ client \in {"ack", "reply"} /\ answers # <<>>
  /\ answers' = Tail(answers)
  /\ LET a == Head(answers) IN
     \/ /\ client = "ack" /\ a.text = "+"
        /\ client' = "reply"
        /\ UNCHANGED <<wire, tears, repeated, answered>>
     \/ /\ client = "ack" /\ a.text = "-"
        /\ Send(Frame(Last(outgoing)))
        /\ repeated' = TRUE
        /\ UNCHANGED <<client, answered>>
     \/ /\ client = "reply" /\ a.text = "reply"
        /\ client' = "ready"
        /\ answered' = Append(answered, a.of)
        /\ wire' = IF should_ack THEN Append(wire, <<PLUS>>) ELSE wire
        /\ UNCHANGED <<tears, repeated>>
     \/ /\ <<client, a.text>> \in {<<"ack", "reply">>, <<"reply", "+">>, <<"reply", "-">>}
        /\ UNCHANGED <<wire, tears, client, repeated, answered>>
  /\ UNCHANGED <<should_ack, stream, server, outgoing, breaks, errors, delivered, torn,
                 stray>>

Close ==
  /\ client # "closed"
  /\ client' = "closed"
  /\ UNCHANGED <<should_ack, network, stream, server, outgoing, bounds, history>>

ReadStep ==
  \/ Refill \/ EndOfStream \/ ReadAck \/ ReadStart \/ Discard
  \/ ReadBody \/ ReadDigit1 \/ ReadDigit2

Next ==
  \/ ReadStep \/ Handle \/ SeeBreak \/ CoreStops
  \/ SendPacket \/ SendBreak \/ Receive \/ Close

Spec == Init /\ [][Next]_vars

\* The server thread runs and the client reads what it is sent; nobody has to
\* send anything, and no core has to stop.
FairSpec ==
  /\ Spec
  /\ WF_vars(ReadStep) /\ WF_vars(Handle) /\ WF_vars(SeeBreak) /\ WF_vars(Receive)
---------------------------------------------------------------------------
(* Properties.                                                             *)

TypeOK ==
  /\ should_ack \in BOOLEAN /\ first_digit \in BOOLEAN /\ should_escape \in BOOLEAN
  /\ wire \in Seq(Seq(0 .. 255)) /\ input_buffer \in Seq(0 .. 255)
  /\ next_message \in Seq(0 .. 255)
  /\ position \in Nat /\ checksum \in Nat
  /\ server \in Reading \cup {"handle", "watch", "closed"}
  /\ client \in {"ready", "ack", "reply", "closed"}
  /\ answers \in Seq([text : {"+", "-", "reply"}, of : Nat])
  /\ outgoing \in Seq(Payloads) /\ Len(outgoing) <= MaxPackets
  /\ delivered \in Seq(Seq(0 .. 255))
  /\ answered \in Seq(Nat)
  /\ breaks \in 0 .. MaxBreaks /\ tears \in 0 .. MaxTears /\ errors \in 0 .. MaxErrors

\* Messages are handed over whole and in the order the client sent them,
\* whatever acknowledgments and breaks lie between them in one buffer
\* (gdb_communication.py 146-217): without a packet in two pieces, a message
\* is that of some packet, and never of one before the last delivered.
InOrder ==
  ~torn => \E of \in [1 .. Len(delivered) -> 1 .. Len(outgoing)] :
    /\ \A i \in 1 .. Len(delivered) : delivered[i] = outgoing[of[i]]
    /\ \A i \in 1 .. Len(delivered) - 1 : of[i] <= of[i + 1]

\* A client that never sent a packet again takes the reply to each packet for
\* the reply to that packet (gdb_server.py 194-211), also when a break crossed
\* with it or a request raised.
AnswersMatch ==
  ~torn /\ ~repeated =>
    \A i \in 1 .. Len(answered) :
      answered[i] \in DOMAIN delivered /\ delivered[answered[i]] = outgoing[i]

Lost == torn \/ errors > 0 \/ (stray /\ ~should_ack)

\* Every packet is answered (gdb_server.py 194-211), unless it resumed cores,
\* as long as no packet came in pieces, no request raised and, without
\* acknowledgments, no break was discarded together with what followed it.
PacketsAnswered ==
  client \in {"ack", "reply"} ~> client \in {"ready", "closed"} \/ server = "watch" \/ Lost
=============================================================================
