--------------------------------- MODULE Framing ---------------------------------
(***************************************************************************)
(* Messages over a byte stream, one direction of one connection.  The      *)
(* sender puts the size in front of the message (SizedRDONBuffer) and      *)
(* writes it chunk by chunk; the bytes arrive in pieces of any length; the *)
(* reader takes the size, then chunks into a WRONBuffer (Connection and    *)
(* SockClient, whose reads block) or a SizedWRONBuffer (Channel, whose     *)
(* reads do not).                                                          *)
(*                                                                         *)
(* A byte is represented by its place in the stream, so that a text is     *)
(* right when it is the interval of its message; a text of bytes that are  *)
(* nobody's consists of zeros.  Where the code loses its place in the      *)
(* stream the model stops and "verdict" says why; a text handed on at that *)
(* moment counts.                                                          *)
(***************************************************************************)
EXTENDS Integers, Sequences

CONSTANTS
  HeaderSize,  \* sizeof(int)
  ChunkSize,   \* MAX_CHUNK_SIZE, MAX_BUFF_SIZE
  KB,          \* MIN_BUFFER_SIZE, and what a WRONBuffer grows by
  Word,        \* a size_t holds 0 .. Word - 1
  Room,        \* bytes the two sockets hold between writer and reader
  Sizes,       \* sizes of messages
  MaxMsgs      \* messages sent (a bound)

ASSUME FramingAssumption ==
  /\ HeaderSize \in Nat \ {0}
  /\ ChunkSize \in Nat \ {0}
  /\ KB \in Nat \ {0}
  /\ Word \in Nat
  /\ Room \in Nat \ {0}
  /\ Sizes \subseteq Nat \ {0}
  /\ \A n \in Sizes : n + ChunkSize + HeaderSize < Word
  /\ MaxMsgs \in Nat

VARIABLES
  link,     \* who writes and who reads
  msgs,     \* the messages begun: each the interval of its bytes in the stream
  snd,      \* the sender's buffer: [pos, size]
  hand,     \* bytes of its chunk not written yet
  written, arrived, taken,   \* bytes: in the socket, at the reader, read
  rd,       \* the reader: [pc, need, buf, text]
  got,      \* the texts delivered
  verdict   \* "ok", or how the stream was lost

sndVars == <<msgs, snd, hand>>
netVars == <<written, arrived, taken>>
rdVars == <<rd, got, verdict>>
vars == <<link, sndVars, netVars, rdVars>>

\* Requests go from a client to either server, replies the other way.
Links ==
  {[sender |-> "client", reader |-> "conn"], [sender |-> "conn", reader |-> "client"],
   [sender |-> "client", reader |-> "channel"], [sender |-> "channel", reader |-> "client"]}

\* Only a SockServer sends without being asked: SOCKET_CLOSED after a result.
Unasked == link.sender = "conn"

Verdicts == {"ok", "broken", "garbage", "overrun", "lost"}

\* Mutant: the result of read() is not looked at, every chunk counts as full.
LeastIgnored(m, n) == m

Least(m, n) == IF m <= n THEN m ELSE n
Interval(from, n) == [j \in 1 .. n |-> from + j]
Body(m) == Interval(m.from, m.to - m.from)

\* Bytes of no message.
Garbage(n) == [j \in 1 .. n |-> 0]

-----------------------------------------------------------------------------
(* Buffers.  None of these says what happens to the bytes, only how many    *)
(* there are and where the arrays end.                                      *)

SizedRDONBuffer(n) == [pos |-> 0, size |-> HeaderSize + n]

\* Mutant: the last chunk is one byte short.
ReadableShort(b, n) ==
  IF b.pos = b.size THEN 0
  ELSE IF b.pos + n > b.size THEN b.size - b.pos - 1
  ELSE n

\* RDONBuffer::read: how many bytes it hands out.
Readable(b, n) ==
  IF b.pos = b.size THEN 0
  ELSE IF b.pos + n > b.size THEN b.size - b.pos
  ELSE n

WRONBuffer == [pos |-> 0, size |-> KB, alloc |-> KB]

\* Mutant: the array grows by one step, whatever is to be written.
GrownOneStep(b, n) ==
  IF b.pos + n > b.size
    THEN [pos |-> b.pos + n, size |-> b.size, alloc |-> b.size + KB]
    ELSE [b EXCEPT !.pos = @ + n]

\* WRONBuffer::write.  _size stays what it was when the array grows.
Grown(b, n) ==
  IF b.pos + n > b.size
    THEN [pos |-> b.pos + n, size |-> b.size,
          alloc |-> IF b.size + KB > b.pos + n THEN b.size + KB ELSE b.pos + n]
    ELSE [b EXCEPT !.pos = @ + n]

SizedWRONBuffer(n) == [pos |-> 0, size |-> n, alloc |-> n]

\* A sum of two size_t.
Plus(m, n) == IF m + n < Word THEN m + n ELSE m + n - Word

\* SizedWRONBuffer::write: how many bytes it copies.
Accepted(b, n) ==
  IF b.pos = b.size THEN 0
  ELSE IF Plus(b.pos, n) > b.size THEN b.size - b.pos
  ELSE n

\* What a failed read returns, as a size_t.
MinusOne == Word - 1

-----------------------------------------------------------------------------
Idle == [pc |-> "size", need |-> 0, buf |-> WRONBuffer, text |-> <<>>]

\* Every variable has its type.
TypeOK ==
  /\ link \in Links
  /\ msgs \in Seq([from : Nat, to : Nat])
  /\ snd \in [pos : Nat, size : Nat]
  /\ hand \in 0 .. ChunkSize
  /\ written \in Nat /\ arrived \in 0 .. written /\ taken \in 0 .. arrived
  /\ rd \in [pc : {"size", "body"}, need : Nat,
             buf : [pos : Nat, size : Nat, alloc : Nat], text : Seq(Nat)]
  /\ got \in Seq(Seq(Nat))
  /\ verdict \in Verdicts

Init ==
  /\ link \in Links
  /\ msgs = <<>>
  /\ snd = [pos |-> 0, size |-> 0] /\ hand = 0
  /\ written = 0 /\ arrived = 0 /\ taken = 0
  /\ rd = Idle /\ got = <<>> /\ verdict = "ok"

-----------------------------------------------------------------------------
(* The sender *)

\* Mutant: the next message is sent without waiting.
BeginAnytime(n) ==
  /\ verdict = "ok" /\ Len(msgs) < MaxMsgs
  /\ hand = 0 /\ snd.pos = snd.size
  /\ msgs' = Append(msgs, [from |-> written + HeaderSize, to |-> written + HeaderSize + n])
  /\ snd' = SizedRDONBuffer(n)
  /\ UNCHANGED <<link, hand, netVars, rdVars>>

\* _send() or Channel::send() of a message of n bytes.
Begin(n) ==
  /\ verdict = "ok" /\ Len(msgs) < MaxMsgs
  /\ hand = 0 /\ snd.pos = snd.size
  /\ Unasked \/ Len(got) = Len(msgs)
  /\ msgs' = Append(msgs, [from |-> written + HeaderSize, to |-> written + HeaderSize + n])
  /\ snd' = SizedRDONBuffer(n)
  /\ UNCHANGED <<link, hand, netVars, rdVars>>

\* The next chunk.
Fill ==
  /\ verdict = "ok" /\ hand = 0 /\ snd.pos < snd.size
  /\ hand' = Readable(snd, ChunkSize)
  /\ snd' = [snd EXCEPT !.pos = @ + Readable(snd, ChunkSize)]
  /\ UNCHANGED <<link, msgs, netVars, rdVars>>

Free == Room - (written - taken)

\* A write() that blocks puts a chunk into the socket as room comes free.
WriteBlocking ==
  /\ verdict = "ok" /\ link.sender # "channel"
  /\ \E k \in 1 .. Least(hand, Free) :
       /\ written' = written + k
       /\ hand' = hand - k
  /\ UNCHANGED <<link, msgs, snd, arrived, taken, rdVars>>

\* One that does not takes what there is room for, and the Channel does not
\* look at its result: the rest of the chunk is lost.
WriteChannel ==
  /\ verdict = "ok" /\ link.sender = "channel" /\ hand > 0
  /\ IF hand <= Free
       THEN written' = written + hand /\ UNCHANGED verdict
       ELSE verdict' = "lost" /\ UNCHANGED written
  /\ hand' = 0
  /\ UNCHANGED <<link, msgs, snd, arrived, taken, rd, got>>

\* What has been written arrives, in pieces of any length.
Arrive ==
  /\ verdict = "ok"
  /\ arrived' \in arrived + 1 .. written
  /\ UNCHANGED <<link, sndVars, written, taken, rdVars>>

-----------------------------------------------------------------------------
(* The readers *)

Available == arrived - taken
Next1 == Len(got) + 1
NeedOf(i) == msgs[i].to - msgs[i].from

\* A size that has arrived in part is no size: BAD_MESSAGE, BROKEN or
\* ReadFailException.
SizeBroken ==
  /\ verdict = "ok" /\ rd.pc = "size" /\ Available \in 1 .. HeaderSize - 1
  /\ verdict' = "broken"
  /\ UNCHANGED <<link, sndVars, netVars, rd, got>>

\* Connection::_recv and SockClient::_recv read the size,
ReadSize ==
  /\ verdict = "ok" /\ link.reader # "channel"
  /\ rd.pc = "size" /\ Available >= HeaderSize
  /\ taken' = taken + HeaderSize
  /\ rd' = [Idle EXCEPT !.pc = "body", !.need = NeedOf(Next1)]
  /\ UNCHANGED <<link, sndVars, written, arrived, got, verdict>>

\* Mutant: the message ends as soon as there are enough bytes.
ReadBodyEnough ==
  /\ verdict = "ok" /\ link.reader # "channel"
  /\ rd.pc = "body" /\ Available > 0
  /\ LET n    == Least(ChunkSize, Available)
         buf  == Grown(rd.buf, n)
         text == rd.text \o Interval(taken, n)
     IN /\ taken' = taken + n
        /\ IF buf.pos >= rd.need
             THEN /\ got' = Append(got, text)
                  /\ rd' = Idle
                  /\ UNCHANGED verdict
             ELSE /\ rd' = [rd EXCEPT !.buf = buf, !.text = text]
                  /\ UNCHANGED <<verdict, got>>
  /\ UNCHANGED <<link, sndVars, written, arrived>>

\* and then chunks, until as many bytes as the size says have been counted.
\* A chunk is what there is, the next message included: if it makes the count
\* too large, the two are never equal again.
ReadBody ==
  /\ verdict = "ok" /\ link.reader # "channel"
  /\ rd.pc = "body" /\ Available > 0
  /\ LET n    == Least(ChunkSize, Available)
         buf  == Grown(rd.buf, n)
         text == rd.text \o Interval(taken, n)
     IN /\ taken' = taken + n
        /\ IF buf.pos = rd.need
             THEN /\ got' = Append(got, text)
                  /\ rd' = Idle
                  /\ UNCHANGED verdict
             ELSE /\ rd' = [rd EXCEPT !.buf = buf, !.text = text]
                  /\ verdict' = IF buf.pos > rd.need THEN "overrun" ELSE verdict
                  /\ UNCHANGED got
  /\ UNCHANGED <<link, sndVars, written, arrived>>

\* Channel::read() from where the SizedWRONBuffer is there: one read of a
\* chunk.  If nothing has arrived it returns -1, which write() takes for a
\* size: the message is filled with what the chunk happened to hold, counts as
\* read and is handed on, and its own bytes will be taken for the next.
ChannelTakes(start, need, buf, text) ==
  LET failed == arrived = start
      n      == IF failed THEN MinusOne ELSE Least(ChunkSize, arrived - start)
      k      == Accepted(buf, n)
      longer == text \o (IF failed THEN Garbage(k) ELSE Interval(start, k))
  IN /\ taken' = IF failed THEN start ELSE start + n
     /\ verdict' = IF failed THEN "garbage" ELSE IF k < n THEN "overrun" ELSE verdict
     /\ IF buf.pos + k = need
          THEN got' = Append(got, longer) /\ rd' = Idle
          ELSE /\ rd' = [pc |-> "body", need |-> need,
                         buf |-> [buf EXCEPT !.pos = @ + k], text |-> longer]
               /\ UNCHANGED got

\* The size and the first chunk are read in one call.
ChannelFirst ==
  /\ verdict = "ok" /\ link.reader = "channel"
  /\ rd.pc = "size" /\ Available >= HeaderSize
  /\ ChannelTakes(taken + HeaderSize, NeedOf(Next1), SizedWRONBuffer(NeedOf(Next1)), <<>>)
  /\ UNCHANGED <<link, sndVars, written, arrived>>

ChannelMore ==
  /\ verdict = "ok" /\ link.reader = "channel"
  /\ rd.pc = "body" /\ Available > 0
  /\ ChannelTakes(taken, rd.need, rd.buf, rd.text)
  /\ UNCHANGED <<link, sndVars, written, arrived>>

Reads == SizeBroken \/ ReadSize \/ ReadBody \/ ChannelFirst \/ ChannelMore
Writes == Fill \/ WriteBlocking \/ WriteChannel

Next == (\E n \in Sizes : Begin(n)) \/ Writes \/ Arrive \/ Reads

Spec == Init /\ [][Next]_vars

\* Writer and reader are threads, and what is written arrives.
Fairness == WF_vars(Writes) /\ WF_vars(Arrive) /\ WF_vars(Reads)

LiveSpec == Spec /\ Fairness

-----------------------------------------------------------------------------
(* Properties *)

\* Texts are delivered whole and in the order they were sent, whatever their
\* sizes, the chunks and the pieces they arrive in; a text made up by a Channel
\* that found a size alone is the only wrong one, and the last.
Queue == INSTANCE MessageQueue WITH
  sent <- [i \in DOMAIN msgs |-> Body(msgs[i])], garbled <- verdict = "garbage"

KeepsOrder == Queue!Spec

\* No buffer is written beyond its array, though WRONBuffer forgets how large
\* it has become.
BufferHolds == rd.buf.pos <= rd.buf.alloc

\* The stream is lost in four ways only: the size arrives in part; it arrives
\* without a byte of its message, at a Channel; a server writes another frame
\* before the first has been read; a Channel finds its socket full.
LostOnlyWhen ==
  /\ verdict = "broken" => taken < arrived /\ arrived < taken + HeaderSize
  /\ verdict = "garbage" =>
       link.reader = "channel" /\ taken = arrived /\ arrived = msgs[Len(got)].from
  /\ verdict = "overrun" => Unasked /\ Len(msgs) > Len(got) + 1
  /\ verdict = "lost" => link.sender = "channel" /\ Free < ChunkSize

\* A message that was begun is delivered, unless the stream is lost.
Delivered ==
  \A i \in 1 .. MaxMsgs : Len(msgs) >= i ~> Len(got) >= i \/ verdict # "ok"
=============================================================================
