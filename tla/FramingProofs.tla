------------------------------ MODULE FramingProofs ------------------------------
(***************************************************************************)
(* Theorems about Framing: the types of its variables, the bound on its    *)
(* buffers, how the stream is lost, and the refinement of MessageQueue.    *)
(***************************************************************************)
EXTENDS Framing, SequenceTheorems, TLAPS

EndOf(i) == IF i = 0 THEN 0 ELSE msgs[i].to

\* The messages fill the stream, each after its size.
Contiguous ==
  \A i \in 1 .. Len(msgs) :
    /\ msgs[i].from = EndOf(i - 1) + HeaderSize
    /\ msgs[i].to - msgs[i].from \in Sizes

\* What is written and what is still to be written end where the last message
\* does.
SenderInStep ==
  /\ snd.pos <= snd.size
  /\ written + hand + (snd.size - snd.pos) = EndOf(Len(msgs))

\* Between messages the reader is where one ends; inside one it holds what it
\* has taken of it, and no more.
ReaderInStep ==
  /\ rd.pc = "size" => taken = EndOf(Len(got))
  /\ rd.pc = "body" =>
       /\ Len(got) < Len(msgs)
       /\ rd.need = msgs[Len(got) + 1].to - msgs[Len(got) + 1].from
       /\ taken = msgs[Len(got) + 1].from + rd.buf.pos
       /\ rd.buf.pos < rd.need
       /\ rd.text = Interval(msgs[Len(got) + 1].from, rd.buf.pos)
       /\ link.reader = "channel" => rd.buf.size = rd.need

\* A buffer's array is at least what it was at first, and what it is filled
\* to.
BufferSound == rd.buf.pos <= rd.buf.alloc /\ rd.buf.size <= rd.buf.alloc

IInv ==
  /\ TypeOK
  /\ Contiguous
  /\ Len(got) <= Len(msgs)
  /\ BufferSound
  /\ verdict = "ok" => SenderInStep /\ ReaderInStep

-----------------------------------------------------------------------------
LEMMA IntervalTyped ==
  ASSUME NEW from \in Nat, NEW n \in Nat
  PROVE  Interval(from, n) \in Seq(Nat)
BY DEF Interval

LEMMA IntervalHas ==
  ASSUME NEW from \in Nat, NEW n \in Nat
  PROVE  /\ Len(Interval(from, n)) = n
         /\ \A j \in 1 .. n : Interval(from, n)[j] = from + j
BY DEF Interval

\* What is taken next continues what was taken before.
LEMMA IntervalGrows ==
  ASSUME NEW from \in Nat, NEW m \in Nat, NEW n \in Nat
  PROVE  Interval(from, m) \o Interval(from + m, n) = Interval(from, m + n)
<1> DEFINE s == Interval(from, m)
           t == Interval(from + m, n)
           u == Interval(from, m + n)
<1>0. from + m \in Nat /\ m + n \in Nat
  OBVIOUS
<1>1. s \in Seq(Nat) /\ t \in Seq(Nat) /\ u \in Seq(Nat)
  BY <1>0, IntervalTyped
<1>2. /\ Len(s) = m /\ \A j \in 1 .. m : s[j] = from + j
      /\ Len(t) = n /\ \A j \in 1 .. n : t[j] = from + m + j
      /\ Len(u) = m + n /\ \A j \in 1 .. m + n : u[j] = from + j
  BY <1>0, IntervalHas
<1>3. /\ s \o t \in Seq(Nat)
      /\ Len(s \o t) = m + n
      /\ \A j \in 1 .. m + n : (s \o t)[j] = IF j <= m THEN s[j] ELSE t[j - m]
  <2> HIDE DEF s, t, u
  <2>1. /\ s \o t \in Seq(Nat)
        /\ Len(s \o t) = Len(s) + Len(t)
        /\ \A j \in 1 .. Len(s) + Len(t) :
             (s \o t)[j] = IF j <= Len(s) THEN s[j] ELSE t[j - Len(s)]
    BY <1>1, ConcatProperties
  <2>2. Len(s) = m /\ Len(t) = n
    BY <1>2
  <2> QED BY <2>1, <2>2
<1>4. ASSUME NEW j \in 1 .. m + n
      PROVE  (s \o t)[j] = u[j]
  <2> HIDE DEF s, t, u
  <2>1. CASE j <= m
    <3>1. s[j] = from + j
      BY <1>2, <1>4, <2>1
    <3> QED BY <1>2, <1>3, <1>4, <2>1, <3>1
  <2>2. CASE j > m
    <3>1. j - m \in 1 .. n /\ from + m + (j - m) = from + j
      BY <1>4, <2>2
    <3>2. t[j - m] = from + j
      BY <1>2, <3>1
    <3> QED BY <1>2, <1>3, <1>4, <2>2, <3>2
  <2>3. j <= m \/ j > m
    BY <1>4
  <2> QED BY <2>1, <2>2, <2>3
<1>5. s \o t = u
  <2> HIDE DEF s, t, u
  <2>1. Len(s \o t) = Len(u) /\ \A j \in 1 .. Len(s \o t) : (s \o t)[j] = u[j]
    BY <1>2, <1>3, <1>4
  <2> QED BY <1>1, <1>3, <2>1, SeqEqual
<1> QED
  BY <1>5

LEMMA LeastFits ==
  ASSUME NEW m \in Nat, NEW n \in Nat, m > 0, n > 0
  PROVE  Least(m, n) \in Nat /\ Least(m, n) > 0 /\ Least(m, n) <= m /\ Least(m, n) <= n
BY DEF Least

\* A buffer that grows stays sound, and grows by what is written.
LEMMA GrownSound ==
  ASSUME NEW b \in [pos : Nat, size : Nat, alloc : Nat], NEW n \in Nat,
         b.pos <= b.alloc, b.size <= b.alloc
  PROVE  /\ Grown(b, n) \in [pos : Nat, size : Nat, alloc : Nat]
         /\ Grown(b, n).pos = b.pos + n
         /\ Grown(b, n).pos <= Grown(b, n).alloc
         /\ Grown(b, n).size <= Grown(b, n).alloc
BY FramingAssumption DEF Grown

\* A SizedWRONBuffer takes no more than it has room for.
LEMMA AcceptedFits ==
  ASSUME NEW b \in [pos : Nat, size : Nat, alloc : Nat], NEW n \in Nat,
         b.pos <= b.size, b.size \in Sizes, n <= ChunkSize
  PROVE  /\ Accepted(b, n) \in Nat
         /\ Accepted(b, n) <= n
         /\ b.pos + Accepted(b, n) <= b.size
         /\ b.pos < b.size /\ n > 0 => Accepted(b, n) > 0
<1>1. b.pos + n < Word
  BY FramingAssumption
<1> QED
  BY <1>1, FramingAssumption DEF Accepted, Plus

\* It takes a failed read for enough to fill it.
LEMMA FailureAccepted ==
  ASSUME NEW b \in [pos : Nat, size : Nat, alloc : Nat], b.pos = 0, b.size \in Sizes
  PROVE  Accepted(b, MinusOne) = b.size
<1>1. /\ b.size \in Nat /\ b.size > 0 /\ Word \in Nat
      /\ b.size < Word - 1 /\ Word - 1 \in Nat
  BY FramingAssumption
<1>2. Plus(0, MinusOne) = Word - 1
  BY <1>1 DEF Plus, MinusOne
<1> QED
  BY <1>1, <1>2 DEF Accepted

LEMMA GarbageTyped ==
  ASSUME NEW n \in Nat
  PROVE  Garbage(n) \in Seq(Nat)
BY DEF Garbage

-----------------------------------------------------------------------------
(* The messages and their places *)

LEMMA StreamTyped ==
  ASSUME TypeOK, Contiguous
  PROVE  /\ Len(msgs) \in Nat /\ Len(got) \in Nat
         /\ \A i \in 1 .. Len(msgs) :
              /\ msgs[i] \in [from : Nat, to : Nat]
              /\ msgs[i].from = EndOf(i - 1) + HeaderSize
              /\ NeedOf(i) \in Sizes /\ NeedOf(i) \in Nat \ {0}
         /\ \A i \in 0 .. Len(msgs) : EndOf(i) \in Nat
<1>1. Len(msgs) \in Nat /\ Len(got) \in Nat
      /\ \A i \in 1 .. Len(msgs) : msgs[i] \in [from : Nat, to : Nat]
  <2>1. msgs \in Seq([from : Nat, to : Nat]) /\ got \in Seq(Seq(Nat))
    BY DEF TypeOK
  <2> QED BY <2>1, LenProperties, ElementOfSeq
<1>2. \A i \in 0 .. Len(msgs) : EndOf(i) \in Nat
  BY <1>1 DEF EndOf
<1> QED
  BY <1>1, <1>2, FramingAssumption DEF Contiguous, NeedOf

\* If anything can be read between messages, a message has been begun.
LEMMA SomethingToRead ==
  ASSUME IInv, verdict = "ok", rd.pc = "size", Available > 0
  PROVE  Len(got) < Len(msgs)
<1>1. taken = EndOf(Len(got)) /\ taken < arrived /\ arrived <= written
  BY DEF IInv, ReaderInStep, Available, TypeOK
<1>2. written <= EndOf(Len(msgs))
  BY StreamTyped DEF IInv, SenderInStep, TypeOK
<1>3. Len(got) # Len(msgs)
  <2>1. SUFFICES ASSUME Len(got) = Len(msgs) PROVE FALSE
    OBVIOUS
  <2>2. EndOf(Len(msgs)) \in Nat
    BY StreamTyped DEF IInv
  <2> QED BY <1>1, <1>2, <2>1, <2>2 DEF IInv, TypeOK
<1> QED
  BY <1>3, StreamTyped DEF IInv

\* Where messages and delivered texts stay, so does what is said of them.
LEMMA MessagesStay ==
  ASSUME Contiguous, UNCHANGED msgs
  PROVE  Contiguous' /\ \A i \in Nat : EndOf(i)' = EndOf(i)
BY DEF Contiguous, EndOf

\* The reader keeps its place while only the sender moves.
LEMMA ReaderStays ==
  ASSUME ReaderInStep, UNCHANGED <<link, msgs, taken, rd, got>>, Len(got) \in Nat
  PROVE  ReaderInStep'
BY DEF ReaderInStep, EndOf

\* The sender keeps its place while only the reader moves.
LEMMA SenderStays ==
  ASSUME SenderInStep, UNCHANGED <<msgs, snd, hand, written>>
  PROVE  SenderInStep'
BY DEF SenderInStep, EndOf

-----------------------------------------------------------------------------
(* The steps of the sender *)

LEMMA BeginKeeps ==
  ASSUME IInv, NEW n \in Sizes, Begin(n)
  PROVE  IInv'
<1> DEFINE m == [from |-> written + HeaderSize, to |-> written + HeaderSize + n]
<1>1. n \in Nat /\ HeaderSize \in Nat /\ written \in Nat /\ m \in [from : Nat, to : Nat]
  BY FramingAssumption DEF IInv, TypeOK
<1>2. /\ Len(msgs') = Len(msgs) + 1
      /\ \A i \in 1 .. Len(msgs) : msgs'[i] = msgs[i]
      /\ msgs'[Len(msgs) + 1] = m
      /\ msgs' \in Seq([from : Nat, to : Nat])
  BY <1>1 DEF Begin, IInv, TypeOK
<1>3. Len(msgs) \in Nat /\ Len(got) \in Nat /\ Len(got) <= Len(msgs)
  BY StreamTyped DEF IInv
<1>4. \A i \in 0 .. Len(msgs) : EndOf(i)' = EndOf(i)
  BY <1>2, <1>3 DEF EndOf
<1>5. EndOf(Len(msgs)) = written
  BY StreamTyped DEF IInv, SenderInStep, TypeOK, Begin
<1>6. TypeOK'
  BY <1>1, <1>2 DEF Begin, IInv, TypeOK, SizedRDONBuffer, netVars, rdVars
<1>7. Contiguous'
  <2>1. SUFFICES ASSUME NEW i \in 1 .. Len(msgs) + 1
                 PROVE  /\ msgs'[i].from = EndOf(i - 1)' + HeaderSize
                        /\ msgs'[i].to - msgs'[i].from \in Sizes
    BY <1>2 DEF Contiguous
  <2>2. EndOf(i - 1)' = EndOf(i - 1)
    BY <1>3, <1>4
  <2>3. CASE i \in 1 .. Len(msgs)
    BY <1>2, <2>2, <2>3 DEF IInv, Contiguous
  <2>4. CASE i = Len(msgs) + 1
    <3>1. i - 1 = Len(msgs) /\ (written + HeaderSize + n) - (written + HeaderSize) = n
      BY <1>1, <1>3, <2>4
    <3> QED BY <1>2, <1>5, <2>2, <2>4, <3>1
  <2> QED BY <1>3, <2>3, <2>4
<1>8. SenderInStep'
  <2>1. EndOf(Len(msgs))' = written + HeaderSize + n
    BY <1>2, <1>3 DEF EndOf
  <2>2. snd' = [pos |-> 0, size |-> HeaderSize + n] /\ hand' = 0 /\ written' = written
    BY DEF Begin, SizedRDONBuffer, netVars
  <2> QED BY <1>1, <2>1, <2>2 DEF SenderInStep
<1>9. ReaderInStep'
  <2>1. ReaderInStep
    BY DEF IInv, Begin
  <2>2. EndOf(Len(got))' = EndOf(Len(got))
    BY <1>3, <1>4 DEF Begin, rdVars, EndOf
  <2>3. Len(got) < Len(msgs) => msgs'[Len(got) + 1] = msgs[Len(got) + 1]
    <3>1. Len(got) < Len(msgs) => Len(got) + 1 \in 1 .. Len(msgs)
      BY <1>3
    <3> QED BY <1>2, <3>1
  <2> QED BY <1>2, <1>3, <2>1, <2>2, <2>3 DEF ReaderInStep, Begin, rdVars, netVars
<1>10. BufferSound' /\ Len(got') <= Len(msgs')
  BY <1>2, <1>3 DEF IInv, BufferSound, Begin, rdVars
<1> QED
  BY <1>6, <1>7, <1>8, <1>9, <1>10 DEF IInv

LEMMA ChunkFits ==
  ASSUME TypeOK, snd.pos <= snd.size
  PROVE  Readable(snd, ChunkSize) \in 0 .. ChunkSize
         /\ snd.pos + Readable(snd, ChunkSize) <= snd.size
BY FramingAssumption DEF TypeOK, Readable

LEMMA FillKeeps ==
  ASSUME IInv, Fill
  PROVE  IInv'
<1> DEFINE k == Readable(snd, ChunkSize)
<1>1. k \in 0 .. ChunkSize /\ snd.pos + k <= snd.size /\ k \in Nat
  BY ChunkFits, FramingAssumption DEF IInv, SenderInStep, Fill
<1>2. hand' = k /\ snd'.pos = snd.pos + k /\ snd'.size = snd.size /\ snd' \in [pos : Nat, size : Nat]
  <2> HIDE DEF k
  <2>1. hand' = k /\ snd' = [snd EXCEPT !.pos = @ + k]
    BY DEF Fill, k
  <2>2. snd \in [pos : Nat, size : Nat]
    BY DEF IInv, TypeOK
  <2>3. snd.pos + k \in Nat
    BY <1>1, <2>2
  <2> QED BY <2>1, <2>2, <2>3
<1> HIDE DEF k
<1>3. UNCHANGED <<link, msgs, written, arrived, taken, rd, got, verdict>> /\ hand = 0 /\ verdict = "ok"
  BY DEF Fill, netVars, rdVars
<1>4. TypeOK'
  BY <1>1, <1>2, <1>3 DEF IInv, TypeOK
<1>5. SenderInStep'
  <2>1. EndOf(Len(msgs))' = EndOf(Len(msgs))
    BY <1>3 DEF EndOf
  <2> QED BY <1>1, <1>2, <1>3, <2>1 DEF IInv, SenderInStep, TypeOK
<1>6. ReaderInStep' /\ Contiguous' /\ BufferSound' /\ Len(got') <= Len(msgs')
  BY <1>3, ReaderStays, MessagesStay, StreamTyped DEF IInv, BufferSound
<1> QED
  BY <1>4, <1>5, <1>6 DEF IInv

LEMMA WriteBlockingKeeps ==
  ASSUME IInv, WriteBlocking
  PROVE  IInv'
<1>1. PICK k \in 1 .. Least(hand, Free) : written' = written + k /\ hand' = hand - k
  BY DEF WriteBlocking
<1>2. UNCHANGED <<link, msgs, snd, arrived, taken, rd, got, verdict>> /\ verdict = "ok"
  BY DEF WriteBlocking, rdVars
<1>3. written \in Nat /\ taken \in Nat /\ arrived \in 0 .. written /\ hand \in 0 .. ChunkSize
  BY DEF IInv, TypeOK
<1>4. k \in Nat /\ k <= hand
  BY <1>3, FramingAssumption DEF Least, Free
<1>5. TypeOK'
  BY <1>1, <1>2, <1>3, <1>4, FramingAssumption DEF IInv, TypeOK
<1>6. SenderInStep'
  <2>1. EndOf(Len(msgs))' = EndOf(Len(msgs)) /\ snd \in [pos : Nat, size : Nat]
    BY <1>2 DEF EndOf, IInv, TypeOK
  <2> QED BY <1>1, <1>2, <1>3, <1>4, <2>1, FramingAssumption DEF IInv, SenderInStep
<1>7. ReaderInStep' /\ Contiguous' /\ BufferSound' /\ Len(got') <= Len(msgs')
  BY <1>2, ReaderStays, MessagesStay, StreamTyped DEF IInv, BufferSound
<1> QED
  BY <1>5, <1>6, <1>7 DEF IInv

\* Once the stream is lost nothing more is claimed of it than its types.
LEMMA LostKeeps ==
  ASSUME IInv, verdict' # "ok", TypeOK', UNCHANGED <<msgs, rd, got>>
  PROVE  IInv'
BY MessagesStay DEF IInv, BufferSound

LEMMA WriteChannelKeeps ==
  ASSUME IInv, WriteChannel
  PROVE  IInv'
<1>1. UNCHANGED <<link, msgs, snd, arrived, taken, rd, got>> /\ verdict = "ok" /\ hand' = 0
  BY DEF WriteChannel
<1>2. written \in Nat /\ arrived \in 0 .. written /\ hand \in 0 .. ChunkSize
  BY DEF IInv, TypeOK
<1>3. CASE hand <= Free
  <2>1. written' = written + hand /\ verdict' = verdict
    BY <1>3 DEF WriteChannel
  <2>2. TypeOK'
    BY <1>1, <1>2, <2>1, FramingAssumption DEF IInv, TypeOK
  <2>3. SenderInStep'
    <3>1. EndOf(Len(msgs))' = EndOf(Len(msgs)) /\ snd \in [pos : Nat, size : Nat]
      BY <1>1 DEF EndOf, IInv, TypeOK
    <3> QED BY <1>1, <1>2, <2>1, <3>1, FramingAssumption DEF IInv, SenderInStep
  <2>4. ReaderInStep' /\ Contiguous' /\ BufferSound' /\ Len(got') <= Len(msgs')
    BY <1>1, ReaderStays, MessagesStay, StreamTyped DEF IInv, BufferSound
  <2> QED BY <2>2, <2>3, <2>4 DEF IInv
<1>4. CASE ~ (hand <= Free)
  <2>1. verdict' = "lost" /\ written' = written
    BY <1>4 DEF WriteChannel
  <2>2. TypeOK'
    BY <1>1, <1>2, <2>1, FramingAssumption DEF IInv, TypeOK, Verdicts
  <2> QED BY <1>1, <2>1, <2>2, LostKeeps
<1> QED
  BY <1>3, <1>4

LEMMA ArriveKeeps ==
  ASSUME IInv, Arrive
  PROVE  IInv'
<1>1. UNCHANGED <<link, msgs, snd, hand, written, taken, rd, got, verdict>> /\ verdict = "ok"
  BY DEF Arrive, sndVars, rdVars
<1>2. TypeOK'
  BY <1>1 DEF IInv, TypeOK, Arrive
<1>3. SenderInStep' /\ ReaderInStep' /\ Contiguous' /\ BufferSound' /\ Len(got') <= Len(msgs')
  BY <1>1, SenderStays, ReaderStays, MessagesStay, StreamTyped DEF IInv, BufferSound
<1> QED
  BY <1>2, <1>3 DEF IInv

-----------------------------------------------------------------------------
(* The steps of the readers *)

LEMMA SizeBrokenKeeps ==
  ASSUME IInv, SizeBroken
  PROVE  IInv'
<1>1. verdict' = "broken" /\ UNCHANGED <<link, msgs, snd, hand, written, arrived, taken, rd, got>>
  BY DEF SizeBroken, sndVars, netVars
<1>2. TypeOK'
  BY <1>1 DEF IInv, TypeOK, Verdicts
<1> QED
  BY <1>1, <1>2, LostKeeps

LEMMA IdleSound ==
  /\ Idle.pc = "size" /\ Idle.buf = WRONBuffer
  /\ Idle \in [pc : {"size", "body"}, need : Nat,
               buf : [pos : Nat, size : Nat, alloc : Nat], text : Seq(Nat)]
  /\ WRONBuffer \in [pos : Nat, size : Nat, alloc : Nat]
  /\ WRONBuffer.pos = 0 /\ WRONBuffer.size = KB /\ WRONBuffer.alloc = KB
BY FramingAssumption DEF Idle, WRONBuffer

LEMMA ReadSizeKeeps ==
  ASSUME IInv, ReadSize
  PROVE  IInv'
<1> DEFINE i == Len(got) + 1
<1>1. /\ UNCHANGED <<link, msgs, snd, hand, written, arrived, got, verdict>>
      /\ verdict = "ok" /\ link.reader # "channel" /\ rd.pc = "size"
      /\ Available >= HeaderSize
      /\ taken' = taken + HeaderSize
      /\ rd' = [Idle EXCEPT !.pc = "body", !.need = NeedOf(i)]
  BY DEF ReadSize, sndVars, Next1
<1>2. /\ taken \in Nat /\ arrived \in Nat /\ taken <= arrived
      /\ HeaderSize \in Nat \ {0}
  BY FramingAssumption DEF IInv, TypeOK
<1>3. Len(got) < Len(msgs) /\ i \in 1 .. Len(msgs) /\ i - 1 = Len(got)
  <2>1. Available > 0
    BY <1>1, <1>2 DEF Available
  <2> QED BY <1>1, <2>1, SomethingToRead, StreamTyped DEF IInv
<1>4. /\ NeedOf(i) \in Nat \ {0}
      /\ msgs[i] \in [from : Nat, to : Nat]
      /\ msgs[i].from = EndOf(Len(got)) + HeaderSize
  BY <1>3, StreamTyped DEF IInv
<1>5. /\ rd'.pc = "body" /\ rd'.need = NeedOf(i) /\ rd'.buf = WRONBuffer /\ rd'.text = <<>>
      /\ rd' \in [pc : {"size", "body"}, need : Nat,
                  buf : [pos : Nat, size : Nat, alloc : Nat], text : Seq(Nat)]
  BY <1>1, <1>4, IdleSound DEF Idle
<1>6. TypeOK'
  <2>1. taken' \in 0 .. arrived'
    BY <1>1, <1>2 DEF Available
  <2> QED BY <1>1, <1>5, <2>1 DEF IInv, TypeOK
<1>7. ReaderInStep'
  <2>1. taken' = msgs[i].from
    BY <1>1, <1>4 DEF IInv, ReaderInStep
  <2>2. Interval(msgs[i].from, 0) = <<>>
    BY DEF Interval
  <2>3. msgs[i].from \in Nat /\ msgs[i].from + 0 = msgs[i].from
    BY <1>4
  <2> QED BY <1>1, <1>3, <1>4, <1>5, <2>1, <2>2, <2>3, IdleSound DEF ReaderInStep, NeedOf
<1>8. SenderInStep' /\ Contiguous' /\ BufferSound' /\ Len(got') <= Len(msgs')
  BY <1>1, <1>5, IdleSound, SenderStays, MessagesStay, FramingAssumption DEF IInv, BufferSound
<1> QED
  BY <1>6, <1>7, <1>8 DEF IInv

\* What a reader's step does to what is delivered: nothing, or it adds the next
\* message, or, for a size alone at a Channel, a text in place of that.
Delivers ==
  \/ UNCHANGED got /\ verdict' # "garbage"
  \/ /\ Len(got) < Len(msgs)
     /\ got' = Append(got, Body(msgs[Len(got) + 1]))
     /\ verdict' # "garbage"
  \/ /\ Len(got) < Len(msgs)
     /\ verdict' = "garbage"
     /\ \E t \in Seq(Nat) : got' = Append(got, t)

\* A delivered message leaves the reader between messages.
LEMMA DeliveryKeeps ==
  ASSUME IInv, verdict = "ok", TypeOK',
         UNCHANGED <<link, msgs, snd, hand, written>>,
         Len(got) < Len(msgs),
         got' = Append(got, Body(msgs[Len(got) + 1])),
         rd' = Idle,
         verdict' = "ok" => taken' = msgs[Len(got) + 1].to
  PROVE  IInv'
<1>1. got \in Seq(Seq(Nat)) /\ Len(got) \in Nat /\ Len(got') = Len(got) + 1
  BY DEF IInv, TypeOK
<1>2. BufferSound'
  BY IdleSound, FramingAssumption DEF BufferSound
<1>3. ASSUME verdict' = "ok" PROVE ReaderInStep'
  <2>1. EndOf(Len(got))' = msgs[Len(got) + 1].to
    BY <1>1 DEF EndOf
  <2> QED BY <1>3, <2>1, IdleSound DEF ReaderInStep
<1>4. SenderInStep' /\ Contiguous' /\ Len(got') <= Len(msgs')
  BY <1>1, SenderStays, MessagesStay, StreamTyped DEF IInv
<1> QED
  BY <1>2, <1>3, <1>4 DEF IInv

\* The text of a message is complete when it is as long as the message.
LEMMA WholeText ==
  ASSUME NEW m \in [from : Nat, to : Nat]
  PROVE  Interval(m.from, m.to - m.from) = Body(m)
BY DEF Body

LEMMA ReadBodyKeeps ==
  ASSUME IInv, ReadBody
  PROVE  IInv' /\ Delivers
<1> DEFINE i == Len(got) + 1
           n == Least(ChunkSize, Available)
           buf == Grown(rd.buf, n)
           text == rd.text \o Interval(taken, n)
<1>1. /\ UNCHANGED <<link, msgs, snd, hand, written, arrived>>
      /\ verdict = "ok" /\ link.reader # "channel" /\ rd.pc = "body"
      /\ Available > 0 /\ taken' = taken + n
  BY DEF ReadBody, sndVars
<1>2. /\ taken \in Nat /\ arrived \in Nat /\ arrived \in 0 .. written
      /\ rd \in [pc : {"size", "body"}, need : Nat,
                 buf : [pos : Nat, size : Nat, alloc : Nat], text : Seq(Nat)]
      /\ got \in Seq(Seq(Nat))
  BY DEF IInv, TypeOK
<1>3. n \in Nat /\ n > 0 /\ taken + n <= arrived
  BY <1>1, <1>2, FramingAssumption DEF Least, Available
<1>4. /\ Len(got) < Len(msgs) /\ Len(got) \in Nat /\ i \in 1 .. Len(msgs)
      /\ msgs[i] \in [from : Nat, to : Nat]
      /\ rd.need = msgs[i].to - msgs[i].from /\ rd.need \in Nat
      /\ taken = msgs[i].from + rd.buf.pos
      /\ rd.text = Interval(msgs[i].from, rd.buf.pos)
  BY <1>1, <1>2, StreamTyped DEF IInv, ReaderInStep
<1>5. /\ buf \in [pos : Nat, size : Nat, alloc : Nat]
      /\ buf.pos = rd.buf.pos + n
      /\ buf.pos <= buf.alloc /\ buf.size <= buf.alloc
  BY <1>2, <1>3, GrownSound DEF IInv, BufferSound
<1>6. text = Interval(msgs[i].from, rd.buf.pos + n) /\ text \in Seq(Nat)
  <2> HIDE DEF n, i
  <2>1. msgs[i].from \in Nat /\ rd.buf.pos \in Nat /\ rd.buf.pos + n \in Nat
    <3>1. msgs[i].from \in Nat
      BY <1>4
    <3>2. rd.buf.pos \in Nat
      BY <1>2
    <3>3. n \in Nat
      BY <1>3
    <3> QED BY <3>1, <3>2, <3>3
  <2>2. Interval(msgs[i].from, rd.buf.pos) \o Interval(msgs[i].from + rd.buf.pos, n)
          = Interval(msgs[i].from, rd.buf.pos + n)
    BY <1>3, <2>1, IntervalGrows
  <2>3. Interval(msgs[i].from, rd.buf.pos + n) \in Seq(Nat)
    BY <2>1, IntervalTyped
  <2> QED BY <1>4, <2>2, <2>3
<1>7. CASE buf.pos = rd.need
  <2>1. got' = Append(got, text) /\ rd' = Idle /\ verdict' = verdict
    BY <1>7 DEF ReadBody
  <2>2. text = Body(msgs[i])
    BY <1>4, <1>5, <1>6, <1>7, WholeText
  <2>3. taken' = msgs[i].to
    <3> HIDE DEF n, i, buf
    <3>1. msgs[i].from \in Nat /\ msgs[i].to \in Nat /\ rd.buf.pos \in Nat
      BY <1>2, <1>4
    <3>2. rd.buf.pos + n = msgs[i].to - msgs[i].from
      BY <1>4, <1>5, <1>7
    <3>3. taken' = msgs[i].from + rd.buf.pos + n
      BY <1>1, <1>4
    <3> QED BY <1>3, <3>1, <3>2, <3>3
  <2>4. TypeOK'
    <3>1. taken' \in 0 .. arrived' /\ got' \in Seq(Seq(Nat))
      BY <1>1, <1>2, <1>3, <1>6, <2>1
    <3> QED BY <1>1, <2>1, <3>1, IdleSound DEF IInv, TypeOK
  <2> QED BY <1>1, <1>4, <2>1, <2>2, <2>3, <2>4, DeliveryKeeps DEF Delivers
<1>8. CASE buf.pos # rd.need
  <2>1. /\ rd' = [rd EXCEPT !.buf = buf, !.text = text] /\ got' = got
        /\ verdict' = IF buf.pos > rd.need THEN "overrun" ELSE verdict
    BY <1>8 DEF ReadBody
  <2>2. /\ rd'.pc = "body" /\ rd'.need = rd.need /\ rd'.buf = buf /\ rd'.text = text
        /\ rd' \in [pc : {"size", "body"}, need : Nat,
                    buf : [pos : Nat, size : Nat, alloc : Nat], text : Seq(Nat)]
    <3> HIDE DEF buf, text
    <3> QED BY <1>1, <1>2, <1>5, <1>6, <2>1
  <2>3. TypeOK'
    <3>1. verdict' \in Verdicts /\ taken' \in 0 .. arrived'
      BY <1>1, <1>2, <1>3, <2>1 DEF Verdicts
    <3> QED BY <1>1, <2>1, <2>2, <3>1 DEF IInv, TypeOK
  <2>4. BufferSound'
    BY <1>5, <2>2 DEF BufferSound
  <2>5. ASSUME verdict' = "ok" PROVE ReaderInStep'
    <3>1. buf.pos < rd.need
      BY <1>4, <1>5, <1>8, <2>1, <2>5
    <3>2. taken' = msgs[i].from + buf.pos
      <4> HIDE DEF n, i, buf
      <4>1. msgs[i].from \in Nat /\ rd.buf.pos \in Nat
        BY <1>2, <1>4
      <4>2. taken' = msgs[i].from + rd.buf.pos + n
        BY <1>1, <1>4
      <4> QED BY <1>3, <1>5, <4>1, <4>2
    <3> HIDE DEF buf, text
    <3> QED BY <1>1, <1>4, <1>5, <1>6, <2>1, <2>2, <3>1, <3>2 DEF ReaderInStep
  <2>6. SenderInStep' /\ Contiguous' /\ Len(got') <= Len(msgs')
    BY <1>1, <2>1, SenderStays, MessagesStay DEF IInv
  <2>7. Delivers
    <3>1. verdict' # "garbage"
      BY <1>1, <2>1
    <3> QED BY <2>1, <3>1 DEF Delivers
  <2> QED BY <2>3, <2>4, <2>5, <2>6, <2>7 DEF IInv
<1> QED
  BY <1>7, <1>8

\* One call of Channel::read(), of a message it has read so far into buf.
LEMMA ChannelKeeps ==
  ASSUME NEW start \in Nat, NEW buf \in [pos : Nat, size : Nat, alloc : Nat]
  PROVE  /\ IInv /\ verdict = "ok" /\ link.reader = "channel"
         /\ UNCHANGED <<link, msgs, snd, hand, written, arrived>>
         /\ Len(got) < Len(msgs)
         /\ start <= arrived /\ start = msgs[Len(got) + 1].from + buf.pos
         /\ arrived = start => buf.pos = 0
         /\ buf.size = NeedOf(Len(got) + 1) /\ buf.pos < buf.size /\ buf.size <= buf.alloc
         /\ ChannelTakes(start, NeedOf(Len(got) + 1), buf,
                         Interval(msgs[Len(got) + 1].from, buf.pos))
         => IInv' /\ Delivers
<1> DEFINE i == Len(got) + 1
           base == msgs[i].from
           c == Least(ChunkSize, arrived - start)
           k == Accepted(buf, c)
           text == Interval(base, buf.pos) \o Interval(start, k)
<1>0. SUFFICES ASSUME IInv, verdict = "ok", link.reader = "channel",
                      UNCHANGED <<link, msgs, snd, hand, written, arrived>>,
                      Len(got) < Len(msgs),
                      start <= arrived, start = base + buf.pos,
                      arrived = start => buf.pos = 0,
                      buf.size = NeedOf(i), buf.pos < buf.size, buf.size <= buf.alloc,
                      ChannelTakes(start, NeedOf(i), buf, Interval(base, buf.pos))
               PROVE  IInv' /\ Delivers
  OBVIOUS
<1>4. base \in Nat /\ buf.pos \in Nat
  <2>1. i \in 1 .. Len(msgs)
    BY <1>0, StreamTyped DEF IInv
  <2>2. msgs[i] \in [from : Nat, to : Nat]
    BY <1>0, <2>1, StreamTyped DEF IInv
  <2> QED BY <2>2
<1>1. /\ Len(got) \in Nat /\ i \in 1 .. Len(msgs) /\ arrived \in Nat /\ arrived \in 0 .. written
      /\ msgs[i] \in [from : Nat, to : Nat] /\ NeedOf(i) \in Sizes /\ NeedOf(i) \in Nat
      /\ NeedOf(i) = msgs[i].to - base /\ base \in Nat /\ buf.pos \in Nat
      /\ got \in Seq(Seq(Nat)) /\ buf.size = NeedOf(i) /\ start = base + buf.pos
  <2>1. arrived \in 0 .. written /\ written \in Nat /\ got \in Seq(Seq(Nat))
    BY <1>0 DEF IInv, TypeOK
  <2>2. i \in 1 .. Len(msgs) /\ Len(got) \in Nat
    BY <1>0, StreamTyped DEF IInv
  <2>3. msgs[i] \in [from : Nat, to : Nat] /\ NeedOf(i) \in Sizes /\ NeedOf(i) \in Nat
    BY <1>0, <2>2, StreamTyped DEF IInv
  <2> QED BY <1>0, <2>1, <2>2, <2>3 DEF NeedOf
<1>2. CASE arrived = start
  <2> DEFINE wrong == Interval(base, buf.pos) \o Garbage(Accepted(buf, MinusOne))
  <2>1. Accepted(buf, MinusOne) = NeedOf(i) /\ buf.pos = 0
    <3>1. buf.pos = 0 /\ buf.size \in Sizes
      BY <1>0, <1>1, <1>2
    <3> QED BY <1>1, <3>1, FailureAccepted
  <2>2. wrong \in Seq(Nat)
    <3>1. Interval(base, buf.pos) \in Seq(Nat) /\ Garbage(NeedOf(i)) \in Seq(Nat)
      BY <1>1, IntervalTyped, GarbageTyped
    <3> QED BY <2>1, <3>1, ConcatProperties
  <2>3. taken' = start /\ verdict' = "garbage" /\ got' = Append(got, wrong) /\ rd' = Idle
    <3>1. buf.pos + Accepted(buf, MinusOne) = NeedOf(i)
      BY <1>1, <2>1
    <3> QED BY <1>0, <1>2, <3>1 DEF ChannelTakes
  <2> HIDE DEF wrong
  <2>4. TypeOK'
    <3>1. got' \in Seq(Seq(Nat)) /\ taken' \in 0 .. arrived'
      BY <1>0, <1>1, <1>2, <2>2, <2>3
    <3> QED BY <1>0, <2>3, <3>1, IdleSound DEF IInv, TypeOK, Verdicts
  <2>5. BufferSound' /\ Contiguous'
    BY <1>0, <2>3, IdleSound, MessagesStay, FramingAssumption DEF IInv, BufferSound
  <2>6. Len(got') <= Len(msgs')
    BY <1>0, <1>1, <2>3, StreamTyped DEF IInv
  <2>7. Delivers
    BY <1>0, <1>1, <1>2, <2>1, <2>2, <2>3 DEF Delivers
  <2> QED BY <2>3, <2>4, <2>5, <2>6, <2>7 DEF IInv
<1>3. CASE arrived # start
  <2>1. /\ taken' = start + c
        /\ verdict' = IF k < c THEN "overrun" ELSE verdict
        /\ IF buf.pos + k = NeedOf(i)
             THEN got' = Append(got, text) /\ rd' = Idle
             ELSE /\ rd' = [pc |-> "body", need |-> NeedOf(i),
                            buf |-> [buf EXCEPT !.pos = @ + k], text |-> text]
                  /\ got' = got
    BY <1>0, <1>3 DEF ChannelTakes
  <2>2. c \in Nat /\ c > 0 /\ c <= ChunkSize /\ start + c <= arrived
    <3>1. arrived > start
      BY <1>0, <1>1, <1>3
    <3>2. c = Least(ChunkSize, arrived - start)
      OBVIOUS
    <3> HIDE DEF c, i, base
    <3>3. arrived - start \in Nat /\ arrived - start > 0 /\ ChunkSize \in Nat /\ ChunkSize > 0
      BY <1>1, <3>1, FramingAssumption
    <3>4. arrived \in Nat
      BY <1>1
    <3> HIDE DEF k, text
    <3> QED BY <3>2, <3>3, <3>4, LeastFits
  <2>3. k \in Nat /\ k <= c /\ buf.pos + k <= buf.size
    <3>1. buf.pos <= buf.size /\ buf.size \in Sizes
      BY <1>0, <1>1
    <3> HIDE DEF c, i, base, text
    <3> QED BY <2>2, <3>1, AcceptedFits
  <2> HIDE DEF c, k
  <2>4. text = Interval(base, buf.pos + k) /\ text \in Seq(Nat)
    <3>1. buf.pos + k \in Nat /\ start = base + buf.pos
      BY <1>1, <2>3
    <3>2. Interval(base, buf.pos) \o Interval(base + buf.pos, k) = Interval(base, buf.pos + k)
      <4> HIDE DEF base, i
      <4> QED BY <1>4, <2>3, IntervalGrows
    <3>3. Interval(base, buf.pos + k) \in Seq(Nat)
      <4> HIDE DEF base
      <4> QED BY <1>1, <3>1, IntervalTyped
    <3> QED BY <3>1, <3>2, <3>3
  <2>5. verdict' = "ok" => k = c
    BY <1>0, <2>1, <2>2, <2>3
  <2>6. taken' \in 0 .. arrived' /\ verdict' \in Verdicts
    BY <1>0, <1>1, <2>1, <2>2 DEF Verdicts
  <2> HIDE DEF text
  <2>7. CASE buf.pos + k = NeedOf(i)
    <3>1. got' = Append(got, text) /\ rd' = Idle
      BY <2>1, <2>7
    <3>2. text = Body(msgs[i])
      BY <1>1, <2>4, <2>7, WholeText
    <3>3. verdict' = "ok" => taken' = msgs[i].to
      <4>1. msgs[i].to \in Nat /\ buf.pos + k = msgs[i].to - base
        BY <1>1, <2>7
      <4> HIDE DEF base, i, c, k
      <4>2. taken' = base + buf.pos + c
        BY <1>1, <2>1
      <4>3. base \in Nat /\ buf.pos \in Nat /\ msgs[i].to \in Nat
        BY <1>1, <4>1
      <4>4. base + buf.pos + k = msgs[i].to
        BY <2>3, <4>1, <4>3
      <4> QED BY <2>5, <4>2, <4>4
    <3>4. TypeOK'
      <4>1. got' \in Seq(Seq(Nat))
        BY <1>1, <2>4, <3>1
      <4> QED BY <1>0, <2>6, <3>1, <4>1, IdleSound DEF IInv, TypeOK
    <3> QED BY <1>0, <2>1, <3>1, <3>2, <3>3, <3>4, DeliveryKeeps DEF Delivers
  <2>8. CASE buf.pos + k # NeedOf(i)
    <3>1. /\ rd' = [pc |-> "body", need |-> NeedOf(i),
                    buf |-> [buf EXCEPT !.pos = @ + k], text |-> text]
          /\ got' = got
      BY <2>1, <2>8
    <3>2. /\ rd'.pc = "body" /\ rd'.need = NeedOf(i) /\ rd'.text = text
          /\ rd'.buf.pos = buf.pos + k /\ rd'.buf.size = buf.size /\ rd'.buf.alloc = buf.alloc
          /\ rd' \in [pc : {"size", "body"}, need : Nat,
                      buf : [pos : Nat, size : Nat, alloc : Nat], text : Seq(Nat)]
      <4> DEFINE b == [buf EXCEPT !.pos = @ + k]
      <4>1. b.pos = buf.pos + k /\ b.size = buf.size /\ b.alloc = buf.alloc
            /\ b \in [pos : Nat, size : Nat, alloc : Nat]
        BY <1>4, <2>3
      <4>2. rd' = [pc |-> "body", need |-> NeedOf(i), buf |-> b, text |-> text]
        BY <3>1
      <4> HIDE DEF b, i
      <4> QED BY <1>1, <2>4, <4>1, <4>2
    <3>3. TypeOK'
      BY <1>0, <2>6, <3>1, <3>2 DEF IInv, TypeOK
    <3>4. BufferSound'
      BY <1>0, <1>1, <2>3, <3>2 DEF BufferSound
    <3>5. ASSUME verdict' = "ok" PROVE ReaderInStep'
      <4>1. rd'.buf.pos < rd'.need
        <5>1. buf.pos + k <= NeedOf(i) /\ buf.pos + k # NeedOf(i)
          BY <1>0, <2>3, <2>8
        <5> HIDE DEF i
        <5> QED BY <1>1, <1>4, <2>3, <3>2, <5>1
      <4>2. taken' = base + rd'.buf.pos
        <5>1. taken' = base + buf.pos + k
          BY <1>1, <2>1, <2>5, <3>5
        <5>2. base + buf.pos + k = base + (buf.pos + k)
          <6> HIDE DEF base, i
          <6> QED BY <1>4, <2>3
        <5> QED BY <3>2, <5>1, <5>2
      <4> QED BY <1>0, <1>1, <2>4, <3>1, <3>2, <4>1, <4>2 DEF ReaderInStep, NeedOf
    <3>6. SenderInStep' /\ Contiguous' /\ Len(got') <= Len(msgs')
      BY <1>0, <3>1, SenderStays, MessagesStay DEF IInv
    <3> QED BY <1>0, <2>1, <3>1, <3>3, <3>4, <3>5, <3>6 DEF IInv, Delivers
  <2> QED BY <2>7, <2>8
<1> QED
  BY <1>2, <1>3

LEMMA ChannelFirstKeeps ==
  ASSUME IInv, ChannelFirst
  PROVE  IInv' /\ Delivers
<1> DEFINE i == Len(got) + 1
           buf == SizedWRONBuffer(NeedOf(i))
<1>1. /\ UNCHANGED <<link, msgs, snd, hand, written, arrived>>
      /\ verdict = "ok" /\ link.reader = "channel" /\ rd.pc = "size"
      /\ Available >= HeaderSize
      /\ ChannelTakes(taken + HeaderSize, NeedOf(i), buf, <<>>)
  BY DEF ChannelFirst, sndVars, Next1
<1>2. taken \in Nat /\ arrived \in Nat /\ HeaderSize \in Nat \ {0}
  BY FramingAssumption DEF IInv, TypeOK
<1>3. Len(got) < Len(msgs) /\ i \in 1 .. Len(msgs) /\ i - 1 = Len(got)
  <2>1. Available > 0
    BY <1>1, <1>2 DEF Available
  <2> QED BY <1>1, <2>1, SomethingToRead, StreamTyped DEF IInv
<1>4. /\ NeedOf(i) \in Nat \ {0} /\ msgs[i].from \in Nat
      /\ msgs[i].from = EndOf(Len(got)) + HeaderSize
  BY <1>3, StreamTyped DEF IInv
<1>5. /\ buf \in [pos : Nat, size : Nat, alloc : Nat]
      /\ buf.pos = 0 /\ buf.size = NeedOf(i) /\ buf.alloc = NeedOf(i)
  BY <1>4 DEF SizedWRONBuffer
<1>6. taken + HeaderSize = msgs[i].from + buf.pos
  BY <1>1, <1>2, <1>4, <1>5 DEF IInv, ReaderInStep
<1>7. Interval(msgs[i].from, buf.pos) = <<>>
  BY <1>5 DEF Interval
<1>8. taken + HeaderSize \in Nat /\ taken + HeaderSize <= arrived
  BY <1>1, <1>2 DEF Available
<1> HIDE DEF buf
<1> QED
  BY <1>1, <1>3, <1>4, <1>5, <1>6, <1>7, <1>8, ChannelKeeps

LEMMA ChannelMoreKeeps ==
  ASSUME IInv, ChannelMore
  PROVE  IInv' /\ Delivers
<1> DEFINE i == Len(got) + 1
<1>1. /\ UNCHANGED <<link, msgs, snd, hand, written, arrived>>
      /\ verdict = "ok" /\ link.reader = "channel" /\ rd.pc = "body" /\ Available > 0
      /\ ChannelTakes(taken, rd.need, rd.buf, rd.text)
  BY DEF ChannelMore, sndVars
<1>2. /\ taken \in Nat /\ taken <= arrived /\ arrived # taken
      /\ rd.buf \in [pos : Nat, size : Nat, alloc : Nat]
  BY <1>1 DEF IInv, TypeOK, Available
<1>3. /\ Len(got) < Len(msgs) /\ rd.need = NeedOf(i) /\ rd.buf.size = rd.need
      /\ rd.buf.pos < rd.buf.size /\ rd.buf.size <= rd.buf.alloc
      /\ taken = msgs[i].from + rd.buf.pos
      /\ rd.text = Interval(msgs[i].from, rd.buf.pos)
  BY <1>1 DEF IInv, ReaderInStep, BufferSound, NeedOf
<1> QED
  BY <1>1, <1>2, <1>3, ChannelKeeps

-----------------------------------------------------------------------------
(* The theorems *)

LEMMA InitSound ==
  ASSUME Init
  PROVE  IInv
<1>1. TypeOK
  BY IdleSound, FramingAssumption DEF Init, TypeOK, Verdicts
<1>2. Contiguous /\ Len(got) <= Len(msgs) /\ SenderInStep
  BY DEF Init, Contiguous, SenderInStep, EndOf
<1>3. BufferSound /\ ReaderInStep
  BY IdleSound, FramingAssumption DEF Init, BufferSound, ReaderInStep, EndOf
<1> QED
  BY <1>1, <1>2, <1>3 DEF IInv

LEMMA StepSound ==
  ASSUME IInv, [Next]_vars
  PROVE  IInv'
<1>1. ASSUME UNCHANGED vars PROVE IInv'
  <2>1. UNCHANGED <<link, msgs, snd, hand, written, arrived, taken, rd, got, verdict>>
    BY <1>1 DEF vars, sndVars, netVars, rdVars
  <2>2. TypeOK' /\ BufferSound'
    BY <2>1 DEF IInv, TypeOK, BufferSound
  <2> QED
    BY <2>1, <2>2, SenderStays, ReaderStays, MessagesStay, StreamTyped DEF IInv
<1>2. ASSUME NEW n \in Sizes, Begin(n) PROVE IInv'
  BY <1>2, BeginKeeps
<1>3. CASE Fill
  BY <1>3, FillKeeps
<1>4. CASE WriteBlocking
  BY <1>4, WriteBlockingKeeps
<1>5. CASE WriteChannel
  BY <1>5, WriteChannelKeeps
<1>6. CASE Arrive
  BY <1>6, ArriveKeeps
<1>7. CASE SizeBroken
  BY <1>7, SizeBrokenKeeps
<1>8. CASE ReadSize
  BY <1>8, ReadSizeKeeps
<1>9. CASE ReadBody
  BY <1>9, ReadBodyKeeps
<1>10. CASE ChannelFirst
  BY <1>10, ChannelFirstKeeps
<1>11. CASE ChannelMore
  BY <1>11, ChannelMoreKeeps
<1> QED
  BY <1>1, <1>2, <1>3, <1>4, <1>5, <1>6, <1>7, <1>8, <1>9, <1>10, <1>11
  DEF Next, Reads, Writes

\* The strengthening of the invariants is one.
THEOREM Invariant == Spec => []IInv
BY InitSound, StepSound, PTL DEF Spec

\* The variables have their types whatever the sizes of messages, chunks and
\* sockets.
THEOREM Typed == Spec => []TypeOK
<1>1. IInv => TypeOK
  BY DEF IInv
<1> QED
  BY <1>1, Invariant, PTL

\* WRONBuffer and SizedWRONBuffer are never written past their arrays, though
\* WRONBuffer's size is not what it has room for.
THEOREM BuffersHold == Spec => []BufferHolds
<1>1. IInv => BufferHolds
  BY DEF IInv, BufferSound, BufferHolds
<1> QED
  BY <1>1, Invariant, PTL

-----------------------------------------------------------------------------
(* The refinement of MessageQueue *)

\* The messages sent, as the queue sees them.
Sent == [i \in DOMAIN msgs |-> Body(msgs[i])]

SentIsMsgs ==
  /\ Sent \in Seq(Seq(Nat)) /\ Len(Sent) = Len(msgs)
  /\ \A i \in 1 .. Len(msgs) : Sent[i] = Body(msgs[i])

LEMMA SentTyped == TypeOK /\ Contiguous => SentIsMsgs
<1>0. SUFFICES ASSUME TypeOK, Contiguous PROVE SentIsMsgs
  OBVIOUS
<1>1. msgs \in Seq([from : Nat, to : Nat]) /\ Len(msgs) \in Nat /\ DOMAIN msgs = 1 .. Len(msgs)
  BY <1>0, LenProperties DEF TypeOK
<1>2. ASSUME NEW i \in 1 .. Len(msgs) PROVE Body(msgs[i]) \in Seq(Nat)
  <2>1. msgs[i].from \in Nat /\ msgs[i].to - msgs[i].from \in Nat
    BY <1>0, <1>2, StreamTyped DEF NeedOf
  <2> QED BY <2>1, IntervalTyped DEF Body
<1> QED
  BY <1>1, <1>2 DEF SentIsMsgs, Sent

\* A message begun is a message sent.
LEMMA BeginSends ==
  ASSUME IInv, IInv', NEW n \in Sizes, Begin(n)
  PROVE  Queue!Send
<1>1. Len(msgs') = Len(msgs) + 1 /\ \A i \in 1 .. Len(msgs) : msgs'[i] = msgs[i]
  <2>1. msgs \in Seq([from : Nat, to : Nat])
    BY DEF IInv, TypeOK
  <2> QED BY <2>1 DEF Begin
<1>2. /\ Sent \in Seq(Seq(Nat)) /\ Len(Sent) = Len(msgs) /\ Len(msgs) \in Nat
      /\ \A i \in 1 .. Len(msgs) : Sent[i] = Body(msgs[i])
  BY SentTyped, StreamTyped DEF IInv, SentIsMsgs
<1>3. /\ Sent' \in Seq(Seq(Nat)) /\ Len(Sent') = Len(msgs')
      /\ \A i \in 1 .. Len(msgs') : Sent'[i] = Body(msgs'[i])
  <2>1. TypeOK' /\ Contiguous'
    BY DEF IInv
  <2>2. SentIsMsgs'
    BY <2>1, SentTyped, PTL
  <2> QED BY <2>2 DEF SentIsMsgs
<1>4. SubSeq(Sent', 1, Len(Sent)) = Sent
  <2>1. /\ SubSeq(Sent', 1, Len(Sent)) \in Seq(Seq(Nat))
        /\ Len(SubSeq(Sent', 1, Len(Sent))) = Len(Sent)
        /\ \A i \in 1 .. Len(Sent) : SubSeq(Sent', 1, Len(Sent))[i] = Sent'[i]
    BY <1>1, <1>2, <1>3
  <2>2. \A i \in 1 .. Len(Sent) : Sent'[i] = Sent[i]
    BY <1>1, <1>2, <1>3
  <2> QED BY <1>2, <2>1, <2>2, SeqEqual
<1>5. Len(Sent') = Len(Sent) + 1 /\ verdict = "ok" /\ UNCHANGED <<got, verdict>>
  BY <1>1, <1>2, <1>3 DEF Begin, rdVars
<1> QED
  BY <1>4, <1>5 DEF Queue!Send, Sent

\* What a reader's step delivers is received from the queue, or garbled.
LEMMA DeliveryReceives ==
  ASSUME IInv, verdict = "ok", UNCHANGED msgs, Delivers
  PROVE  [Queue!Next]_(Queue!vars)
<1>1. UNCHANGED Sent
  BY DEF Sent
<1>2. CASE UNCHANGED got /\ verdict' # "garbage"
  BY <1>1, <1>2 DEF Queue!vars, Sent
<1>3. CASE /\ Len(got) < Len(msgs) /\ got' = Append(got, Body(msgs[Len(got) + 1]))
           /\ verdict' # "garbage"
  <2>1. Len(got) < Len(Sent) /\ Sent[Len(got) + 1] = Body(msgs[Len(got) + 1])
    BY <1>3, SentTyped, StreamTyped DEF IInv, SentIsMsgs
  <2> QED BY <1>1, <1>3, <2>1 DEF Queue!Next, Queue!Receive, Sent
<1>4. ASSUME Len(got) < Len(msgs), verdict' = "garbage",
             NEW t \in Seq(Nat), got' = Append(got, t)
      PROVE  Queue!Garble
  <2>1. Len(got) < Len(Sent)
    BY <1>4, SentTyped DEF IInv, SentIsMsgs
  <2>2. got \in Seq(Seq(Nat)) /\ Len(got) \in Nat
    BY DEF IInv, TypeOK
  <2>3. /\ Len(got') = Len(got) + 1 /\ got' \in Seq(Seq(Nat))
        /\ \A i \in 1 .. Len(got) : got'[i] = got[i]
    BY <1>4, <2>2, AppendProperties
  <2>4. SubSeq(got', 1, Len(got)) = got
    <3>1. /\ SubSeq(got', 1, Len(got)) \in Seq(Seq(Nat))
          /\ Len(SubSeq(got', 1, Len(got))) = Len(got)
          /\ \A i \in 1 .. Len(got) : SubSeq(got', 1, Len(got))[i] = got'[i]
      BY <2>2, <2>3
    <3> QED BY <2>2, <2>3, <3>1, SeqEqual
  <2> QED BY <1>1, <1>4, <2>1, <2>3, <2>4 DEF Queue!Garble, Sent
<1> QED
  BY <1>2, <1>3, <1>4 DEF Delivers, Queue!Next

LEMMA StepRefines ==
  ASSUME IInv, IInv', [Next]_vars
  PROVE  [Queue!Next]_(Queue!vars)
<1>1. ASSUME NEW n \in Sizes, Begin(n) PROVE Queue!Next
  BY <1>1, BeginSends DEF Queue!Next
<1>2. CASE Fill \/ WriteBlocking \/ WriteChannel \/ Arrive \/ SizeBroken \/ ReadSize
  <2>1. UNCHANGED <<msgs, got>> /\ verdict = "ok" /\ verdict' # "garbage"
    BY <1>2 DEF Fill, WriteBlocking, WriteChannel, Arrive, SizeBroken, ReadSize,
                sndVars, rdVars
  <2> QED BY <2>1, DeliveryReceives DEF Delivers
<1>6. CASE UNCHANGED vars
  BY <1>6 DEF vars, sndVars, rdVars, Queue!vars
<1>3. CASE ReadBody
  BY <1>3, ReadBodyKeeps, DeliveryReceives DEF ReadBody, sndVars
<1>4. CASE ChannelFirst
  BY <1>4, ChannelFirstKeeps, DeliveryReceives DEF ChannelFirst, sndVars
<1>5. CASE ChannelMore
  BY <1>5, ChannelMoreKeeps, DeliveryReceives DEF ChannelMore, sndVars
<1> QED
  BY <1>1, <1>2, <1>3, <1>4, <1>5, <1>6 DEF Next, Reads, Writes

\* What is delivered is what was sent, whole and in order, whatever the sizes
\* of the messages, of the chunks and of the pieces they arrive in, but for a
\* text that a Channel makes up of a size alone, and that text is the last.
THEOREM Refines == Spec => KeepsOrder
<1>1. Init => Queue!Init
  <2>1. SUFFICES ASSUME Init PROVE Queue!Init
    OBVIOUS
  <2>2. msgs = <<>> /\ got = <<>> /\ DOMAIN msgs = {} /\ verdict = "ok"
    BY <2>1 DEF Init
  <2>3. TypeOK /\ Contiguous
    BY <2>1, InitSound DEF IInv
  <2>4. Sent = <<>>
    <3>1. Sent \in Seq(Seq(Nat)) /\ Len(Sent) = 0
      BY <2>2, <2>3, SentTyped DEF SentIsMsgs
    <3> QED BY <3>1, EmptySeq
  <2> QED BY <2>2, <2>4 DEF Queue!Init, Sent
<1>2. IInv /\ IInv' /\ [Next]_vars => [Queue!Next]_(Queue!vars)
  BY StepRefines
<1> QED
  BY <1>1, <1>2, Invariant, PTL DEF Spec, KeepsOrder, Queue!Spec

-----------------------------------------------------------------------------
(* How the stream is lost *)

\* Who sends only in answer is at most one message ahead of what is read.
InTurn == Unasked \/ Len(msgs) <= Len(got) + 1

LEMMA TurnKept ==
  ASSUME IInv, InTurn, [Next]_vars
  PROVE  InTurn'
<1>1. Len(msgs) \in Nat /\ Len(got) \in Nat /\ got \in Seq(Seq(Nat))
      /\ msgs \in Seq([from : Nat, to : Nat])
  BY StreamTyped DEF IInv, TypeOK
<1>2. ASSUME NEW n \in Sizes, Begin(n) PROVE InTurn'
  BY <1>1, <1>2 DEF InTurn, Begin, Unasked, rdVars
<1>3. ASSUME UNCHANGED <<link, msgs>>, Delivers PROVE InTurn'
  <2>1. Len(got') \in Nat /\ Len(got') >= Len(got)
    BY <1>1, <1>3 DEF Delivers
  <2> QED BY <1>1, <1>3, <2>1 DEF InTurn, Unasked
<1>4. CASE Fill \/ WriteBlocking \/ WriteChannel \/ Arrive \/ SizeBroken \/ ReadSize
            \/ UNCHANGED vars
  <2>1. UNCHANGED <<link, msgs, got>>
    BY <1>4 DEF Fill, WriteBlocking, WriteChannel, Arrive, SizeBroken, ReadSize,
                vars, sndVars, netVars, rdVars
  <2> QED BY <2>1 DEF InTurn, Unasked
<1>5. CASE ReadBody
  BY <1>3, <1>5, ReadBodyKeeps DEF ReadBody, sndVars
<1>6. CASE ChannelFirst
  BY <1>3, <1>6, ChannelFirstKeeps DEF ChannelFirst, sndVars
<1>7. CASE ChannelMore
  BY <1>3, <1>7, ChannelMoreKeeps DEF ChannelMore, sndVars
<1> QED
  BY <1>2, <1>4, <1>5, <1>6, <1>7 DEF Next, Reads, Writes

\* A byte that arrives behind a message belongs to another.
LEMMA PastTheEnd ==
  ASSUME IInv, verdict = "ok", Len(got) < Len(msgs), arrived > msgs[Len(got) + 1].to
  PROVE  Len(msgs) > Len(got) + 1
<1>1. Len(msgs) \in Nat /\ Len(got) \in Nat
  BY StreamTyped DEF IInv
<1>2. SUFFICES ASSUME Len(msgs) = Len(got) + 1 PROVE FALSE
  BY <1>1
<1>3. EndOf(Len(msgs)) = msgs[Len(got) + 1].to
  BY <1>1, <1>2 DEF EndOf
<1>4. EndOf(Len(msgs)) \in Nat
  BY <1>1, StreamTyped DEF IInv
<1>5. /\ written \in Nat /\ arrived \in Nat /\ arrived <= written
      /\ written <= EndOf(Len(msgs))
  <2>1. /\ written \in Nat /\ arrived \in 0 .. written /\ hand \in Nat
        /\ snd.pos \in Nat /\ snd.size \in Nat
    BY FramingAssumption DEF IInv, TypeOK
  <2> QED BY <1>4, <2>1 DEF IInv, SenderInStep
<1> QED
  BY <1>3, <1>4, <1>5

LEMMA OverrunExplained ==
  ASSUME IInv, InTurn, ReadBody, verdict' = "overrun"
  PROVE  Unasked' /\ Len(msgs') > Len(got') + 1
<1> DEFINE i == Len(got) + 1
           n == Least(ChunkSize, Available)
<1>1. /\ UNCHANGED <<link, msgs>> /\ verdict = "ok" /\ rd.pc = "body" /\ Available > 0
      /\ UNCHANGED got /\ Grown(rd.buf, n).pos > rd.need
  BY DEF ReadBody, sndVars
<1>2. taken \in Nat /\ arrived \in Nat /\ rd.buf \in [pos : Nat, size : Nat, alloc : Nat]
  BY DEF IInv, TypeOK
<1>3. n \in Nat /\ taken + n <= arrived
  BY <1>1, <1>2, FramingAssumption DEF Least, Available
<1>4. /\ Len(got) < Len(msgs) /\ i \in 1 .. Len(msgs)
      /\ msgs[i] \in [from : Nat, to : Nat]
      /\ rd.need = msgs[i].to - msgs[i].from
      /\ taken = msgs[i].from + rd.buf.pos
  BY <1>1, StreamTyped DEF IInv, ReaderInStep
<1>5. Grown(rd.buf, n).pos = rd.buf.pos + n
  <2> HIDE DEF n
  <2> QED BY <1>2, <1>3, GrownSound DEF IInv, BufferSound
<1>6. arrived > msgs[i].to
  <2> HIDE DEF n, i
  <2>1. rd.buf.pos + n > msgs[i].to - msgs[i].from
    BY <1>1, <1>4, <1>5
  <2>2. msgs[i].from \in Nat /\ msgs[i].to \in Nat /\ rd.buf.pos \in Nat
    BY <1>2, <1>4
  <2>3. taken = msgs[i].from + rd.buf.pos /\ n \in Nat /\ taken + n <= arrived
    BY <1>3, <1>4
  <2> QED BY <1>2, <2>1, <2>2, <2>3
<1> QED
  BY <1>1, <1>4, <1>6, PastTheEnd DEF InTurn, Unasked

\* A Channel, which is sent to in answer only, never reads past a message, and
\* takes a failed read for a size only if there was nothing to read.
LEMMA ChannelLoses ==
  ASSUME NEW start \in Nat, NEW buf \in [pos : Nat, size : Nat, alloc : Nat],
         NEW text
  PROVE  /\ IInv /\ InTurn /\ verdict = "ok" /\ ~ Unasked
         /\ Len(got) < Len(msgs)
         /\ start <= arrived /\ start = msgs[Len(got) + 1].from + buf.pos
         /\ buf.size = NeedOf(Len(got) + 1) /\ buf.pos < buf.size
         /\ ChannelTakes(start, NeedOf(Len(got) + 1), buf, text)
         => \/ verdict' = "ok"
            \/ verdict' = "garbage" /\ arrived = start
<1> DEFINE i == Len(got) + 1
           c == Least(ChunkSize, arrived - start)
<1>0. SUFFICES ASSUME IInv, InTurn, verdict = "ok", ~ Unasked,
                      Len(got) < Len(msgs),
                      start <= arrived, start = msgs[i].from + buf.pos,
                      buf.size = NeedOf(i), buf.pos < buf.size,
                      ChannelTakes(start, NeedOf(i), buf, text)
               PROVE  \/ verdict' = "ok"
                      \/ verdict' = "garbage" /\ arrived = start
  OBVIOUS
<1>1. /\ arrived \in Nat /\ Len(got) \in Nat /\ i \in 1 .. Len(msgs)
      /\ msgs[i] \in [from : Nat, to : Nat] /\ NeedOf(i) \in Sizes /\ NeedOf(i) \in Nat
  <2>1. arrived \in Nat
    BY <1>0 DEF IInv, TypeOK
  <2>2. i \in 1 .. Len(msgs) /\ Len(got) \in Nat
    BY <1>0, StreamTyped DEF IInv
  <2> QED BY <1>0, <2>1, <2>2, StreamTyped DEF IInv
<1>2. CASE arrived = start
  <2>1. verdict' = "garbage"
    BY <1>0, <1>2 DEF ChannelTakes
  <2> QED BY <1>2, <2>1
<1>3. CASE arrived > start
  <2>1. c = Least(ChunkSize, arrived - start) /\ arrived # start
    BY <1>0, <1>1, <1>3
  <2>2. c \in Nat /\ c <= ChunkSize /\ start + c <= arrived /\ ChunkSize \in Nat
    <3> HIDE DEF c, i
    <3> QED BY <1>1, <1>3, <2>1, FramingAssumption DEF Least
  <2>3. buf.pos + c < Word
    <3> HIDE DEF c
    <3>1. buf.size + ChunkSize + HeaderSize < Word
      BY <1>0, <1>1, FramingAssumption
    <3> HIDE DEF i
    <3>2. /\ HeaderSize \in Nat /\ HeaderSize > 0 /\ Word \in Nat
          /\ buf.pos \in Nat /\ buf.size \in Nat /\ buf.pos < buf.size
      BY <1>0, FramingAssumption
    <3> QED BY ONLY <2>2, <3>1, <3>2
  <2>4. arrived <= msgs[i].to
    <3>1. Len(msgs) <= i /\ Len(msgs) \in Nat
      BY <1>0, StreamTyped DEF IInv, InTurn
    <3>2. ~ (arrived > msgs[i].to)
      BY <1>0, <1>1, <3>1, PastTheEnd
    <3>3. msgs[i].to \in Nat
      BY <1>1
    <3> HIDE DEF i
    <3> QED BY <1>1, <3>2, <3>3
  <2>5. buf.pos + c <= buf.size
    <3>1. buf.size = msgs[i].to - msgs[i].from
      BY <1>0 DEF NeedOf
    <3>2. msgs[i].to \in Nat /\ msgs[i].from \in Nat /\ buf.pos \in Nat /\ arrived \in Nat
      BY <1>1
    <3>3. start = msgs[i].from + buf.pos
      BY <1>0
    <3> HIDE DEF c, i
    <3> QED BY ONLY <2>2, <2>4, <3>1, <3>2, <3>3
  <2>6. Accepted(buf, c) = c
    <3> HIDE DEF c, i
    <3> QED BY <1>0, <2>2, <2>3, <2>5 DEF Accepted, Plus
  <2>7. verdict' = IF Accepted(buf, c) < c THEN "overrun" ELSE verdict
    BY <1>0, <2>1 DEF ChannelTakes
  <2> HIDE DEF c
  <2> QED BY <1>0, <2>2, <2>6, <2>7
<1> QED
  BY <1>0, <1>1, <1>2, <1>3

LEMMA ChannelFirstLoses ==
  ASSUME IInv, InTurn, ChannelFirst
  PROVE  \/ verdict' = "ok"
         \/ /\ verdict' = "garbage" /\ link'.reader = "channel"
            /\ taken' = arrived' /\ arrived' = msgs'[Len(got')].from
<1> DEFINE i == Len(got) + 1
           buf == SizedWRONBuffer(NeedOf(i))
<1>1. /\ UNCHANGED <<link, msgs, arrived>> /\ verdict = "ok" /\ link.reader = "channel"
      /\ rd.pc = "size" /\ Available >= HeaderSize
      /\ ChannelTakes(taken + HeaderSize, NeedOf(i), buf, <<>>)
  BY DEF ChannelFirst, Next1, sndVars
<1>2. taken \in Nat /\ arrived \in Nat /\ HeaderSize \in Nat \ {0} /\ ~ Unasked
  BY <1>1, FramingAssumption DEF IInv, TypeOK, Links, Unasked
<1>3. Len(got) < Len(msgs) /\ i \in 1 .. Len(msgs) /\ i - 1 = Len(got)
  <2>1. Available > 0
    BY <1>1, <1>2 DEF Available
  <2> QED BY <1>1, <2>1, SomethingToRead, StreamTyped DEF IInv
<1>4. /\ NeedOf(i) \in Nat \ {0} /\ msgs[i].from \in Nat
      /\ msgs[i].from = EndOf(Len(got)) + HeaderSize
  BY <1>3, StreamTyped DEF IInv
<1>5. /\ buf \in [pos : Nat, size : Nat, alloc : Nat]
      /\ buf.pos = 0 /\ buf.size = NeedOf(i)
  BY <1>4 DEF SizedWRONBuffer
<1>6. taken + HeaderSize = msgs[i].from + buf.pos
  BY <1>1, <1>2, <1>4, <1>5 DEF IInv, ReaderInStep
<1>7. taken + HeaderSize \in Nat /\ taken + HeaderSize <= arrived
  BY <1>1, <1>2 DEF Available
<1>8. verdict' = "ok" \/ (verdict' = "garbage" /\ arrived = taken + HeaderSize)
  <2> HIDE DEF buf
  <2> QED BY <1>1, <1>2, <1>3, <1>4, <1>5, <1>6, <1>7, ChannelLoses
<1>9. ASSUME verdict' = "garbage", arrived = taken + HeaderSize
      PROVE  /\ taken' = arrived'
             /\ arrived' = msgs'[Len(got')].from
  <2>1. buf.pos + Accepted(buf, MinusOne) = NeedOf(i)
    <3>1. buf.size \in Sizes
      BY <1>3, <1>5, StreamTyped DEF IInv
    <3> HIDE DEF buf
    <3> QED BY <1>4, <1>5, <3>1, FailureAccepted
  <2>2. taken' = arrived /\ Len(got') = i
    <3>1. /\ taken' = taken + HeaderSize
          /\ got' = Append(got, <<>> \o Garbage(Accepted(buf, MinusOne)))
      <4> HIDE DEF buf
      <4> QED BY <1>1, <1>9, <2>1 DEF ChannelTakes
    <3>2. Len(got') = Len(got) + 1
      BY <3>1 DEF IInv, TypeOK
    <3> QED BY <1>9, <3>1, <3>2
  <2>3. arrived = msgs[i].from
    BY <1>4, <1>5, <1>6, <1>9
  <2> QED BY <1>1, <1>3, <2>2, <2>3
<1> QED
  BY <1>1, <1>8, <1>9

LEMMA ChannelMoreLoses ==
  ASSUME IInv, InTurn, ChannelMore
  PROVE  verdict' = "ok"
<1> DEFINE i == Len(got) + 1
<1>1. /\ verdict = "ok" /\ link.reader = "channel" /\ rd.pc = "body" /\ Available > 0
      /\ ChannelTakes(taken, rd.need, rd.buf, rd.text)
  BY DEF ChannelMore
<1>2. /\ taken \in Nat /\ arrived \in Nat /\ taken <= arrived /\ ~ Unasked
      /\ rd.buf \in [pos : Nat, size : Nat, alloc : Nat]
  BY <1>1 DEF IInv, TypeOK, Links, Unasked
<1>3. /\ Len(got) < Len(msgs) /\ rd.need = NeedOf(i) /\ rd.buf.size = rd.need
      /\ rd.buf.pos < rd.buf.size
      /\ taken = msgs[i].from + rd.buf.pos
  BY <1>1 DEF IInv, ReaderInStep, NeedOf
<1>4. verdict' = "ok" \/ arrived = taken
  BY <1>1, <1>2, <1>3, ChannelLoses
<1> QED
  BY <1>1, <1>2, <1>4 DEF Available

LEMMA LossExplained ==
  ASSUME IInv, InTurn, LostOnlyWhen, [Next]_vars
  PROVE  LostOnlyWhen'
<1>1. ASSUME verdict' = "ok" PROVE LostOnlyWhen'
  BY <1>1 DEF LostOnlyWhen
<1>2. CASE UNCHANGED vars
  BY <1>2 DEF LostOnlyWhen, Unasked, Free, vars, sndVars, netVars, rdVars
<1>3. CASE (\E n \in Sizes : Begin(n)) \/ Fill \/ WriteBlocking \/ Arrive \/ ReadSize
  <2>1. verdict' = "ok"
    BY <1>3 DEF Begin, Fill, WriteBlocking, Arrive, ReadSize, rdVars
  <2> QED BY <1>1, <2>1
<1>4. CASE WriteChannel
  <2>1. CASE hand <= Free
    BY <1>1, <1>4, <2>1 DEF WriteChannel
  <2>2. CASE ~ (hand <= Free)
    <3>1. verdict' = "lost" /\ UNCHANGED <<link, written, taken>> /\ link.sender = "channel"
      BY <1>4, <2>2 DEF WriteChannel
    <3>2. Free < ChunkSize
      BY <2>2, FramingAssumption DEF IInv, TypeOK, Free
    <3> QED BY <3>1, <3>2 DEF LostOnlyWhen, Free
  <2> QED BY <2>1, <2>2
<1>5. CASE SizeBroken
  <2>1. /\ verdict' = "broken" /\ UNCHANGED <<taken, arrived>>
        /\ Available \in 1 .. HeaderSize - 1
    BY <1>5 DEF SizeBroken, netVars
  <2>2. taken < arrived /\ arrived < taken + HeaderSize
    BY <2>1, FramingAssumption DEF IInv, TypeOK, Available
  <2> QED BY <2>1, <2>2 DEF LostOnlyWhen
<1>6. CASE ReadBody
  <2>1. verdict' = "ok" \/ verdict' = "overrun"
    BY <1>6 DEF ReadBody
  <2> QED BY <1>1, <1>6, <2>1, OverrunExplained DEF LostOnlyWhen
<1>7. CASE ChannelFirst
  BY <1>1, <1>7, ChannelFirstLoses DEF LostOnlyWhen
<1>8. CASE ChannelMore
  BY <1>1, <1>8, ChannelMoreLoses
<1> QED
  BY <1>2, <1>3, <1>4, <1>5, <1>6, <1>7, <1>8 DEF Next, Reads, Writes

\* The stream is lost in no other way, whatever the sizes: a partial size, a
\* size alone at a Channel, a frame behind a result, a full socket.
THEOREM LostHow == Spec => []LostOnlyWhen
<1>1. Init => InTurn /\ LostOnlyWhen
  BY DEF Init, InTurn, LostOnlyWhen
<1>2. IInv /\ InTurn /\ LostOnlyWhen /\ [Next]_vars => InTurn' /\ LostOnlyWhen'
  BY TurnKept, LossExplained
<1> QED
  BY <1>1, <1>2, Invariant, PTL DEF Spec
=============================================================================
