-------------------------- MODULE PollContractProofs --------------------------
(***************************************************************************)
(* What PollServer promises its clients until stop() is called, for any    *)
(* number of connections, calls, descriptors, workers and chunks, while    *)
(* the size of a message comes with the text behind it (~SizeAlone): it    *)
(* implements CallContract and watches for writing exactly the descriptors *)
(* it has to.                                                              *)
(*                                                                         *)
(* CallInv says of each connection where its request is: still to be read, *)
(* in the Channel, at a worker, being written, or answered; at one of      *)
(* these places at most, however the loop thread and the workers take      *)
(* turns.  ReadInv says that what poll() reported for reading still has    *)
(* something to read when its turn comes, so that a Channel is closed only *)
(* when its client has left or has sent what nobody accepts (ClosesOver).  *)
(***************************************************************************)
EXTENDS PollServerProofs

-----------------------------------------------------------------------------
(* The places of a request *)

Arriving(c) == up[c] # <<>> \/ chan[c].inbox = "part"
Queued(c) == chan[c].inbox \in RequestKinds
Serving(w, c) == work[w].chan = c /\ work[w].pc \in {"notify", "handle"}
Replying(w, c) == work[w].chan = c /\ work[w].pc = "lock"
Has(w, c) == Serving(w, c) \/ Replying(w, c)
Sending(c) == chan[c].left > 0
Answered(c) == down[c] # <<>>

Nowhere(c) ==
  /\ ~Arriving(c) /\ ~Queued(c) /\ ~Sending(c) /\ ~Answered(c)
  /\ \A w \in Workers : ~Has(w, c)

OnePlace(c) ==
  /\ Arriving(c) => ~Queued(c) /\ ~Sending(c) /\ ~Answered(c)
  /\ Queued(c) => ~Sending(c) /\ ~Answered(c)
  /\ Sending(c) => ~Answered(c)
  /\ \A w \in Workers : Has(w, c) =>
       /\ ~Arriving(c) /\ ~Queued(c) /\ ~Sending(c) /\ ~Answered(c)
       /\ \A v \in Workers : Has(v, c) => v = w

-----------------------------------------------------------------------------
(* The books of a client, and what they say of the request where it is *)

Outstanding(c) == calls[c] = acked[c] + denied[c] + 1
Settled(c) == calls[c] = acked[c] + denied[c] /\ executed[c] = acked[c]

\* A client that saw its connection closed knows nothing of its last call.
Books(c) ==
  /\ client[c] # "stuck"
  /\ client[c] \in {"none", "idle", "refused"} => Settled(c) /\ Nowhere(c)
  /\ client[c] \in {"half", "waiting"} => Outstanding(c)
  /\ client[c] = "failed" => hup[c] /\ calls[c] = acked[c] + denied[c]
  /\ client[c] \in {"failed"} \cup Gone => ~Answered(c)
  /\ acked[c] <= executed[c] /\ executed[c] <= calls[c]

\* A call that has not run, and whose client waits for it, has left or gave it up.
Unexecuted(c) ==
  /\ client[c] \in {"half", "waiting", "failed"} \cup Gone
  /\ executed[c] = acked[c] /\ executed[c] < calls[c]
  /\ client[c] # "failed" => Outstanding(c)

\* A result stands for one execution the client does not know of yet.
Owed(c, frame) ==
  /\ client[c] \in {"waiting", "failed"} \cup Gone
  /\ executed[c] = IF frame = "result" THEN acked[c] + 1 ELSE acked[c]

Story(c) ==
  /\ Arriving(c) \/ Queued(c) \/ (\E w \in Workers : Serving(w, c)) => Unexecuted(c)
  /\ \A w \in Workers : Replying(w, c) => Owed(c, work[w].held)
  /\ Sending(c) => Owed(c, chan[c].out)
  /\ Answered(c) => Owed(c, Head(down[c])) /\ Tail(down[c]) = <<>>

Shape(c) ==
  /\ client[c] = "half" =>
       IF chan[c].inbox = "part" THEN up[c] = <<>> ELSE HalfRequest(up[c])
  /\ IF chan[c].inbox = "part" THEN Rest(up[c]) ELSE Request(up[c])

InOrder(c) == OnePlace(c) /\ Books(c) /\ Story(c) /\ Shape(c)

CallInv == \A c \in Conn : InOrder(c)

\* The Channel has been closed, or is about to be.
Ended(c) == hup[c] \/ (loop.pc = "close" /\ loop.chan = c)

\* Until stop() it is only when its client has left, or when nothing of the
\* client's is under way that could still run.
Over(c) ==
  \/ client[c] \in Gone
  \/ client[c] \in {"waiting", "failed"} /\ Nowhere(c) /\ executed[c] = acked[c]

EndsOver(c) == Ended(c) => Over(c)

ClosesOver == \A c \in Conn : EndsOver(c)

\* The server's end is closed with its Channel, once, and before the Channel is
\* deleted; a descriptor is that of the Channel it was handed out to.
DescInv ==
  /\ HupHolds
  /\ \A c \in Conn : hup[c] <=> ~chan[c].alive
  /\ \A f \in Fd : owner[f] \in Conn => fdOf[owner[f]] = f
  /\ \A c \in deleted : ~chan[c].alive
  /\ loop.pc \in {"unwatch", "drop"} => ~chan[loop.chan].alive

-----------------------------------------------------------------------------
(* What select() reported *)

\* The descriptor whose Channel has been read, until it is done with.
AtHand == IF loop.pc \in {"close", "unwatch", "drop"} THEN {Min(loop.reads)} ELSE {}

ReadInv ==
  /\ loop.pc = "select" => snap.reads = readSet
  /\ \A f \in loop.reads \ ({Listen} \cup AtHand) : f \in readSet /\ HasInput(f)

-----------------------------------------------------------------------------
(* What the steps leave alone *)

\* The process dies, or nothing happens.
Frozen == UNCHANGED <<pollVars, loopVars, chanVars, poolVars, mainVars, wireVars>>

\* When the text comes with its size, only requests are handed on.
LEMMA AllRequests ==
  ASSUME ~SizeAlone
  PROVE  Messages = RequestKinds
BY DEF Messages

LEMMA NoGarbage ==
  ASSUME ~SizeAlone, Base, NEW w \in Workers
  PROVE  ~HandleGarbage(w)
<1>1. work[w].held \in {"nothing"} \cup RequestKinds \cup Frames
  BY AllRequests, Types DEF WorkType
<1> QED
  BY <1>1 DEF HandleGarbage, RequestKinds, Frames, ErrorCodes

LEMMA WorkFrame ==
  ASSUME Base, NEW w \in Workers, WorkNext(w)
  PROVE  /\ UNCHANGED <<main, channels, deleted, fdVars, readSet, snap, up, calls, acked, denied>>
         /\ UNCHANGED loop \/ (loop.pc = "waiting" /\ loop' = [loop EXCEPT !.pc = "check"])
         /\ \A d \in Conn : chan'[d].alive = chan[d].alive
         /\ \A d \in Conn : \/ client'[d] = client[d]
                            \/ client[d] = "closed" /\ client'[d] = "reset"
<1>0. /\ chan \in [Conn -> Channel] /\ client \in [Conn -> ClientStates]
      /\ work \in [Workers -> WorkType]
  BY Types DEF WireTypeOK
<1>1. /\ UNCHANGED <<main, channels, deleted, fdVars, snap>>
      /\ UNCHANGED readSet \/ WatchWrite(w)
      /\ UNCHANGED loop \/ Notify(w)
      /\ UNCHANGED clientVars \/ WriteFirst(w)
      /\ UNCHANGED chan \/ GetMessage(w) \/ Unlock(w) \/ WriteFirst(w) \/ Lock(w)
  BY DEF WorkNext, Take, GetMessage, Notify, Handle, HandleGarbage, Lock, WriteFirst, WatchWrite,
         Unlock,
         Touches, Crash, pollVars, loopVars, chanVars, mainVars, wireVars
<1>2. UNCHANGED readSet
  BY <1>1 DEF WatchWrite, Touches, Crash, pollVars, Poll!Watch
<1>3. UNCHANGED loop \/ (loop.pc = "waiting" /\ loop' = [loop EXCEPT !.pc = "check"])
  BY <1>1 DEF Notify, Touches, Crash, loopVars
<1>4. CASE UNCHANGED <<chan, clientVars>>
  BY <1>1, <1>2, <1>3, <1>4 DEF clientVars
<1>5. CASE GetMessage(w) \/ Unlock(w)
  <2>1. UNCHANGED clientVars
    BY <1>5 DEF GetMessage, Unlock, Touches, Crash, wireVars
  <2>2. \/ UNCHANGED chan
        \/ \E c : chan' = [chan EXCEPT ![c].inbox = "none", ![c].busy = FALSE]
        \/ \E c : chan' = [chan EXCEPT ![c].locked = FALSE]
    BY <1>5 DEF GetMessage, Unlock, Touches, Crash, chanVars
  <2>3. ASSUME NEW c, chan' = [chan EXCEPT ![c].inbox = "none", ![c].busy = FALSE]
        PROVE  \A d \in Conn : chan'[d].alive = chan[d].alive
    BY <1>0, <2>3 DEF Channel
  <2>4. ASSUME NEW c, chan' = [chan EXCEPT ![c].locked = FALSE]
        PROVE  \A d \in Conn : chan'[d].alive = chan[d].alive
    BY <1>0, <2>4 DEF Channel
  <2> QED
    BY <1>1, <1>2, <1>3, <2>1, <2>2, <2>3, <2>4 DEF clientVars
<1>6. CASE Lock(w)
  <2>1. UNCHANGED clientVars
    BY <1>6 DEF Lock, Touches, Crash, wireVars
  <2>2. \/ UNCHANGED chan
        \/ \E out, n : chan' = [chan EXCEPT ![work[w].chan].locked = TRUE,
                                            ![work[w].chan].out = out,
                                            ![work[w].chan].left = n]
    BY <1>6 DEF Lock, Touches, Crash, chanVars
  <2>3. ASSUME NEW out, NEW n, chan' = [chan EXCEPT ![work[w].chan].locked = TRUE,
                                            ![work[w].chan].out = out,
                                            ![work[w].chan].left = n]
        PROVE  \A d \in Conn : chan'[d].alive = chan[d].alive
    BY <1>0, <2>3 DEF Channel
  <2> QED
    BY <1>1, <1>2, <1>3, <2>1, <2>2, <2>3 DEF clientVars
<1>7. CASE WriteFirst(w)
  <2>1. UNCHANGED <<chan, clientVars>> \/ (WriteChunk(work[w].chan) /\ work[w].pc = "write")
    BY <1>7 DEF WriteFirst, Touches, Crash, chanVars, wireVars
  <2>2. CASE UNCHANGED <<chan, clientVars>>
    BY <1>1, <1>2, <1>3, <2>2 DEF clientVars
  <2>3. CASE WriteChunk(work[w].chan) /\ work[w].pc = "write"
    <3>1. work[w].chan \in Conn
      BY <2>3, WorkerHas
    <3>2. /\ UNCHANGED <<up, calls, acked, denied>>
          /\ \A d \in Conn : client'[d] = client[d] \/ (client[d] = "closed" /\ client'[d] = "reset")
      BY <1>0, <1>1, <2>3, <3>1, WriteChunkFacts, Types, StandStill
    <3>3. \A d \in Conn : chan'[d].alive = chan[d].alive
      BY <1>0, <2>3, ChunkLocks
    <3> QED
      BY <1>1, <1>2, <1>3, <3>2, <3>3
  <2> QED
    BY <2>1, <2>2, <2>3
<1> QED
  BY <1>1, <1>4, <1>5, <1>6, <1>7

LEMMA LoopWritesFrame ==
  ASSUME Base, WriteMore \/ UnwatchWrite
  PROVE  /\ UNCHANGED <<main, channels, deleted, fdVars, readSet, snap, up, calls, acked, denied>>
         /\ loop.pc \in {"writes", "written"} /\ loop'.pc \in {"writes", "written"}
         /\ loop'.reads = loop.reads
         /\ \A d \in Conn : chan'[d].alive = chan[d].alive
         /\ \A d \in Conn : \/ client'[d] = client[d]
                            \/ client[d] = "closed" /\ client'[d] = "reset"
<1>0. /\ chan \in [Conn -> Channel] /\ loop \in LoopType /\ WireTypeOK
  BY Types
<1>1. UNCHANGED <<main, channels, deleted, fdVars, readSet, snap>>
  BY DEF WriteMore, UnwatchWrite, Poll!Unwatch, pollVars, chanVars, mainVars, wireVars
<1>2. /\ loop.pc \in {"writes", "written"} /\ loop'.pc \in {"writes", "written"}
      /\ loop'.reads = loop.reads
  <2>1. /\ loop.pc \in {"writes", "written"}
        /\ \/ UNCHANGED loop \/ loop' = [loop EXCEPT !.pc = "written"]
           \/ loop' = [loop EXCEPT !.writes = @ \ {Min(@)}]
           \/ loop' = [loop EXCEPT !.pc = "writes", !.writes = @ \ {Min(@)}]
    BY DEF WriteMore, UnwatchWrite, LoopGoes, WriteNextOne
  <2> QED
    BY <1>0, <2>1 DEF LoopType
<1>3. \/ UNCHANGED <<chan, clientVars>>
      \/ WriteMore /\ loop.writes # {} /\ Min(loop.writes) \in DOMAIN channels
         /\ WriteChunk(channels[Min(loop.writes)])
  BY DEF WriteMore, UnwatchWrite, chanVars, wireVars
<1>4. CASE UNCHANGED <<chan, clientVars>>
  BY <1>1, <1>2, <1>4 DEF clientVars
<1>5. CASE Min(loop.writes) \in DOMAIN channels /\ WriteChunk(channels[Min(loop.writes)])
  <2>1. PICK c \in Conn : c = channels[Min(loop.writes)]
    BY <1>5 DEF Base, TypeInv, KnownOnly, Known
  <2>2. /\ UNCHANGED <<up, calls, acked, denied>>
        /\ \A d \in Conn : client'[d] = client[d] \/ (client[d] = "closed" /\ client'[d] = "reset")
    BY <1>0, <1>1, <1>5, <2>1, WriteChunkFacts, StandStill
  <2>3. \A d \in Conn : chan'[d].alive = chan[d].alive
    BY <1>0, <1>5, ChunkLocks
  <2> QED
    BY <1>1, <1>2, <2>2, <2>3
<1> QED
  BY <1>3, <1>4, <1>5

\* A read moves nothing but the Channel's message, its stream and the queue.
LEMMA ReadFrames ==
  ASSUME Base, NEW c, Reads(c), GivesUp(c) \/ HasSize(c) \/ \E kind : HasAll(c, kind)
  PROVE  /\ c \in Conn /\ (loop' = [loop EXCEPT !.pc = "close"] \/ NextOne)
         /\ \A d \in Conn : chan'[d].alive = chan[d].alive
         /\ \A d \in Conn \ {c} : up'[d] = up[d] /\ chan'[d] = chan[d]
<1>0. c \in Conn /\ chan \in [Conn -> Channel] /\ up \in [Conn -> Seq(Units)]
  BY Types, StandStill DEF Reads, ReadsAt, AtChannel, WireTypeOK
<1>1. loop' = [loop EXCEPT !.pc = "close"] \/ NextOne
  BY DEF GivesUp, HasSize, HasAll, Ready
<1>2. /\ \A d \in Conn : chan'[d].alive = chan[d].alive
      /\ \A d \in Conn \ {c} : chan'[d] = chan[d]
  <2>1. \/ UNCHANGED chan
        \/ chan' = [chan EXCEPT ![c].busy = TRUE]
        \/ chan' = [chan EXCEPT ![c].inbox = "part"]
        \/ \E kind : chan' = [chan EXCEPT ![c].inbox = kind, ![c].busy = TRUE]
    BY DEF GivesUp, HasSize, HasAll, Ready
  <2>2. CASE chan' = [chan EXCEPT ![c].busy = TRUE]
    BY <1>0, <2>2 DEF Channel
  <2>3. CASE chan' = [chan EXCEPT ![c].inbox = "part"]
    BY <1>0, <2>3 DEF Channel
  <2>4. ASSUME NEW kind, chan' = [chan EXCEPT ![c].inbox = kind, ![c].busy = TRUE]
        PROVE  /\ \A d \in Conn : chan'[d].alive = chan[d].alive
               /\ \A d \in Conn \ {c} : chan'[d] = chan[d]
    BY <1>0, <2>4 DEF Channel
  <2> QED
    BY <2>1, <2>2, <2>3, <2>4
<1>3. \A d \in Conn \ {c} : up'[d] = up[d]
  <2>1. UNCHANGED up \/ \E s : up' = [up EXCEPT ![c] = s]
    BY DEF GivesUp, HasSize, HasAll
  <2> QED
    BY <1>0, <2>1
<1> QED
  BY <1>0, <1>1, <1>2, <1>3

-----------------------------------------------------------------------------
(* Descriptors and Channels, until stop() *)

LEMMA DescSame ==
  ASSUME DescInv, UNCHANGED <<owner, fdOf, hup, deleted>>,
         \A d \in Conn : chan'[d].alive = chan[d].alive, deleted \subseteq Conn,
         loop'.pc \in {"unwatch", "drop"} =>
           loop.pc \in {"unwatch", "drop"} /\ loop'.chan = loop.chan /\ loop.chan \in Conn
  PROVE  DescInv'
<1>1. HupHolds'
  BY DEF DescInv, HupHolds, Holds
<1>2. (\A f \in Fd : owner[f] \in Conn => fdOf[owner[f]] = f)'
  BY DEF DescInv
<1>3. (\A c \in Conn : hup[c] <=> ~chan[c].alive)'
  BY DEF DescInv
<1>4. (\A c \in deleted : ~chan[c].alive)'
  BY DEF DescInv
<1>5. (loop.pc \in {"unwatch", "drop"} => ~chan[loop.chan].alive)'
  BY DEF DescInv
<1> QED
  BY <1>1, <1>2, <1>3, <1>4, <1>5 DEF DescInv

LEMMA AcceptDesc ==
  ASSUME Base, DescInv, NEW f \in Fd, NEW c, Accepts(f, c)
  PROVE  DescInv'
<1>0. /\ c \in Conn /\ fdOf[c] = NoFd /\ fdOf' = [fdOf EXCEPT ![c] = f]
      /\ owner' = [owner EXCEPT ![f] = c] /\ owner[f] = Free
      /\ UNCHANGED <<hup, chan, deleted>> /\ loop'.pc = "reads"
  BY DEF Accepts, Base, TypeInv, NotYet
<1>1. fdOf \in [Conn -> Fd \cup {NoFd}] /\ owner \in [Fd -> Conn \cup {Free, App}]
  BY Types DEF WireTypeOK
<1>2. HupHolds'
  BY <1>0, <1>1 DEF DescInv, HupHolds, Holds
<1>3. \A g \in Fd : owner'[g] \in Conn => fdOf'[owner'[g]] = g
  <2> SUFFICES ASSUME NEW g \in Fd, owner'[g] \in Conn PROVE fdOf'[owner'[g]] = g
    OBVIOUS
  <2>1. CASE g = f
    BY <1>0, <1>1, <2>1
  <2>2. CASE g # f
    <3>1. owner'[g] = owner[g] /\ fdOf[owner[g]] = g
      BY <1>0, <1>1, <2>2 DEF DescInv
    <3>2. owner[g] # c
      BY <1>0, <3>1, FdFacts
    <3> QED
      BY <1>0, <1>1, <3>1, <3>2
  <2> QED
    BY <2>1, <2>2
<1> QED
  BY <1>0, <1>2, <1>3 DEF DescInv

\* close() by the loop thread, which has the descriptor's Channel in hand.
LEMMA LoopCloses ==
  ASSUME Base, OpenInv, CloseChannel
  PROVE  \/ Frozen
         \/ /\ CloseChan(loop.chan) /\ loop' = [loop EXCEPT !.pc = "unwatch"]
            /\ loop'.pc = "unwatch" /\ loop'.chan = loop.chan /\ loop'.reads = loop.reads
            /\ UNCHANGED <<pollVars, snap, channels, deleted, poolVars, mainVars, clientVars>>
            /\ loop.chan \in Conn /\ fdOf[loop.chan] = Min(loop.reads)
            /\ Min(loop.reads) \in Fd /\ loop.pc = "close"
            /\ owner[Min(loop.reads)] \in {loop.chan, Free}
<1>1. Frozen \/ Min(loop.reads) \in DOMAIN channels
  BY DEF CloseChannel, Crash, Frozen
<1>2. ASSUME Min(loop.reads) \in DOMAIN channels
      PROVE  /\ CloseChan(loop.chan) /\ loop' = [loop EXCEPT !.pc = "unwatch"]
             /\ UNCHANGED <<pollVars, snap, channels, deleted, poolVars, mainVars, clientVars>>
             /\ loop.pc = "close"
  BY <1>2 DEF CloseChannel, LoopGoes
<1>3. loop \in LoopType
  BY Types
<1>4. loop' = [loop EXCEPT !.pc = "unwatch"] =>
        loop'.pc = "unwatch" /\ loop'.chan = loop.chan /\ loop'.reads = loop.reads
  BY <1>3 DEF LoopType
<1>5. loop.pc = "close" => /\ loop.chan \in Conn /\ fdOf[loop.chan] = Min(loop.reads)
                           /\ Min(loop.reads) \in Fd
                           /\ owner[Min(loop.reads)] \in {loop.chan, Free}
  BY StandStill DEF AtChannel, OpenInv, LoopOwns, OwnOrFree
<1> QED
  BY <1>1, <1>2, <1>4, <1>5

\* It ends the connection of that Channel, and of no other.
LEMMA EndsOne ==
  ASSUME Base, OpenInv, NEW c \in Conn, CloseChan(c), fdOf[c] \in Fd,
         owner[fdOf[c]] \in {c, Free}
  PROVE  /\ \A d \in Conn \ {c} : hup'[d] = hup[d] /\ chan'[d] = chan[d]
         /\ chan'[c].alive = FALSE /\ (chan[c].alive \/ hup[c] => hup'[c])
         /\ \A g \in Fd : g # fdOf[c] => owner'[g] = owner[g]
         /\ owner'[fdOf[c]] = Free
<1>0. /\ chan \in [Conn -> Channel] /\ owner \in [Fd -> Conn \cup {Free, App}]
      /\ chan' = [chan EXCEPT ![c].alive = FALSE]
      /\ hup' = [d \in Conn |-> hup[d] \/ (Holds(d) /\ fdOf[d] = fdOf[c])]
      /\ owner' = [f \in Fd |-> IF f = fdOf[c] THEN Free ELSE owner[f]]
      /\ hup \in [Conn -> BOOLEAN]
  BY Types DEF CloseChan, CloseFd, Close, WireTypeOK
<1>1. \A d \in Conn \ {c} : ~(Holds(d) /\ fdOf[d] = fdOf[c])
  BY FdFacts DEF Holds
<1>2. chan[c].alive => Holds(c)
  BY DEF OpenInv, AliveHolds
<1>3. \A d \in Conn \ {c} : chan'[d] = chan[d]
  BY <1>0
<1>4. chan'[c].alive = FALSE
  BY <1>0 DEF Channel
<1>5. \A d \in Conn \ {c} : hup'[d] = hup[d]
  BY <1>0, <1>1
<1>6. chan[c].alive \/ hup[c] => hup'[c]
  BY <1>0, <1>2
<1> QED
  BY <1>0, <1>3, <1>4, <1>5, <1>6

LEMMA CloseDesc ==
  ASSUME Base, OpenInv, DescInv, CloseChannel
  PROVE  DescInv'
<1>1. CASE Frozen
  BY <1>1, DescSame, Types, StandStill
     DEF Frozen, wireVars, fdVars, chanVars, loopVars, Base, TypeInv, TypeOK, PollTypeOK, AtChannel
<1>2. CASE ~Frozen
  <2> DEFINE c == loop.chan
  <2>1. /\ CloseChan(c) /\ loop'.pc = "unwatch" /\ loop'.chan = c /\ UNCHANGED deleted
        /\ c \in Conn /\ fdOf[c] \in Fd /\ owner[fdOf[c]] \in {c, Free}
    BY <1>2, LoopCloses
  <2>2. /\ WireTypeOK /\ Close(fdOf[c]) /\ UNCHANGED fdOf
    BY <2>1, Types DEF CloseChan, CloseFd
  <2>3. HupHolds'
    BY <2>2, CloseKeepsHup DEF DescInv
  <2>4. /\ \A d \in Conn \ {c} : hup'[d] = hup[d] /\ chan'[d] = chan[d]
        /\ chan'[c].alive = FALSE /\ hup'[c]
        /\ \A g \in Fd : owner'[g] = owner[g] \/ owner'[g] = Free
    BY <2>1, EndsOne DEF DescInv
  <2>5. \A d \in Conn : hup'[d] <=> ~chan'[d].alive
    BY <2>4 DEF DescInv
  <2>6. \A f \in Fd : owner'[f] \in Conn => fdOf'[owner'[f]] = f
    BY <2>2, <2>4, FdFacts DEF DescInv
  <2>7. \A d \in deleted' : ~chan'[d].alive
    BY <2>1, <2>4 DEF DescInv, Base, TypeInv, TypeOK, PollTypeOK
  <2> QED
    BY <2>1, <2>3, <2>4, <2>5, <2>6, <2>7 DEF DescInv
<1> QED
  BY <1>1, <1>2

\* What the drop does to the map, which it takes the Channel in hand from.
LEMMA Drops ==
  ASSUME Base, DropChannel
  PROVE  /\ UNCHANGED <<snap, chan, poolVars, mainVars, crash, wireVars, readSet>>
         /\ loop.pc = "drop" /\ NextOne /\ loop'.pc = "reads" /\ loop'.chan = loop.chan
         /\ loop'.reads = loop.reads \ {Min(loop.reads)} /\ loop'.writes = loop.writes
         /\ loop'.accepted = loop.accepted
         /\ deleted' \subseteq deleted \cup {loop.chan} /\ deleted \subseteq deleted'
         /\ Min(loop.reads) \in DOMAIN channels => loop.chan \in deleted'
         /\ channels' = [g \in DOMAIN channels \ {Min(loop.reads)} |-> channels[g]]
<1>1. /\ UNCHANGED <<snap, chan, poolVars, mainVars, crash, wireVars>>
      /\ loop.pc = "drop" /\ NextOne
      /\ channels' = [g \in DOMAIN channels \ {Min(loop.reads)} |-> channels[g]]
      /\ deleted' = deleted \cup {channels[g] : g \in {Min(loop.reads)} \cap DOMAIN channels}
  BY DEF DropChannel
<1>2. UNCHANGED readSet
  BY DEF DropChannel, Poll!Unwatch
<1>3. Min(loop.reads) \in DOMAIN channels => channels[Min(loop.reads)] = loop.chan
  BY <1>1, StandStill DEF AtChannel
<1>4. /\ loop'.pc = "reads" /\ loop'.chan = loop.chan
      /\ loop'.reads = loop.reads \ {Min(loop.reads)} /\ loop'.writes = loop.writes
      /\ loop'.accepted = loop.accepted
  BY <1>1, Types DEF NextOne, LoopType
<1> QED
  BY <1>1, <1>2, <1>3, <1>4

LEMMA DropDesc ==
  ASSUME Base, DescInv, DropChannel
  PROVE  DescInv'
<1>1. /\ UNCHANGED <<chan, owner, fdOf, hup>> /\ loop.pc = "drop" /\ loop'.pc = "reads"
      /\ deleted' \subseteq deleted \cup {loop.chan}
  BY Drops DEF wireVars, fdVars
<1>2. HupHolds'
  BY <1>1 DEF DescInv, HupHolds, Holds
<1> QED
  BY <1>1, <1>2 DEF DescInv

\* The steps there are, and those until stop() is called.
Reading(c) == Reads(c) /\ (GivesUp(c) \/ HasSize(c) \/ \E kind : HasAll(c, kind))
Accepting(c) == Listen \in loop.reads /\ \E f \in Fd : Accepts(f, c)
ClientStepOf(c) == ClientNext(c) /\ Environment

LEMMA Steps ==
  ASSUME ~SizeAlone, Base, [Next]_vars
  PROVE  \/ Frozen
         \/ /\ crash = "no"
            /\ \/ LoopOnly \/ (\E c : Accepting(c)) \/ (\E c : Reading(c))
               \/ CloseChannel \/ UnwatchRead \/ DropChannel \/ WriteMore \/ UnwatchWrite
               \/ (\E w \in Workers : WorkNext(w)) \/ (\E c \in Conn : ClientStepOf(c))
               \/ MainNext
<1>1. CASE UNCHANGED vars
  BY <1>1 DEF vars, Frozen
<1>2. CASE Next
  <2>0. crash = "no"
    BY <1>2 DEF Next
  <2>2. CASE Accept
    <3>1. FreeFds = {} => Frozen
      BY <2>2 DEF Accept, Crash, Frozen
    <3>2. Listen \in loop.reads
      <4>1. loop.reads # {} /\ Min(loop.reads) = Listen
        BY <2>2 DEF Accept, NextRead
      <4> QED
        BY <4>1, MinIn, Types DEF LoopType
    <3>3. FreeFds # {} => \E c : Accepting(c)
      BY <2>2, <3>2, AcceptFacts DEF Accepting
    <3> QED
      BY <2>0, <3>1, <3>3
  <2>3. CASE ReadSize \/ (ReadBody /\ ~Crash("memcpy"))
    <3>1. PICK c : c = loop.chan
      OBVIOUS
    <3>2. Reading(c)
      BY <2>3, <3>1, ReadCases DEF Reading
    <3> QED
      BY <2>0, <3>2
  <2>4. CASE Crash("memcpy")
    BY <2>4 DEF Crash, Frozen
  <2>6. CASE (ReadAlone \/ ReadAstray) /\ ~Crash("memcpy")
    BY <2>6, ReadAloneCases DEF HasGarbage, IsAstray
  <2>5. CASE Environment
    <3>1. \E c \in Conn : ClientStepOf(c)
      BY <2>5 DEF Environment, ClientStepOf
    <3> QED
      BY <2>0, <3>1
  <2> QED
    BY <1>2, <2>0, <2>2, <2>3, <2>4, <2>5, <2>6 DEF Next, LoopNext, LoopOnly
<1> QED
  BY <1>1, <1>2

LEMMA StepsBefore ==
  ASSUME ~SizeAlone, Base, [Next]_vars, main.pc = "running", main'.pc = "running"
  PROVE  /\ ~MainNext
         /\ \/ Frozen
            \/ /\ crash = "no"
               /\ \/ LoopOnly \/ (\E c : Accepting(c)) \/ (\E c : Reading(c))
                  \/ CloseChannel \/ UnwatchRead \/ DropChannel \/ WriteMore \/ UnwatchWrite
                  \/ (\E w \in Workers : WorkNext(w)) \/ (\E c \in Conn : ClientStepOf(c))
<1>1. ~MainNext
  <2>1. StopBegin => main'.pc = "each"
    BY Types DEF StopBegin, MainType
  <2> QED
    BY <2>1 DEF MainNext, StopBegin, StopEach, StopClose, SetStop
<1> QED
  BY <1>1, Steps

\* A server's end that is closed stays closed: an accept() is of another connection.
LEMMA HupKept ==
  ASSUME ~SizeAlone, Base, OpenInv, HupHolds, [Next]_vars
  PROVE  HupHolds'
<1>0. WireTypeOK
  BY Types
<1>1. CASE UNCHANGED <<owner, fdOf, hup>>
  BY <1>1 DEF HupHolds, Holds
<1>2. CASE \E c : Accepting(c)
  <2>0. PICK c : Accepting(c)
    BY <1>2
  <2>1. PICK f \in Fd : Accepts(f, c)
    BY <2>0 DEF Accepting
  <2>2. /\ c \in Conn /\ fdOf[c] = NoFd /\ fdOf' = [fdOf EXCEPT ![c] = f]
        /\ owner' = [owner EXCEPT ![f] = c] /\ UNCHANGED hup
    BY <2>1 DEF Accepts, Base, TypeInv, NotYet
  <2> QED
    BY <1>0, <2>2, FdFacts DEF HupHolds, Holds, WireTypeOK
<1>3. CASE CloseChannel \/ MainNext
  <2>1. UNCHANGED <<owner, fdOf, hup>> \/ \E n : Close(n) /\ UNCHANGED fdOf
    BY <1>3 DEF CloseChannel, MainNext, StopBegin, StopEach, StopClose, SetStop, Crash, CloseChan,
                CloseFd, wireVars, fdVars
  <2> QED
    BY <1>0, <1>1, <2>1, CloseKeepsHup
<1>4. CASE LoopOnly \/ (\E c : Reading(c)) \/ UnwatchRead \/ DropChannel
  <2>1. UNCHANGED fdVars
    BY <1>4, LoopOnlyFacts DEF Reading, Reads, ReadsAt, UnwatchRead, DropChannel, wireVars
  <2> QED
    BY <1>1, <2>1 DEF fdVars
<1>5. CASE WriteMore \/ UnwatchWrite \/ \E w \in Workers : WorkNext(w)
  BY <1>1, <1>5, LoopWritesFrame, WorkFrame DEF fdVars
<1>6. CASE Frozen \/ \E c \in Conn : ClientStepOf(c)
  BY <1>1, <1>6, ClientPresent DEF Frozen, ClientStepOf, wireVars, fdVars
<1> QED
  BY <1>2, <1>3, <1>4, <1>5, <1>6, Steps

LEMMA DescKept ==
  ASSUME ~SizeAlone, Base, OpenInv, DescInv, [Next]_vars, main.pc = "running", main'.pc = "running"
  PROVE  DescInv'
<1>0. /\ deleted \subseteq Conn /\ loop \in LoopType
      /\ loop.pc \in AtChannel => loop.chan \in Conn
  BY Types, StandStill DEF Base, TypeInv, TypeOK, PollTypeOK
<1>1. CASE Frozen
  BY <1>0, <1>1, DescSame DEF Frozen, wireVars, fdVars, chanVars, loopVars, AtChannel
<1>2. CASE LoopOnly
  <2>1. UNCHANGED <<wireVars, OwnRest>> /\ loop'.pc \notin {"unwatch", "drop"}
    BY <1>2, LoopOnlyFacts
  <2> QED
    BY <1>0, <2>1, DescSame DEF wireVars, fdVars, OwnRest
<1>3. CASE \E c : Accepting(c)
  BY <1>3, AcceptDesc DEF Accepting
<1>4. CASE \E c : Reading(c)
  <2>1. PICK c : Reading(c)
    BY <1>4
  <2>2. /\ loop' = [loop EXCEPT !.pc = "close"] \/ NextOne
        /\ \A d \in Conn : chan'[d].alive = chan[d].alive
    BY <2>1, ReadFrames DEF Reading
  <2>3. loop'.pc \notin {"unwatch", "drop"}
    BY <1>0, <2>2 DEF LoopType, NextOne
  <2>4. UNCHANGED <<owner, fdOf, hup, deleted>>
    BY <2>1 DEF Reading, Reads, ReadsAt, fdVars
  <2> QED
    BY <1>0, <2>2, <2>3, <2>4, DescSame
<1>5. CASE CloseChannel \/ DropChannel
  BY <1>5, CloseDesc, DropDesc
<1>6. CASE UnwatchRead
  <2>1. /\ UNCHANGED <<owner, fdOf, hup, deleted, chan>>
        /\ loop.pc = "unwatch" /\ loop'.chan = loop.chan
    BY <1>0, <1>6 DEF UnwatchRead, LoopGoes, LoopType, wireVars, fdVars, chanVars
  <2> QED
    BY <1>0, <2>1, DescSame DEF AtChannel
<1>7. CASE WriteMore \/ UnwatchWrite
  BY <1>0, <1>7, LoopWritesFrame, DescSame DEF fdVars
<1>8. CASE \E w \in Workers : WorkNext(w)
  <2>1. PICK w \in Workers : WorkNext(w)
    BY <1>8
  <2>2. /\ UNCHANGED <<owner, fdOf, hup, deleted>>
        /\ \A d \in Conn : chan'[d].alive = chan[d].alive
        /\ loop' = loop \/ loop' = [loop EXCEPT !.pc = "check"]
    BY <2>1, WorkFrame DEF fdVars
  <2>3. loop'.pc \in {"unwatch", "drop"} => loop' = loop
    BY <1>0, <2>2 DEF LoopType
  <2> QED
    BY <1>0, <2>2, <2>3, DescSame DEF AtChannel
<1>9. CASE \E c \in Conn : ClientStepOf(c)
  <2>1. UNCHANGED <<owner, fdOf, hup, deleted, chan, loop>>
    BY <1>9, ClientPresent DEF ClientStepOf, Environment, fdVars, chanVars, loopVars
  <2> QED
    BY <1>0, <2>1, DescSame DEF AtChannel
<1> QED
  BY <1>1, <1>2, <1>3, <1>4, <1>5, <1>6, <1>7, <1>8, <1>9, StepsBefore

-----------------------------------------------------------------------------
(* What select() reported, until stop() *)

\* What a client has sent stays there, and one that has left has left.
LEMMA ClientKeeps ==
  ASSUME WireTypeOK, NEW c \in Conn, ClientNext(c), NEW d \in Conn
  PROVE  /\ up[d] # <<>> => up'[d] # <<>>
         /\ client[d] \in Gone => client'[d] \in Gone
<1>0. up \in [Conn -> Seq(Units)] /\ client \in [Conn -> ClientStates]
  BY DEF WireTypeOK
<1>1. \A s \in Seq(Units) : \A k \in Units :
        /\ Append(s, k) # <<>>
        /\ s \o <<k>> # <<>> /\ s \o <<"size", k>> # <<>>
  BY DEF Units
<1>2. CASE ClientSend(c)
  <2>1. client[c] = "idle" /\ client'[c] \in {"half", "waiting"}
    BY <1>0, <1>2 DEF ClientSend
  <2>2. \A k \in Kinds : k \in Units
    BY WireAssumption DEF Units
  <2>3. \/ \E k \in Kinds : up' = [up EXCEPT ![c] = @ \o IF k = "badsize" THEN <<k>> ELSE <<"size", k>>]
        \/ up' = [up EXCEPT ![c] = Append(@, "size")]
    BY <1>2 DEF ClientSend
  <2>4. up'[c] # <<>>
    BY <1>0, <1>1, <2>2, <2>3 DEF Units
  <2>5. d # c => up'[d] = up[d] /\ client'[d] = client[d]
    BY <1>2, ClientOnly DEF ClientNext
  <2> QED
    BY <2>1, <2>4, <2>5 DEF Gone
<1>3. CASE ClientSendRest(c)
  <2>1. client[c] = "half" /\ \E k \in Kinds : up' = [up EXCEPT ![c] = Append(@, k)]
    BY <1>3 DEF ClientSendRest
  <2>2. \A k \in Kinds : k \in Units
    BY WireAssumption DEF Units
  <2>3. up'[c] # <<>>
    BY <1>0, <1>1, <2>1, <2>2
  <2>5. d # c => up'[d] = up[d] /\ client'[d] = client[d]
    BY <1>3, ClientOnly DEF ClientNext
  <2> QED
    BY <2>1, <2>3, <2>5 DEF Gone
<1>4. CASE ClientSendFails(c) \/ ClientReads(c)
  <2>1. client[c] \notin Gone /\ UNCHANGED up
    BY <1>4 DEF ClientSendFails, ClientReads, ClientRecv, ClientRecvTooMuch, ClientRecvFails, Gone
  <2>2. d # c => client'[d] = client[d]
    BY <1>4, ClientOnly DEF ClientNext
  <2> QED
    BY <2>1, <2>2
<1>5. CASE ClientClose(c)
  <2>1. client'[c] \in Gone /\ UNCHANGED up
    BY <1>0, <1>5 DEF ClientClose, Gone
  <2>2. d # c => client'[d] = client[d]
    BY <1>5, ClientOnly DEF ClientNext
  <2> QED
    BY <2>1, <2>2
<1> QED
  BY <1>2, <1>3, <1>4, <1>5 DEF ClientNext

\* What has input keeps it.
InputStays ==
  /\ UNCHANGED owner
  /\ \A d \in Conn : /\ up[d] # <<>> => up'[d] # <<>>
                     /\ client[d] \in Gone => client'[d] \in Gone

LEMMA ReadSame ==
  ASSUME ReadInv, InputStays, readSet' = readSet,
         loop'.pc = "select" => loop.pc = "select" /\ snap' = snap,
         loop'.reads \ AtHand' \subseteq loop.reads \ AtHand
  PROVE  ReadInv'
<1>1. \A f : HasInput(f) => HasInput(f)'
  BY DEF HasInput, InputStays
<1>2. (loop.pc = "select" => snap.reads = readSet)'
  BY DEF ReadInv
<1>3. (\A f \in loop.reads \ ({Listen} \cup AtHand) : f \in readSet /\ HasInput(f))'
  BY <1>1 DEF ReadInv
<1> QED
  BY <1>2, <1>3 DEF ReadInv

LEMMA LoopOnlyRead ==
  ASSUME Base, ReadInv, LoopOnly
  PROVE  ReadInv'
<1>0. /\ loop \in LoopType /\ InputStays /\ readSet' = readSet
      /\ loop.pc \notin {"close", "unwatch", "drop"}
  <2>1. UNCHANGED wireVars /\ readSet' = readSet
    BY LoopOnlyFacts DEF pollVars
  <2> QED
    BY <2>1, Types DEF InputStays, wireVars, clientVars, fdVars, LoopOnly, LoopTop, Snapshot, Select,
       ReadsDone, BeginRead, CheckBusy, Wait, WritesDone, NextRead
<1>1. CASE Snapshot
  <2>1. snap'.reads = readSet /\ loop'.reads = loop.reads /\ loop'.pc = "select"
    BY <1>0, <1>1 DEF Snapshot, LoopGoes, LoopType
  <2>2. \A f : HasInput(f) => HasInput(f)'
    BY <1>0 DEF HasInput, InputStays
  <2>3. (\A f \in loop.reads \ ({Listen} \cup AtHand) : f \in readSet /\ HasInput(f))'
    BY <1>0, <2>1, <2>2 DEF ReadInv, AtHand
  <2> QED
    BY <1>0, <2>1, <2>3 DEF ReadInv
<1>2. CASE Select
  <2>1. /\ loop'.pc \in {"top", "poll", "reads"}
        /\ \A f \in loop'.reads \ {Listen} : f \in snap.reads /\ HasInput(f)
    <3> DEFINE input == {f \in UpTo(snap.reads) \ {Listen} : HasInput(f)}
    <3>1. \/ loop' = [loop EXCEPT !.pc = "top", !.reads = {}, !.writes = {}]
          \/ \E ready \in {input, input \cup {Listen}} : \E pc \in {"poll", "reads"} : \E W :
               loop' = [loop EXCEPT !.pc = pc, !.reads = ready, !.writes = W]
      BY <1>2 DEF Select
    <3>2. CASE loop' = [loop EXCEPT !.pc = "top", !.reads = {}, !.writes = {}]
      BY <1>0, <3>2 DEF LoopType
    <3>3. CASE \E ready \in {input, input \cup {Listen}} : \E pc \in {"poll", "reads"} : \E W :
               loop' = [loop EXCEPT !.pc = pc, !.reads = ready, !.writes = W]
      <4>1. loop'.pc \in {"poll", "reads"} /\ loop'.reads \in {input, input \cup {Listen}}
        BY <1>0, <3>3 DEF LoopType
      <4>2. \A f \in input : f \in snap.reads /\ HasInput(f)
        BY DEF UpTo
      <4> QED
        BY <4>1, <4>2
    <3> QED
      BY <3>1, <3>2, <3>3
  <2>2. loop.pc = "select" /\ snap.reads = readSet
    BY <1>2 DEF Select, ReadInv
  <2>3. \A f : HasInput(f) => HasInput(f)'
    BY <1>0 DEF HasInput, InputStays
  <2> QED
    BY <1>0, <2>1, <2>2, <2>3 DEF ReadInv
<1>3. CASE LoopTop \/ ReadsDone \/ CheckBusy \/ Wait \/ WritesDone
  <2>1. loop'.reads = loop.reads /\ loop'.pc \notin {"select", "close", "unwatch", "drop"}
    BY <1>0, <1>3 DEF LoopTop, ReadsDone, CheckBusy, Wait, WritesDone, LoopGoes, LoopType
  <2> QED
    BY <1>0, <2>1, ReadSame DEF AtHand
<1>4. CASE BeginRead
  <2>1. /\ loop'.reads \subseteq loop.reads
        /\ loop'.pc \notin {"select", "close", "unwatch", "drop"}
    BY <1>0, <1>4 DEF BeginRead, LoopType, NextRead
  <2> QED
    BY <1>0, <2>1, ReadSame DEF AtHand
<1> QED
  BY <1>1, <1>2, <1>3, <1>4 DEF LoopOnly

LEMMA AcceptRead ==
  ASSUME Base, ReadInv, NEW f \in Fd, NEW c, Accepts(f, c)
  PROVE  ReadInv'
<1>0. /\ c \in Conn /\ owner[f] = Free /\ owner' = [owner EXCEPT ![f] = c] /\ UNCHANGED up
      /\ client' = [client EXCEPT ![c] = "idle"] /\ client[c] = "none"
      /\ loop'.pc = "reads" /\ loop.pc = "reads" /\ loop'.reads = loop.reads \ {Listen}
      /\ readSet \subseteq readSet'
  BY DEF Accepts, Base, TypeInv, NotYet, Poll!Watch
<1>1. client \in [Conn -> ClientStates] /\ owner \in [Fd -> Conn \cup {Free, App}]
  BY Types DEF WireTypeOK
<1>2. loop.reads \subseteq Fd \cup {Listen}
  BY Types DEF LoopType
<1>3. ASSUME NEW g \in Fd, HasInput(g) PROVE HasInput(g)'
  <2>1. g # f /\ owner'[g] = owner[g] /\ owner[g] \in Conn
    BY <1>0, <1>1, <1>3, FdFacts DEF HasInput
  <2>2. \A d \in Conn : client[d] \in Gone => client'[d] \in Gone
    BY <1>0, <1>1 DEF Gone
  <2> QED
    BY <1>0, <1>3, <2>1, <2>2 DEF HasInput
<1>4. AtHand = {} /\ AtHand' = {}
  BY <1>0 DEF AtHand
<1> QED
  BY <1>0, <1>2, <1>3, <1>4 DEF ReadInv

\* The descriptor at hand is that of the Channel in hand, and of no other.
LEMMA OtherInput ==
  ASSUME Base, OpenInv, DescInv, loop.pc \in AtChannel, NEW g \in Fd,
         g # Min(loop.reads), owner[g] \in Conn
  PROVE  owner[g] # loop.chan
BY DEF OpenInv, LoopOwns, DescInv

LEMMA ReadingRead ==
  ASSUME Base, OpenInv, DescInv, ReadInv, NEW c, Reading(c)
  PROVE  ReadInv'
<1>0. /\ c = loop.chan /\ loop.pc = "read" /\ UNCHANGED <<readSet, snap, client, owner>>
      /\ loop \in LoopType
  BY Types DEF Reading, Reads, ReadsAt, pollVars, fdVars
<1>1. /\ loop' = [loop EXCEPT !.pc = "close"] \/ NextOne
      /\ \A d \in Conn \ {c} : up'[d] = up[d]
  BY ReadFrames DEF Reading
<1>2. ASSUME NEW g \in Fd, g # Min(loop.reads), HasInput(g) PROVE HasInput(g)'
  <2>1. owner[g] \in Conn \ {c}
    BY <1>0, <1>2, OtherInput DEF HasInput, AtChannel
  <2> QED
    BY <1>0, <1>1, <1>2, <2>1 DEF HasInput
<1>3. /\ loop'.pc \in {"close", "reads"}
      /\ loop'.reads \ ({Listen} \cup AtHand') \subseteq loop.reads \ {Listen, Min(loop.reads)}
  BY <1>0, <1>1 DEF NextOne, LoopType, AtHand
<1>4. loop.reads \ {Listen} \subseteq Fd /\ AtHand = {}
  BY <1>0 DEF LoopType, AtHand
<1> QED
  BY <1>0, <1>2, <1>3, <1>4 DEF ReadInv

LEMMA CloseRead ==
  ASSUME Base, OpenInv, ReadInv, CloseChannel, ~Frozen
  PROVE  ReadInv'
<1> DEFINE c == loop.chan
<1>1. /\ CloseChan(c) /\ loop'.pc = "unwatch" /\ loop.pc = "close" /\ loop'.reads = loop.reads
      /\ UNCHANGED <<pollVars, clientVars>>
      /\ c \in Conn /\ fdOf[c] = Min(loop.reads) /\ Min(loop.reads) \in Fd
      /\ owner[fdOf[c]] \in {c, Free}
  BY LoopCloses
<1>2. \A g \in Fd : g # Min(loop.reads) => owner'[g] = owner[g]
  BY <1>1, EndsOne
<1>3. \A g \in Fd : g # Min(loop.reads) /\ HasInput(g) => HasInput(g)'
  BY <1>1, <1>2 DEF HasInput, clientVars
<1>4. loop.reads \ {Listen} \subseteq Fd
  BY Types DEF LoopType
<1>5. AtHand = {Min(loop.reads)} /\ AtHand' = {Min(loop.reads)}
  BY <1>1 DEF AtHand
<1> QED
  BY <1>1, <1>3, <1>4, <1>5 DEF ReadInv, pollVars

LEMMA UnwatchReadRead ==
  ASSUME Base, ReadInv, UnwatchRead
  PROVE  ReadInv'
<1>1. /\ UNCHANGED wireVars /\ loop.pc = "unwatch" /\ readSet' = readSet \ {Min(loop.reads)}
      /\ loop'.pc = "drop" /\ loop'.reads = loop.reads
  BY Types DEF UnwatchRead, Poll!Unwatch, LoopGoes, LoopType
<1>2. \A g : HasInput(g) => HasInput(g)'
  BY <1>1 DEF HasInput, wireVars, clientVars, fdVars
<1>3. AtHand = {Min(loop.reads)} /\ AtHand' = {Min(loop.reads)}
  BY <1>1 DEF AtHand
<1> QED
  BY <1>1, <1>2, <1>3 DEF ReadInv

LEMMA DropRead ==
  ASSUME Base, ReadInv, DropChannel
  PROVE  ReadInv'
<1>1. /\ UNCHANGED <<readSet, wireVars>> /\ loop.pc = "drop" /\ loop'.pc = "reads"
      /\ loop'.reads = loop.reads \ {Min(loop.reads)}
  BY Drops
<1>2. InputStays
  BY <1>1 DEF InputStays, wireVars, clientVars, fdVars
<1>3. AtHand = {Min(loop.reads)} /\ AtHand' = {}
  BY <1>1 DEF AtHand
<1> QED
  BY <1>1, <1>2, <1>3, ReadSame

LEMMA ReadKept ==
  ASSUME ~SizeAlone, Base, OpenInv, DescInv, ReadInv, [Next]_vars,
         main.pc = "running", main'.pc = "running"
  PROVE  ReadInv'
<1>0. loop \in LoopType /\ WireTypeOK
  BY Types
<1>1. CASE Frozen
  BY <1>1, ReadSame DEF Frozen, InputStays, AtHand, wireVars, clientVars, fdVars, loopVars, pollVars
<1>2. CASE LoopOnly
  BY <1>2, LoopOnlyRead
<1>3. CASE (\E c : Accepting(c)) \/ (\E c : Reading(c))
  BY <1>3, AcceptRead, ReadingRead DEF Accepting
<1>5. CASE CloseChannel \/ UnwatchRead \/ DropChannel
  BY <1>1, <1>5, CloseRead, UnwatchReadRead, DropRead
<1>7. CASE WriteMore \/ UnwatchWrite
  <2>1. /\ UNCHANGED <<fdVars, readSet, up>> /\ loop'.reads = loop.reads
        /\ loop.pc \in {"writes", "written"} /\ loop'.pc \in {"writes", "written"}
        /\ \A d \in Conn : client'[d] = client[d] \/ (client[d] = "closed" /\ client'[d] = "reset")
    BY <1>7, LoopWritesFrame
  <2>2. InputStays
    BY <2>1 DEF InputStays, fdVars, Gone
  <2> QED
    BY <2>1, <2>2, ReadSame DEF AtHand
<1>8. CASE \E w \in Workers : WorkNext(w)
  <2>1. PICK w \in Workers : WorkNext(w)
    BY <1>8
  <2>2. /\ UNCHANGED <<fdVars, readSet, snap, up>>
        /\ \A d \in Conn : client'[d] = client[d] \/ (client[d] = "closed" /\ client'[d] = "reset")
        /\ loop' = loop \/ (loop.pc = "waiting" /\ loop' = [loop EXCEPT !.pc = "check"])
    BY <2>1, WorkFrame
  <2>3. InputStays
    BY <2>2 DEF InputStays, fdVars, Gone
  <2>4. AtHand' = AtHand /\ loop'.reads = loop.reads /\ (loop'.pc = "select" => loop.pc = "select")
    BY <1>0, <2>2 DEF AtHand, LoopType
  <2> QED
    BY <2>2, <2>3, <2>4, ReadSame
<1>9. CASE \E c \in Conn : ClientStepOf(c)
  <2>1. PICK c \in Conn : ClientNext(c) /\ Environment
    BY <1>9 DEF ClientStepOf
  <2>2. UNCHANGED <<loop, snap, readSet, owner>>
    BY <2>1, ClientPresent DEF Environment, pollVars, loopVars, fdVars
  <2>3. InputStays
    BY <1>0, <2>1, <2>2, ClientKeeps DEF InputStays
  <2>4. AtHand' = AtHand
    BY <2>2 DEF AtHand
  <2> QED
    BY <2>2, <2>3, <2>4, ReadSame
<1> QED
  BY <1>1, <1>2, <1>3, <1>5, <1>7, <1>8, <1>9, StepsBefore

\* The loop thread reads a Channel whose client has sent something, or has left.
InputFound ==
  loop.pc = "read" => \/ client[loop.chan] \in Gone
                      \/ up[loop.chan] # <<>> /\ ~ReadFails(loop.chan)

LEMMA ReadFact ==
  ASSUME Base, ChannelsMatchPoll, main.pc = "running", ReadInv
  PROVE  InputFound
<1> SUFFICES ASSUME loop.pc = "read"
             PROVE  \/ client[loop.chan] \in Gone
                    \/ up[loop.chan] # <<>> /\ ~ReadFails(loop.chan)
  BY DEF InputFound
<1> DEFINE f == Min(loop.reads)
<1>1. /\ f \in Fd /\ f \in loop.reads /\ f # Listen
      /\ f \in DOMAIN channels => channels[f] = loop.chan
  <2>1. f \in Fd /\ loop.reads # {} /\ (f \in DOMAIN channels => channels[f] = loop.chan)
    BY StandStill DEF AtChannel
  <2>2. loop.reads \in SUBSET (Fd \cup {Listen})
    BY Types DEF LoopType
  <2> QED
    BY <2>1, <2>2, MinIn, FdFacts
<1>2. f \in readSet /\ HasInput(f)
  BY <1>1 DEF ReadInv, AtHand
<1>3. f \in DOMAIN channels /\ fdOf[channels[f]] = f /\ Holds(channels[f])
  BY <1>1, <1>2 DEF ChannelsMatchPoll, Closing
<1>4. owner[f] = loop.chan /\ Holds(loop.chan)
  BY <1>1, <1>3 DEF Holds
<1> QED
  BY <1>2, <1>4 DEF HasInput, ReadFails, Gone

-----------------------------------------------------------------------------
(* Calls: steps that move nothing of a connection *)

SameAt(c) ==
  /\ \/ client'[c] = client[c]
     \/ client[c] = "none" /\ client'[c] = "idle"
     \/ client[c] \in Gone /\ client'[c] \in Gone
  /\ calls'[c] = calls[c] /\ acked'[c] = acked[c] /\ denied'[c] = denied[c]
  /\ up'[c] = up[c] /\ down'[c] = down[c] /\ executed'[c] = executed[c]
  /\ hup[c] => hup'[c]
  /\ chan'[c].inbox = chan[c].inbox /\ chan'[c].out = chan[c].out
  /\ Sending(c)' <=> Sending(c)
  /\ \A w \in Workers : /\ Serving(w, c)' => Serving(w, c)
                        /\ Replying(w, c)' => Replying(w, c) /\ work'[w].held = work[w].held

Calm(c) == SameAt(c) /\ (Ended(c)' => Ended(c) \/ client[c] \in Gone)

\* What the steps until stop() do to a connection.
OrderKept(c) == InOrder(c)' /\ (EndsOver(c) => EndsOver(c)')

LEMMA PlacesSame ==
  ASSUME NEW c \in Conn, OnePlace(c), SameAt(c)
  PROVE  /\ Arriving(c)' <=> Arriving(c)
         /\ Queued(c)' <=> Queued(c)
         /\ Answered(c)' <=> Answered(c)
         /\ \A w \in Workers : Has(w, c)' => Has(w, c)
         /\ OnePlace(c)' /\ (Nowhere(c) => Nowhere(c)')
<1>1. /\ Arriving(c)' <=> Arriving(c)
      /\ Queued(c)' <=> Queued(c)
      /\ Answered(c)' <=> Answered(c)
      /\ Sending(c)' <=> Sending(c)
  BY DEF SameAt, Arriving, Queued, Answered
<1>2. \A w \in Workers : Has(w, c)' => Has(w, c)
  BY DEF SameAt, Has
<1>3. OnePlace(c)'
  BY <1>1, <1>2 DEF OnePlace
<1>4. Nowhere(c) => Nowhere(c)'
  BY <1>1, <1>2 DEF Nowhere
<1> QED
  BY <1>1, <1>2, <1>3, <1>4

LEMMA KeptInOrder ==
  ASSUME NEW c \in Conn, InOrder(c), SameAt(c)
  PROVE  InOrder(c)'
<1>0. OnePlace(c) /\ Books(c) /\ Story(c) /\ Shape(c)
  BY DEF InOrder
<1>1. /\ Arriving(c)' <=> Arriving(c)
      /\ Queued(c)' <=> Queued(c)
      /\ Answered(c)' <=> Answered(c)
      /\ OnePlace(c)' /\ (Nowhere(c) => Nowhere(c)')
  BY <1>0, PlacesSame
<1>2. /\ Outstanding(c)' <=> Outstanding(c)
      /\ Settled(c)' <=> Settled(c)
      /\ Unexecuted(c) => Unexecuted(c)'
  BY DEF SameAt, Outstanding, Settled, Unexecuted, Gone
<1>3. Books(c)'
  BY <1>0, <1>1, <1>2 DEF SameAt, Books, Gone
<1>4. \A frame : Owed(c, frame) => Owed(c, frame)'
  BY DEF SameAt, Owed, Gone
<1>5. Story(c)'
  <2>1. (Arriving(c) \/ Queued(c) \/ (\E w \in Workers : Serving(w, c)) => Unexecuted(c))'
    BY <1>0, <1>1, <1>2 DEF SameAt, Story
  <2>2. (\A w \in Workers : Replying(w, c) => Owed(c, work[w].held))'
    <3> SUFFICES ASSUME NEW w \in Workers, Replying(w, c)' PROVE Owed(c, work[w].held)'
      OBVIOUS
    <3>1. PICK frame : frame = work[w].held /\ frame = work'[w].held
      BY DEF SameAt
    <3>2. Owed(c, frame)
      BY <1>0, <3>1 DEF SameAt, Story
    <3> QED
      BY <1>4, <3>1, <3>2 DEF Owed
  <2>3. (Sending(c) => Owed(c, chan[c].out))'
    <3>1. PICK frame : frame = chan[c].out /\ frame = chan'[c].out
      BY DEF SameAt
    <3>2. Sending(c)' => Owed(c, frame)'
      BY <1>0, <1>4, <3>1 DEF SameAt, Story
    <3> QED
      BY <3>1, <3>2 DEF Owed
  <2>4. (Answered(c) => Owed(c, Head(down[c])) /\ Tail(down[c]) = <<>>)'
    <3>1. PICK frame : frame = Head(down[c]) /\ frame = Head(down'[c])
      BY DEF SameAt
    <3>2. Answered(c)' => Owed(c, frame)' /\ Tail(down'[c]) = <<>>
      BY <1>0, <1>1, <1>4, <3>1 DEF SameAt, Story
    <3> QED
      BY <3>1, <3>2 DEF Owed
  <2> QED
    BY <2>1, <2>2, <2>3, <2>4 DEF Story
<1>6. Shape(c)'
  BY <1>0 DEF SameAt, Shape, Gone
<1> QED
  BY <1>1, <1>3, <1>5, <1>6 DEF InOrder

LEMMA CalmInOrder ==
  ASSUME NEW c \in Conn, InOrder(c), Calm(c)
  PROVE  OrderKept(c)
<1>1. SameAt(c) /\ OnePlace(c) /\ (Ended(c)' => Ended(c) \/ client[c] \in Gone)
  BY DEF Calm, InOrder
<1>2. Nowhere(c) => Nowhere(c)'
  BY <1>1, PlacesSame
<1>3. Over(c) \/ client[c] \in Gone => Over(c)'
  BY <1>1, <1>2 DEF SameAt, Over, Gone
<1>4. InOrder(c)'
  BY <1>1, KeptInOrder
<1> QED
  BY <1>1, <1>3, <1>4 DEF OrderKept, EndsOver

\* A connection none of whose variables moves.
LEMMA StillAt ==
  ASSUME NEW c \in Conn,
         \/ client'[c] = client[c]
         \/ client[c] = "none" /\ client'[c] = "idle"
         \/ client[c] \in Gone /\ client'[c] \in Gone,
         calls'[c] = calls[c], acked'[c] = acked[c], denied'[c] = denied[c],
         up'[c] = up[c], down'[c] = down[c], executed'[c] = executed[c],
         chan'[c].inbox = chan[c].inbox, chan'[c].out = chan[c].out,
         chan'[c].left = chan[c].left,
         \A w \in Workers : \/ work'[w] = work[w]
                            \/ work'[w].chan # c
                            \/ work'[w].pc \notin {"notify", "handle", "lock"}
                            \/ work[w].pc = "notify" /\ work'[w] = [work[w] EXCEPT !.pc = "handle"],
         hup[c] => hup'[c], work \in [Workers -> WorkType]
  PROVE  SameAt(c)
<1>1. \A w \in Workers : /\ Serving(w, c)' => Serving(w, c)
                         /\ Replying(w, c)' => Replying(w, c) /\ work'[w].held = work[w].held
  <2> SUFFICES ASSUME NEW w \in Workers
               PROVE  /\ Serving(w, c)' => Serving(w, c)
                      /\ Replying(w, c)' => Replying(w, c) /\ work'[w].held = work[w].held
    OBVIOUS
  <2>1. CASE work'[w] = work[w]
    BY <2>1 DEF Serving, Replying
  <2>2. CASE work'[w].chan # c \/ work'[w].pc \notin {"notify", "handle", "lock"}
    BY <2>2 DEF Serving, Replying
  <2>3. CASE work[w].pc = "notify" /\ work'[w] = [work[w] EXCEPT !.pc = "handle"]
    <3>1. work'[w].pc = "handle" /\ work'[w].chan = work[w].chan
      BY <2>3 DEF WorkType
    <3> QED
      BY <2>3, <3>1 DEF Serving, Replying
  <2> QED
    BY <2>1, <2>2, <2>3
<1>2. Sending(c)' <=> Sending(c)
  BY DEF Sending
<1> QED
  BY <1>1, <1>2 DEF SameAt

LEMMA EndedSame ==
  ASSUME NEW c \in Conn, hup'[c] = hup[c],
         loop'.pc = "close" => loop.pc = "close" /\ loop'.chan = loop.chan
  PROVE  Ended(c)' => Ended(c)
BY DEF Ended

LEMMA FrozenCalm ==
  ASSUME Base, Frozen, NEW c \in Conn
  PROVE  Calm(c)
<1>1. UNCHANGED <<client, calls, acked, denied, up, down, executed, chan, work, hup, loop>>
  BY DEF Frozen, wireVars, clientVars, fdVars, poolVars, chanVars, loopVars
<1>2. Ended(c)' => Ended(c)
  BY <1>1, EndedSame
<1>3. work \in [Workers -> WorkType]
  BY Types
<1> QED
  BY <1>1, <1>2, <1>3, StillAt DEF Calm

LEMMA LoopOnlyCalm ==
  ASSUME Base, LoopOnly, NEW c \in Conn
  PROVE  Calm(c)
<1>1. UNCHANGED <<client, calls, acked, denied, up, down, executed, chan, work, hup>>
  BY LoopOnlyFacts DEF wireVars, clientVars, fdVars, OwnRest
<1>2. loop'.pc # "close"
  BY Types DEF LoopOnly, LoopTop, Snapshot, Select, ReadsDone, BeginRead, CheckBusy, Wait,
     WritesDone, LoopGoes, LoopType, NextRead
<1>3. Ended(c)' => Ended(c)
  BY <1>1, <1>2, EndedSame
<1>4. work \in [Workers -> WorkType]
  BY Types
<1> QED
  BY <1>1, <1>3, <1>4, StillAt DEF Calm

LEMMA AcceptCalm ==
  ASSUME Base, NEW f \in Fd, NEW d, Accepts(f, d), NEW c \in Conn
  PROVE  Calm(c)
<1>1. /\ UNCHANGED <<calls, acked, denied, up, down, executed, chan, work, hup>>
      /\ client' = [client EXCEPT ![d] = "idle"] /\ client[d] = "none" /\ loop'.pc = "reads"
  BY DEF Accepts, Base, TypeInv, NotYet
<1>2. client \in [Conn -> ClientStates] /\ work \in [Workers -> WorkType]
  BY Types DEF WireTypeOK
<1>3. client'[c] = client[c] \/ (client[c] = "none" /\ client'[c] = "idle")
  BY <1>1, <1>2
<1>4. Ended(c)' => Ended(c)
  BY <1>1, EndedSame
<1> QED
  BY <1>1, <1>2, <1>3, <1>4, StillAt DEF Calm

LEMMA UnwatchCalm ==
  ASSUME Base, UnwatchRead \/ UnwatchWrite, NEW c \in Conn
  PROVE  Calm(c)
<1>1. UNCHANGED <<client, calls, acked, denied, up, down, executed, chan, work, hup>>
  BY DEF UnwatchRead, UnwatchWrite, wireVars, clientVars, fdVars, chanVars, poolVars
<1>2. loop'.pc # "close"
  BY Types DEF UnwatchRead, UnwatchWrite, LoopGoes, LoopType
<1>3. Ended(c)' => Ended(c)
  BY <1>1, <1>2, EndedSame
<1>4. work \in [Workers -> WorkType]
  BY Types
<1> QED
  BY <1>1, <1>3, <1>4, StillAt DEF Calm

LEMMA DropCalm ==
  ASSUME Base, DropChannel, NEW c \in Conn
  PROVE  Calm(c)
<1>1. UNCHANGED <<client, calls, acked, denied, up, down, executed, chan, work, hup>>
  BY DEF DropChannel, wireVars, clientVars, fdVars, poolVars
<1>2. Ended(c)' => Ended(c)
  BY <1>1, Drops, EndedSame
<1>3. work \in [Workers -> WorkType]
  BY Types
<1> QED
  BY <1>1, <1>2, <1>3, StillAt DEF Calm

\* close() ends the connection whose end it was to be.
LEMMA CloseCalm ==
  ASSUME Base, OpenInv, CloseChannel, ~Frozen, NEW c \in Conn
  PROVE  Calm(c)
<1> DEFINE d == loop.chan
<1>1. /\ CloseChan(d) /\ loop'.pc = "unwatch" /\ loop.pc = "close"
      /\ UNCHANGED <<poolVars, clientVars>>
      /\ d \in Conn /\ fdOf[d] \in Fd /\ owner[fdOf[d]] \in {d, Free}
  BY LoopCloses
<1>2. \A e \in Conn : /\ chan'[e].inbox = chan[e].inbox /\ chan'[e].left = chan[e].left
                      /\ chan'[e].out = chan[e].out
  BY <1>1, CloseChanFacts
<1>3. UNCHANGED <<client, calls, acked, denied, up, down, executed, work>>
  BY <1>1 DEF clientVars, poolVars
<1>4. (c # d => hup'[c] = hup[c]) /\ (hup[c] => hup'[c])
  BY <1>1, EndsOne
<1>5. Ended(c)' => Ended(c)
  BY <1>1, <1>4 DEF Ended
<1>6. work \in [Workers -> WorkType]
  BY Types
<1> QED
  BY <1>2, <1>3, <1>4, <1>5, <1>6, StillAt DEF Calm

\* stop() closes Channels, whatever is under way in them.
LEMMA MainSame ==
  ASSUME Base, MainNext, NEW c \in Conn
  PROVE  SameAt(c)
<1>1. UNCHANGED <<client, calls, acked, denied, up, down, executed, work>>
  BY DEF MainNext, StopBegin, StopEach, StopClose, SetStop, Crash, wireVars, clientVars, poolVars
<1>2. \/ UNCHANGED <<chan, hup>>
      \/ main.pc = "close" /\ CloseChan(main.chan) /\ UNCHANGED clientVars
  BY DEF MainNext, StopBegin, StopEach, StopClose, SetStop, Crash, wireVars, fdVars, chanVars
<1>3. /\ chan'[c].inbox = chan[c].inbox /\ chan'[c].left = chan[c].left
      /\ chan'[c].out = chan[c].out
  BY <1>2, StandStill, CloseChanFacts
<1>4. hup[c] => hup'[c]
  BY <1>2 DEF CloseChan, CloseFd, Close
<1>5. work \in [Workers -> WorkType]
  BY Types
<1> QED
  BY <1>1, <1>3, <1>4, <1>5, StillAt

\* A worker takes a job, wakes the loop thread, or is done writing.
LEMMA WorkCalm ==
  ASSUME Base, NEW w \in Workers, Take(w) \/ Notify(w) \/ WatchWrite(w) \/ Unlock(w),
         NEW c \in Conn
  PROVE  Calm(c)
<1>0. /\ chan \in [Conn -> Channel] /\ loop \in LoopType /\ work \in [Workers -> WorkType]
  BY Types
<1>1. CASE Frozen
  BY <1>1, FrozenCalm
<1>2. CASE ~Frozen
  <2>1. UNCHANGED <<client, calls, acked, denied, up, down, executed, hup>>
    BY <1>2 DEF Take, Notify, WatchWrite, Unlock, Touches, Crash, Frozen, wireVars, clientVars, fdVars
  <2>2. /\ chan'[c].inbox = chan[c].inbox /\ chan'[c].left = chan[c].left
        /\ chan'[c].out = chan[c].out
    <3>1. UNCHANGED chan \/ \E d : chan' = [chan EXCEPT ![d].locked = FALSE]
      BY <1>2 DEF Take, Notify, WatchWrite, Unlock, Touches, Crash, Frozen, chanVars
    <3>2. ASSUME NEW d, chan' = [chan EXCEPT ![d].locked = FALSE]
          PROVE  /\ chan'[c].inbox = chan[c].inbox /\ chan'[c].left = chan[c].left
                 /\ chan'[c].out = chan[c].out
      BY <1>0, <3>2 DEF Channel
    <3> QED
      BY <3>1, <3>2
  <2>3. Ended(c)' => Ended(c)
    <3>1. loop' = loop \/ loop' = [loop EXCEPT !.pc = "check"]
      BY WorkFrame DEF WorkNext
    <3>2. loop'.pc = "close" => loop' = loop
      BY <1>0, <3>1 DEF LoopType
    <3> QED
      BY <2>1, <3>2, EndedSame
  <2>4. \A v \in Workers : \/ work'[v] = work[v]
                           \/ work'[v].pc \in {"idle", "get"}
                           \/ work[v].pc = "notify" /\ work'[v] = [work[v] EXCEPT !.pc = "handle"]
    <3>1. CASE Take(w)
      BY <1>0, <3>1 DEF Take
    <3>2. CASE Notify(w)
      <4>1. /\ work[w].pc = "notify"
            /\ work' = [work EXCEPT ![w].pc = "handle", ![w].held = work[w].held]
        BY <1>2, <3>2 DEF Notify, Touches, Crash, Frozen, WorkGoes
      <4>2. [work[w] EXCEPT !.pc = "handle", !.held = work[w].held]
              = [work[w] EXCEPT !.pc = "handle"]
        BY <1>0 DEF WorkType
      <4>3. work'[w] = [work[w] EXCEPT !.pc = "handle", !.held = work[w].held]
        BY <1>0, <4>1
      <4> QED
        BY <1>0, <4>1, <4>2, <4>3
    <3>3. CASE WatchWrite(w) \/ Unlock(w)
      <4>1. WorkGoes(w, "idle", "nothing") /\ work[w].pc # "idle"
        BY <1>2, <3>3 DEF WatchWrite, Unlock, Touches, Crash, Frozen
      <4>2. work'[w].pc = "idle" /\ \A v \in Workers \ {w} : work'[v] = work[v]
        BY <4>1, WorkMoves DEF WorkPcs
      <4> QED
        BY <4>2
    <3> QED
      BY <3>1, <3>2, <3>3
  <2> QED
    BY <1>0, <2>1, <2>2, <2>3, <2>4, StillAt DEF Calm
<1> QED
  BY <1>1, <1>2

-----------------------------------------------------------------------------
(* Calls: the loop thread reads *)

LEMMA ReadingOthers ==
  ASSUME Base, NEW c, Reading(c), NEW d \in Conn, d # c
  PROVE  Calm(d)
<1>1. /\ UNCHANGED <<work, executed, down, client, calls, acked, denied, hup>> /\ c = loop.chan
  BY DEF Reading, Reads, ReadsAt, fdVars
<1>2. /\ up'[d] = up[d] /\ chan'[d] = chan[d]
      /\ loop' = [loop EXCEPT !.pc = "close"] \/ NextOne
  BY ReadFrames DEF Reading
<1>3. Ended(d)' => Ended(d)
  <2>1. loop'.chan = c
    BY <1>1, <1>2, Types DEF NextOne, LoopType
  <2> QED
    BY <1>1, <2>1 DEF Ended
<1>4. work \in [Workers -> WorkType]
  BY Types
<1> QED
  BY <1>1, <1>2, <1>3, <1>4, StillAt DEF Calm

\* The Channel is left alone, or to be closed because its client has left.
LEMMA NothingRead ==
  ASSUME Base, NEW c \in Conn, InOrder(c), Reads(c), GivesUp(c), UNCHANGED up,
         NextOne \/ ReadFails(c) \/ up[c] = <<>>
  PROVE  InOrder(c)' /\ (InputFound => OrderKept(c))
<1>0. /\ UNCHANGED <<work, executed, down, client, calls, acked, denied, hup>>
      /\ c = loop.chan /\ loop.pc = "read" /\ chan \in [Conn -> Channel]
      /\ work \in [Workers -> WorkType] /\ loop \in LoopType
  BY Types DEF Reads, ReadsAt, fdVars
<1>1. /\ chan'[c].inbox = chan[c].inbox /\ chan'[c].left = chan[c].left
      /\ chan'[c].out = chan[c].out
  BY <1>0 DEF GivesUp, Channel
<1>2. SameAt(c)
  BY <1>0, <1>1, StillAt
<1>3. ASSUME InputFound PROVE Ended(c)' => Ended(c) \/ client[c] \in Gone
  <2>1. CASE NextOne
    <3>1. loop'.pc = "reads"
      BY <1>0, <2>1 DEF NextOne, LoopType
    <3> QED
      BY <1>0, <3>1, EndedSame
  <2>2. CASE ~NextOne
    BY <1>0, <1>3, <2>2 DEF InputFound
  <2> QED
    BY <2>1, <2>2
<1> QED
  BY <1>2, <1>3, KeptInOrder, CalmInOrder DEF Calm

\* What the connection's request is when the loop thread finds part of it.
LEMMA FoundInOrder ==
  ASSUME Base, NEW c \in Conn, InOrder(c), Reads(c), up[c] # <<>>
  PROVE  /\ Unexecuted(c) /\ ~Sending(c) /\ ~Answered(c) /\ \A w \in Workers : ~Has(w, c)
         /\ EndsOver(c) /\ Ended(c) => client[c] \in Gone
         /\ IF chan[c].inbox = "part" THEN Rest(up[c]) ELSE Request(up[c])
         /\ client[c] = "half" => chan[c].inbox # "part" /\ HalfRequest(up[c])
<1>1. Arriving(c)
  BY DEF Arriving
<1> QED
  BY <1>1 DEF InOrder, OnePlace, Story, EndsOver, Over, Nowhere, Shape

\* A read leaves the replies and the workers where they are.
LEMMA ReadLeaves ==
  ASSUME Base, NEW c \in Conn, Reads(c), NEW kind,
         \/ chan' = chan \/ chan' = [chan EXCEPT ![c].busy = TRUE]
         \/ chan' = [chan EXCEPT ![c].inbox = kind]
         \/ chan' = [chan EXCEPT ![c].inbox = kind, ![c].busy = TRUE]
  PROVE  /\ UNCHANGED <<work, executed, down, client, calls, acked, denied, hup>>
         /\ Sending(c)' <=> Sending(c)
         /\ Answered(c)' <=> Answered(c)
         /\ \A w \in Workers : Has(w, c)' <=> Has(w, c)
         /\ chan'[c].inbox \in {chan[c].inbox, kind}
<1>1. UNCHANGED <<work, executed, down, client, calls, acked, denied, hup>>
  BY DEF Reads, ReadsAt, fdVars
<1>2. chan'[c].left = chan[c].left /\ chan'[c].inbox \in {chan[c].inbox, kind}
  BY Types DEF Channel
<1>3. \A w \in Workers : Has(w, c)' <=> Has(w, c)
  BY <1>1 DEF Has, Serving, Replying
<1> QED
  BY <1>1, <1>2, <1>3 DEF Sending, Answered

\* What nobody accepts is taken from the stream, and the Channel is to be closed:
\* the request is nowhere.
LEMMA RefusedRead ==
  ASSUME Base, NEW c \in Conn, InOrder(c), Reads(c), GivesUp(c),
         up[c] # <<>>, Head(up[c]) # "size", chan[c].inbox = "none",
         up' = [up EXCEPT ![c] = Tail(@)]
  PROVE  OrderKept(c)
<1>0. /\ up[c] # <<>> /\ Head(up[c]) # "size" /\ chan[c].inbox = "none"
      /\ up' = [up EXCEPT ![c] = Tail(@)]
      /\ chan' = chan \/ chan' = [chan EXCEPT ![c].busy = TRUE]
  BY DEF GivesUp
<1>1. up \in [Conn -> Seq(Units)] /\ chan \in [Conn -> Channel]
  BY Types DEF WireTypeOK
<1>2. /\ Unexecuted(c) /\ ~Sending(c) /\ ~Answered(c) /\ \A w \in Workers : ~Has(w, c)
      /\ Request(up[c]) /\ (client[c] = "half" => HalfRequest(up[c]))
  BY <1>0, FoundInOrder
<1>3. up'[c] = <<>> /\ client[c] # "half"
  BY <1>0, <1>1, <1>2, TakeOne
<1>4. /\ UNCHANGED <<work, executed, down, client, calls, acked, denied, hup>>
      /\ ~Sending(c)' /\ ~Answered(c)' /\ (\A w \in Workers : ~Has(w, c)')
  BY <1>0, <1>2, ReadLeaves
<1>5. chan'[c].inbox = "none"
  BY <1>0, <1>1 DEF Channel
<1>6. Nowhere(c)' /\ ~Arriving(c)' /\ ~Queued(c)'
  BY <1>3, <1>4, <1>5 DEF Nowhere, Arriving, Queued, RequestKinds
<1>7. Unexecuted(c)' /\ client[c] \in {"waiting", "failed"} \cup Gone
  BY <1>2, <1>3, <1>4 DEF Unexecuted, Outstanding
<1>8. OnePlace(c)'
  BY <1>4, <1>6 DEF OnePlace
<1>9. Books(c)'
  BY <1>4, <1>7 DEF InOrder, Books, Unexecuted, Outstanding, Gone
<1>10. Story(c)'
  BY <1>4, <1>6 DEF Story, Has
<1>11. Shape(c)'
  BY <1>3, <1>4, <1>5, TakenAll DEF Shape
<1>12. Over(c)'
  BY <1>4, <1>6, <1>7 DEF Over, Unexecuted
<1> QED
  BY <1>8, <1>9, <1>10, <1>11, <1>12 DEF OrderKept, InOrder, EndsOver

\* The request goes on, to where the loop thread has put it.
LEMMA RequestRead ==
  ASSUME Base, NEW c \in Conn, InOrder(c), Reads(c), up[c] # <<>>, NextOne,
         NEW kind \in {"part"} \cup RequestKinds, chan'[c].inbox = kind,
         \/ chan' = [chan EXCEPT ![c].inbox = kind]
         \/ chan' = [chan EXCEPT ![c].inbox = kind, ![c].busy = TRUE],
         kind = "part" => Rest(up'[c]) /\ (client[c] = "half" => up'[c] = <<>>),
         kind # "part" => up'[c] = <<>> /\ client[c] # "half"
  PROVE  OrderKept(c)
<1>1. /\ Unexecuted(c) /\ ~Sending(c) /\ ~Answered(c) /\ (\A w \in Workers : ~Has(w, c))
      /\ EndsOver(c) /\ Ended(c) => client[c] \in Gone
  BY FoundInOrder
<1>2. /\ UNCHANGED <<work, executed, down, client, calls, acked, denied, hup>>
      /\ ~Sending(c)' /\ ~Answered(c)' /\ (\A w \in Workers : ~Has(w, c)')
  BY <1>1, ReadLeaves
<1>3. Unexecuted(c)'
  BY <1>1, <1>2 DEF Unexecuted, Outstanding
<1>4. kind = "part" => ~Queued(c)'
  BY DEF Queued, RequestKinds
<1>5. kind # "part" => ~Arriving(c)'
  BY DEF Arriving
<1>6. OnePlace(c)'
  BY <1>2, <1>4, <1>5 DEF OnePlace
<1>7. Books(c)'
  BY <1>1, <1>2, <1>3 DEF InOrder, Books, Unexecuted, Outstanding, Gone
<1>8. Story(c)'
  BY <1>2, <1>3 DEF Story, Has
<1>9. Shape(c)'
  BY <1>2, TakenAll DEF Shape
<1>10. EndsOver(c) => EndsOver(c)'
  <2>1. loop'.pc = "reads"
    BY Types DEF NextOne, LoopType, Reads, ReadsAt
  <2> QED
    BY <1>1, <1>2, <2>1 DEF EndsOver, Ended, Over
<1> QED
  BY <1>6, <1>7, <1>8, <1>9, <1>10 DEF OrderKept, InOrder

LEMMA ReadingInOrder ==
  ASSUME Base, NEW c \in Conn, InOrder(c), Reading(c)
  PROVE  InOrder(c)' /\ (InputFound => OrderKept(c))
<1>0. /\ up \in [Conn -> Seq(Units)] /\ chan \in [Conn -> Channel] /\ Reads(c)
      /\ \A s \in Seq(Units) : s # <<>> => Tail(s) \in Seq(Units)
  BY Types DEF WireTypeOK, Reading
<1>1. CASE GivesUp(c)
  <2>1. \/ UNCHANGED up /\ (NextOne \/ ReadFails(c) \/ up[c] = <<>>)
        \/ /\ up[c] # <<>> /\ Head(up[c]) # "size" /\ chan[c].inbox = "none"
           /\ up' = [up EXCEPT ![c] = Tail(@)]
    BY <1>1 DEF GivesUp
  <2>2. CASE UNCHANGED up /\ (NextOne \/ ReadFails(c) \/ up[c] = <<>>)
    BY <1>0, <1>1, <2>2, NothingRead
  <2>3. CASE /\ up[c] # <<>> /\ Head(up[c]) # "size" /\ chan[c].inbox = "none"
             /\ up' = [up EXCEPT ![c] = Tail(@)]
    BY <1>0, <1>1, <2>3, RefusedRead DEF OrderKept
  <2> QED
    BY <2>1, <2>2, <2>3
<1>2. CASE HasSize(c)
  <2>1. /\ chan[c].inbox = "none" /\ up[c] # <<>> /\ up'[c] = Tail(up[c]) /\ NextOne
        /\ chan' = [chan EXCEPT ![c].inbox = "part"] /\ chan'[c].inbox = "part"
    BY <1>0, <1>2 DEF HasSize, Channel
  <2>2. Request(up[c]) /\ (client[c] = "half" => HalfRequest(up[c]))
    BY <1>0, <2>1, FoundInOrder
  <2>3. Rest(up'[c]) /\ (client[c] = "half" => up'[c] = <<>>)
    BY <1>0, <2>1, <2>2, TakeOne
  <2> QED
    BY <1>0, <2>1, <2>3, RequestRead DEF RequestKinds, OrderKept
<1>3. ASSUME NEW kind, HasAll(c, kind) PROVE OrderKept(c)
  <2>1. /\ kind \in RequestKinds /\ up[c] # <<>> /\ NextOne
        /\ chan' = [chan EXCEPT ![c].inbox = kind, ![c].busy = TRUE]
        /\ chan'[c].inbox = kind /\ kind # "part"
    BY <1>0, <1>3 DEF HasAll, Ready, RequestKinds, Channel
  <2>2. /\ IF chan[c].inbox = "part" THEN Rest(up[c]) ELSE Request(up[c])
        /\ client[c] = "half" => chan[c].inbox # "part" /\ HalfRequest(up[c])
    BY <1>0, <2>1, FoundInOrder
  <2>3. CASE /\ chan[c].inbox = "none" /\ Tail(up[c]) # <<>>
             /\ up' = [up EXCEPT ![c] = Tail(Tail(@))]
    <3>1. up'[c] = <<>>
      BY <1>0, <2>1, <2>2, <2>3, TakeTwo
    <3>2. client[c] # "half"
      BY <1>0, <2>1, <2>2, <2>3, TakeOne
    <3> QED
      BY <1>0, <2>1, <3>1, <3>2, RequestRead
  <2>4. CASE chan[c].inbox = "part" /\ up' = [up EXCEPT ![c] = Tail(@)]
    <3>1. up'[c] = <<>> /\ client[c] # "half"
      BY <1>0, <2>1, <2>2, <2>4, TakeOne
    <3> QED
      BY <1>0, <2>1, <3>1, RequestRead
  <2> QED
    BY <1>3, <2>3, <2>4 DEF HasAll
<1> QED
  BY <1>1, <1>2, <1>3 DEF Reading, OrderKept

-----------------------------------------------------------------------------
(* Calls: a worker takes the request, runs it, and sends the reply *)

\* A worker with one connection in hand leaves the others alone.
LEMMA WorkOthers ==
  ASSUME Base, NEW w \in Workers, NEW pc \in WorkPcs,
         NEW held \in {"nothing"} \cup Messages \cup Frames, WorkGoes(w, pc, held),
         UNCHANGED <<loop, hup>>, NEW d \in Conn, d # work[w].chan, chan'[d] = chan[d],
         client'[d] = client[d], calls'[d] = calls[d], acked'[d] = acked[d],
         denied'[d] = denied[d], up'[d] = up[d], down'[d] = down[d],
         executed'[d] = executed[d]
  PROVE  Calm(d)
<1>1. /\ work'[w].chan # d /\ \A v \in Workers \ {w} : work'[v] = work[v]
      /\ work \in [Workers -> WorkType]
  BY WorkMoves, Types
<1>2. Ended(d)' => Ended(d)
  BY EndedSame
<1> QED
  BY <1>1, <1>2, StillAt DEF Calm

LEMMA GetMessageInOrder ==
  ASSUME ~SizeAlone, Base, crash = "no", NEW w \in Workers, GetMessage(w), NEW c \in Conn, InOrder(c)
  PROVE  OrderKept(c)
<1>1. CASE Frozen
  BY <1>1, FrozenCalm, CalmInOrder
<1>2. CASE ~Frozen
  <2>0. /\ work[w].pc = "get" /\ work[w].chan \in Conn
        /\ WorkGoes(w, "notify", chan[work[w].chan].inbox)
        /\ chan' = [chan EXCEPT ![work[w].chan].inbox = "none", ![work[w].chan].busy = FALSE]
        /\ UNCHANGED <<loop, hup, client, calls, acked, denied, up, down, executed>>
        /\ chan \in [Conn -> Channel]
    BY <1>2, WorkerHas, Types DEF GetMessage, Touches, Crash, Frozen, loopVars, wireVars, clientVars,
                           fdVars
  <2>1. chan[work[w].chan].inbox \in RequestKinds
    <3>1. HasJob(work[w].chan)
      BY <2>0 DEF HasJob, Getting
    <3> QED
      BY <2>0, <3>1, AllRequests DEF Base, JobInv, JobsWhole
  <2>2. /\ work'[w].chan = work[w].chan /\ work'[w].pc = "notify"
        /\ \A v \in Workers \ {w} : work'[v] = work[v]
    BY <2>0, <2>1, AllRequests, WorkMoves DEF WorkPcs
  <2>3. CASE c # work[w].chan
    <3>1. chan'[c] = chan[c]
      BY <2>0, <2>3
    <3>2. Calm(c)
      BY <2>0, <2>1, <2>3, <3>1, AllRequests, WorkOthers DEF WorkPcs
    <3> QED
      BY <3>2, CalmInOrder
  <2>4. CASE c = work[w].chan
    <3>0. OnePlace(c) /\ Books(c) /\ Story(c) /\ Shape(c)
      BY DEF InOrder
    <3>1. /\ chan'[c].inbox = "none" /\ chan[c].inbox \in RequestKinds
          /\ chan'[c].left = chan[c].left /\ chan'[c].out = chan[c].out
      BY <2>0, <2>1, <2>4 DEF Channel
    <3>2. Queued(c) /\ ~Arriving(c) /\ ~Sending(c) /\ ~Answered(c) /\ \A v \in Workers : ~Has(v, c)
      BY <3>0, <3>1 DEF OnePlace, Queued
    <3>3. /\ ~Queued(c)' /\ ~Arriving(c)' /\ ~Sending(c)' /\ ~Answered(c)'
          /\ \A v \in Workers : ~Replying(v, c)' /\ (Serving(v, c)' => v = w)
      <4>1. ~Queued(c)' /\ ~Arriving(c)' /\ ~Sending(c)' /\ ~Answered(c)'
        BY <2>0, <3>1, <3>2 DEF Queued, Arriving, Sending, Answered, RequestKinds
      <4>2. \A v \in Workers : ~Replying(v, c)' /\ (Serving(v, c)' => v = w)
        BY <2>2, <3>2 DEF Has, Serving, Replying
      <4> QED
        BY <4>1, <4>2
    <3>4. OnePlace(c)'
      BY <3>3 DEF OnePlace, Has
    <3>5. Unexecuted(c)' /\ Unexecuted(c)
      BY <2>0, <3>0, <3>2 DEF Story, Unexecuted, Outstanding
    <3>6. Books(c)'
      BY <2>0, <3>0, <3>3, <3>5 DEF Books, Unexecuted, Outstanding, Gone
    <3>7. Story(c)'
      BY <3>3, <3>5 DEF Story
    <3>8. Shape(c)'
      BY <2>0, <3>0, <3>1 DEF Shape, RequestKinds
    <3>9. EndsOver(c) => EndsOver(c)'
      BY <2>0, <3>2 DEF EndsOver, Ended, Over, Nowhere
    <3> QED
      BY <3>4, <3>6, <3>7, <3>8, <3>9 DEF OrderKept, InOrder
  <2> QED
    BY <2>3, <2>4
<1> QED
  BY <1>1, <1>2

\* A request in a worker's hands is all there is of it.
LEMMA ServedInOrder ==
  ASSUME NEW c \in Conn, InOrder(c), NEW w \in Workers, Has(w, c)
  PROVE  /\ ~Queued(c) /\ ~Arriving(c) /\ ~Sending(c) /\ ~Answered(c)
         /\ \A v \in Workers : Has(v, c) => v = w
         /\ client[c] # "half" /\ (EndsOver(c) /\ Ended(c) => client[c] \in Gone)
<1>1. /\ ~Queued(c) /\ ~Arriving(c) /\ ~Sending(c) /\ ~Answered(c)
      /\ \A v \in Workers : Has(v, c) => v = w
  BY DEF InOrder, OnePlace
<1>2. client[c] # "half"
  <2>1. ~HalfRequest(<<>>)
    <3>1. Len(<<>>) = 0
      OBVIOUS
    <3> QED
      BY <3>1 DEF HalfRequest
  <2> QED
    BY <1>1, <2>1 DEF InOrder, Shape, Arriving
<1>3. EndsOver(c) /\ Ended(c) => client[c] \in Gone
  BY DEF EndsOver, Over, Nowhere
<1> QED
  BY <1>1, <1>2, <1>3

LEMMA HandleInOrder ==
  ASSUME Base, NEW w \in Workers, Handle(w), NEW c \in Conn, InOrder(c)
  PROVE  OrderKept(c)
<1>0. /\ work[w].pc = "handle" /\ work[w].chan \in Conn
      /\ UNCHANGED <<loop, chan, hup, client, calls, acked, denied, up, down>>
      /\ executed \in [Conn -> Nat]
  BY WorkerHas, Types DEF Handle, loopVars, chanVars, wireVars, clientVars, fdVars
<1>1. PICK reply \in Frames :
        /\ WorkGoes(w, "lock", reply)
        /\ IF reply = "result" THEN executed' = [executed EXCEPT ![work[w].chan] = @ + 1]
                               ELSE executed' = executed
  <2>1. ErrorOf(work[w].held) \in Frames \ {"result"} /\ "result" \in Frames
    BY DEF ErrorOf, Frames, ErrorCodes
  <2> QED
    BY <2>1 DEF Handle
<1>2. /\ work'[w].chan = work[w].chan /\ work'[w].pc = "lock" /\ work'[w].held = reply
      /\ \A v \in Workers \ {w} : work'[v] = work[v]
  BY <1>1, WorkMoves DEF WorkPcs
<1>3. CASE c # work[w].chan
  <2>1. executed'[c] = executed[c]
    BY <1>0, <1>1, <1>3
  <2>2. Calm(c)
    BY <1>0, <1>1, <1>3, <2>1, WorkOthers DEF WorkPcs
  <2> QED
    BY <2>2, CalmInOrder
<1>4. CASE c = work[w].chan
  <2>0. OnePlace(c) /\ Books(c) /\ Story(c) /\ Shape(c)
    BY DEF InOrder
  <2>1. Serving(w, c) /\ Has(w, c)
    BY <1>0, <1>4 DEF Serving, Has
  <2>2. /\ ~Queued(c) /\ ~Arriving(c) /\ ~Sending(c) /\ ~Answered(c)
        /\ \A v \in Workers : Has(v, c) => v = w
        /\ client[c] # "half" /\ (EndsOver(c) /\ Ended(c) => client[c] \in Gone)
    BY <2>1, ServedInOrder
  <2>3. /\ ~Queued(c)' /\ ~Arriving(c)' /\ ~Sending(c)' /\ ~Answered(c)'
        /\ \A v \in Workers : ~Serving(v, c)' /\ (Replying(v, c)' => v = w)
    <3>1. ~Queued(c)' /\ ~Arriving(c)' /\ ~Sending(c)' /\ ~Answered(c)'
      BY <1>0, <2>2 DEF Queued, Arriving, Sending, Answered
    <3>2. \A v \in Workers : ~Serving(v, c)' /\ (Replying(v, c)' => v = w)
      BY <1>2, <2>2 DEF Has, Serving, Replying
    <3> QED
      BY <3>1, <3>2
  <2>4. OnePlace(c)'
    BY <2>3 DEF OnePlace, Has
  <2>5. Unexecuted(c)
    BY <2>0, <2>1 DEF Story
  <2>6. Books(c)'
    <3>1. acked[c] <= executed'[c] /\ executed'[c] <= calls[c]
      <4>1. executed'[c] \in {executed[c], executed[c] + 1} /\ calls[c] \in Nat
        BY <1>0, <1>1, <1>4, Types DEF WireTypeOK
      <4> QED
        BY <1>0, <2>0, <2>5, <4>1 DEF Books, Unexecuted
    <3> QED
      BY <1>0, <2>0, <2>2, <2>3, <2>5, <3>1 DEF Books, Unexecuted, Outstanding, Gone
  <2>7. Owed(c, reply)'
    <3>1. executed'[c] = IF reply = "result" THEN executed[c] + 1 ELSE executed[c]
      BY <1>0, <1>1, <1>4
    <3> QED
      BY <1>0, <2>2, <2>5, <3>1 DEF Owed, Unexecuted
  <2>8. Story(c)'
    BY <1>2, <2>3, <2>7 DEF Story, Owed
  <2>9. Shape(c)'
    BY <1>0, <2>0 DEF Shape
  <2>10. EndsOver(c) => EndsOver(c)'
    BY <1>0, <2>2 DEF EndsOver, Ended, Over
  <2> QED
    BY <2>4, <2>6, <2>8, <2>9, <2>10 DEF OrderKept, InOrder
<1> QED
  BY <1>3, <1>4

LEMMA LockInOrder ==
  ASSUME Base, NEW w \in Workers, Lock(w), NEW c \in Conn, InOrder(c)
  PROVE  OrderKept(c)
<1>1. CASE Frozen
  BY <1>1, FrozenCalm, CalmInOrder
<1>2. CASE ~Frozen
  <2>0. /\ work[w].pc = "lock" /\ work[w].chan \in Conn
        /\ UNCHANGED <<loop, hup, client, calls, acked, denied, up, down, executed>>
        /\ chan \in [Conn -> Channel]
    BY <1>2, WorkerHas, Types DEF Lock, Touches, Crash, Frozen, loopVars, wireVars, clientVars,
                           fdVars
  <2>1. \/ /\ chan[work[w].chan].alive /\ WorkGoes(w, "write", "nothing")
           /\ \E n \in 1 .. MaxChunks : chan' = [chan EXCEPT ![work[w].chan].locked = TRUE,
                                                  ![work[w].chan].out = work[w].held,
                                                  ![work[w].chan].left = n]
        \/ /\ ~chan[work[w].chan].alive /\ WorkGoes(w, "idle", "nothing") /\ UNCHANGED chan
    BY <1>2 DEF Lock, Touches, Crash, Frozen
  <2>2. PICK pc \in {"write", "idle"} : WorkGoes(w, pc, "nothing")
    BY <2>1
  <2>3. /\ work'[w].pc \in {"write", "idle"} /\ \A v \in Workers \ {w} : work'[v] = work[v]
    BY <2>2, WorkMoves DEF WorkPcs
  <2>4. CASE c # work[w].chan
    <3>1. chan'[c] = chan[c]
      BY <2>0, <2>1, <2>4
    <3>2. Calm(c)
      BY <2>0, <2>2, <2>4, <3>1, WorkOthers DEF WorkPcs
    <3> QED
      BY <3>2, CalmInOrder
  <2>5. CASE c = work[w].chan
    <3>0. OnePlace(c) /\ Books(c) /\ Story(c) /\ Shape(c)
      BY DEF InOrder
    <3>1. Replying(w, c) /\ Has(w, c)
      BY <2>0, <2>5 DEF Replying, Has
    <3>2. /\ ~Queued(c) /\ ~Arriving(c) /\ ~Sending(c) /\ ~Answered(c)
          /\ \A v \in Workers : Has(v, c) => v = w
          /\ client[c] # "half" /\ (EndsOver(c) /\ Ended(c) => client[c] \in Gone)
      BY <3>1, ServedInOrder
    <3>3. PICK frame : frame = work[w].held
      OBVIOUS
    <3>4. Owed(c, frame)
      BY <3>0, <3>1, <3>3 DEF Story
    <3>5. \A v \in Workers : ~Has(v, c)'
      BY <2>3, <3>2 DEF Has, Serving, Replying
    <3>6. /\ chan'[c].inbox = chan[c].inbox
          /\ chan'[c].out = frame \/ UNCHANGED chan
      <4>1. CASE chan[c].alive
        <5>1. PICK n : chan' = [chan EXCEPT ![c].locked = TRUE, ![c].out = frame, ![c].left = n]
          BY <2>1, <2>5, <3>3, <4>1
        <5> QED
          BY <2>0, <5>1 DEF Channel
      <4>2. CASE ~chan[c].alive
        BY <2>1, <2>5, <4>2
      <4> QED
        BY <4>1, <4>2
    <3>7. ~Queued(c)' /\ ~Arriving(c)' /\ ~Answered(c)'
      BY <2>0, <3>2, <3>6 DEF Queued, Arriving, Answered
    <3>8. OnePlace(c)'
      BY <3>5, <3>7 DEF OnePlace
    <3>9. Owed(c, frame)'
      BY <2>0, <3>4 DEF Owed
    <3>10. Sending(c)' => chan'[c].out = frame
      BY <3>2, <3>6 DEF Sending
    <3>11. Books(c)'
      BY <2>0, <3>0, <3>4, <3>7 DEF Books, Owed, Outstanding, Gone
    <3>12. Story(c)'
      BY <3>5, <3>7, <3>9, <3>10 DEF Story, Has, Owed
    <3>13. Shape(c)'
      BY <2>0, <3>0, <3>6 DEF Shape
    <3>14. EndsOver(c) => EndsOver(c)'
      BY <2>0, <3>2 DEF EndsOver, Ended, Over
    <3> QED
      BY <3>8, <3>11, <3>12, <3>13, <3>14 DEF OrderKept, InOrder
  <2> QED
    BY <2>4, <2>5
<1> QED
  BY <1>1, <1>2

-----------------------------------------------------------------------------
(* Calls: a reply is written, by the worker first, then by the loop thread *)

\* A reply that is one frame long is all its client finds.
LEMMA OneFrame ==
  ASSUME NEW frame \in Frames
  PROVE  /\ Append(<<>>, frame) # <<>> /\ Head(Append(<<>>, frame)) = frame
         /\ Tail(Append(<<>>, frame)) = <<>>
OBVIOUS

\* The last of a reply reaches the client, or nobody.
LEMMA SentInOrder ==
  ASSUME NEW c \in Conn, InOrder(c), Sending(c), ~Sending(c)', chan[c].out \in Frames,
         chan'[c].inbox = chan[c].inbox,
         up'[c] = up[c], calls'[c] = calls[c], acked'[c] = acked[c], denied'[c] = denied[c],
         executed'[c] = executed[c],
         \A w \in Workers : \/ work'[w] = work[w]
                            \/ work'[w].chan # c
                            \/ work'[w].pc \notin {"notify", "handle", "lock"},
         Ended(c)' => Ended(c), hup'[c] = hup[c],
         \/ /\ client'[c] = client[c] \/ (client[c] \in Gone /\ client'[c] \in Gone)
            /\ down'[c] = down[c]
         \/ /\ client[c] \notin {"failed"} \cup Gone /\ client'[c] = client[c]
            /\ down'[c] = Append(down[c], chan[c].out)
  PROVE  OrderKept(c)
<1>0. OnePlace(c) /\ Books(c) /\ Story(c) /\ Shape(c)
  BY DEF InOrder
<1>1. ~Arriving(c) /\ ~Queued(c) /\ ~Answered(c) /\ \A w \in Workers : ~Has(w, c)
  BY <1>0 DEF OnePlace
<1>2. ~Arriving(c)' /\ ~Queued(c)' /\ \A w \in Workers : ~Has(w, c)'
  <2>1. ~Arriving(c)' /\ ~Queued(c)'
    BY <1>1 DEF Arriving, Queued
  <2>2. \A w \in Workers : ~Has(w, c)'
    BY <1>1 DEF Has, Serving, Replying
  <2> QED
    BY <2>1, <2>2
<1>3. OnePlace(c)'
  BY <1>2 DEF OnePlace
<1>4. EndsOver(c) /\ Ended(c) => client[c] \in Gone
  BY DEF EndsOver, Over, Nowhere
<1>5. PICK frame \in Frames : frame = chan[c].out
  OBVIOUS
<1>6. Owed(c, frame) /\ client[c] \in {"waiting", "failed"} \cup Gone
  BY <1>0, <1>5 DEF Story, Owed
<1>7. Shape(c)'
  BY <1>0, <1>6 DEF Shape, Gone
<1>8. EndsOver(c) => EndsOver(c)'
  BY <1>4 DEF EndsOver, Over, Gone
<1>9. Outstanding(c) => Outstanding(c)'
  BY DEF Outstanding
<1>10. CASE down'[c] = down[c]
  <2>1. ~Answered(c)'
    BY <1>1, <1>10 DEF Answered
  <2>2. client'[c] = client[c] \/ (client[c] \in Gone /\ client'[c] \in Gone)
    OBVIOUS
  <2>3. Books(c)'
    BY <1>0, <1>6, <1>9, <2>1, <2>2 DEF Books, Gone
  <2>4. Story(c)'
    BY <1>2, <2>1 DEF Story, Has
  <2> QED
    BY <1>3, <1>7, <1>8, <2>3, <2>4 DEF OrderKept, InOrder
<1>11. CASE down'[c] # down[c]
  <2>1. /\ client[c] = "waiting" /\ client'[c] = "waiting"
        /\ down'[c] = Append(down[c], frame)
    BY <1>5, <1>6, <1>11
  <2>2. Head(down'[c]) = frame /\ Tail(down'[c]) = <<>>
    BY <1>1, <1>5, <2>1, OneFrame DEF Answered
  <2>3. Books(c)'
    BY <1>0, <1>9, <2>1 DEF Books, Gone
  <2>4. Owed(c, frame)'
    BY <1>6, <2>1 DEF Owed, Gone
  <2>5. Story(c)'
    BY <1>2, <2>2, <2>4 DEF Story, Has, Owed
  <2> QED
    BY <1>3, <1>7, <1>8, <2>3, <2>5 DEF OrderKept, InOrder
<1> QED
  BY <1>10, <1>11

LEMMA ChunkInOrder ==
  ASSUME Base, HupHolds, NEW d \in Conn, fdOf[d] \in Fd, WriteChunk(d),
         ~WriteCrashes(d), UNCHANGED fdVars, NEW c \in Conn, InOrder(c),
         executed'[c] = executed[c],
         \A w \in Workers : \/ work'[w] = work[w]
                            \/ work'[w].chan # c
                            \/ work'[w].pc \notin {"notify", "handle", "lock"},
         Ended(c)' => Ended(c)
  PROVE  OrderKept(c)
<1>0. /\ chan \in [Conn -> Channel] /\ client \in [Conn -> ClientStates]
      /\ work \in [Workers -> WorkType] /\ down \in [Conn -> Seq(Frames)]
      /\ \A e \in Conn : chan[e].left > 0 => chan[e].out \in Frames
  BY Types, StandStill DEF WireTypeOK
<1>1. UNCHANGED <<up, calls, acked, denied>>
  BY <1>0, WriteChunkFacts, Types
<1>2. /\ chan'[c].inbox = chan[c].inbox /\ chan'[c].out = chan[c].out
      /\ chan'[d].left = IF LastChunk(d) THEN 0 ELSE chan[d].left - 1
      /\ c # d => chan'[c].left = chan[c].left
  BY <1>0 DEF WriteChunk, Channel
<1>3. chan[c].left \in Nat /\ hup' = hup
  BY <1>0 DEF Channel, fdVars
<1>4. CASE c # d
  <2>1. client'[c] = client[c] /\ down'[c] = down[c]
    BY <1>0, <1>4 DEF WriteChunk, Write, clientVars
  <2>2. Calm(c)
    BY <1>0, <1>1, <1>2, <1>3, <1>4, <2>1, StillAt DEF Calm
  <2> QED
    BY <2>2, CalmInOrder
<1>5. CASE c = d /\ chan[c].left = 0
  <2>1. client'[c] = client[c] /\ down'[c] = down[c] /\ chan'[c].left = chan[c].left
    BY <1>2, <1>5 DEF WriteChunk, LastChunk, clientVars
  <2>2. Calm(c)
    BY <1>0, <1>1, <1>2, <1>3, <2>1, StillAt DEF Calm
  <2> QED
    BY <2>2, CalmInOrder
<1>6. CASE c = d /\ chan[c].left > 1
  <2>1. chan'[c].left > 0 /\ chan[c].left > 0
    BY <1>2, <1>3, <1>6 DEF LastChunk
  <2>2. /\ down'[c] = down[c]
        /\ client'[c] = client[c] \/ (client[c] \in Gone /\ client'[c] \in Gone)
    BY <1>0, <1>3, <1>6 DEF WriteChunk, LastChunk, clientVars, Gone
  <2>3. \A w \in Workers : /\ Serving(w, c)' => Serving(w, c)
                           /\ Replying(w, c)' => Replying(w, c) /\ work'[w].held = work[w].held
    BY DEF Serving, Replying
  <2>4. Sending(c) /\ Sending(c)'
    BY <2>1 DEF Sending
  <2>5. Calm(c)
    BY <1>1, <1>2, <1>3, <2>2, <2>3, <2>4 DEF SameAt, Calm
  <2> QED
    BY <2>5, CalmInOrder
<1>7. CASE c = d /\ chan[c].left = 1
  <2>1. Sending(c) /\ ~Sending(c)' /\ LastChunk(c) /\ chan[c].out \in Frames
    BY <1>0, <1>2, <1>7 DEF Sending, LastChunk
  <2>2. CASE ~Holds(c)
    <3>1. client'[c] = client[c] /\ down'[c] = down[c]
      BY <1>7, <2>2 DEF WriteChunk, clientVars
    <3> QED
      BY <1>1, <1>2, <1>3, <2>1, <3>1, SentInOrder
  <2>3. CASE Holds(c)
    <3>1. Write(c, chan[c].out) /\ client[c] # "failed"
      <4>1. Write(c, chan[c].out)
        BY <1>7, <2>1, <2>3 DEF WriteChunk
      <4>2. client[c] # "failed"
        BY <2>3 DEF InOrder, Books, HupHolds
      <4> QED
        BY <4>1, <4>2
    <3>2. client[c] # "reset"
      BY <3>1 DEF Write, WriteKills
    <3>3. \/ client[c] \in Gone /\ client'[c] \in Gone /\ down'[c] = down[c]
          \/ /\ client[c] \notin Gone /\ client'[c] = client[c]
             /\ down'[c] = Append(down[c], chan[c].out)
      BY <1>0, <3>1, <3>2 DEF Write, Gone
    <3> QED
      BY <1>1, <1>2, <1>3, <2>1, <3>1, <3>3, SentInOrder
  <2> QED
    BY <2>2, <2>3
<1> QED
  BY <1>3, <1>4, <1>5, <1>6, <1>7

LEMMA WriteFirstInOrder ==
  ASSUME Base, HupHolds, NEW w \in Workers, WriteFirst(w), NEW c \in Conn, InOrder(c)
  PROVE  OrderKept(c)
<1>1. CASE Frozen
  BY <1>1, FrozenCalm, CalmInOrder
<1>2. CASE ~Frozen
  <2>1. /\ work[w].pc = "write" /\ ~WriteCrashes(work[w].chan) /\ WriteChunk(work[w].chan)
        /\ WorkGoes(w, IF LastChunk(work[w].chan) THEN "unlock" ELSE "watch", "nothing")
        /\ UNCHANGED <<loop, executed, fdVars>>
    BY <1>2 DEF WriteFirst, Touches, Crash, Frozen, loopVars
  <2>2. PICK d \in Conn : d = work[w].chan /\ fdOf[d] \in Fd
    BY <2>1, WorkerHas
  <2>3. \A v \in Workers : work'[v] = work[v] \/ work'[v].pc \notin {"notify", "handle", "lock"}
    <3>1. PICK pc \in {"unlock", "watch"} : WorkGoes(w, pc, "nothing")
      BY <2>1
    <3>2. work'[w].pc = pc /\ \A v \in Workers \ {w} : work'[v] = work[v]
      BY <3>1, WorkMoves DEF WorkPcs
    <3> QED
      BY <3>2
  <2>4. Ended(c)' => Ended(c)
    BY <2>1, EndedSame DEF fdVars
  <2> QED
    BY <2>1, <2>2, <2>3, <2>4, ChunkInOrder
<1> QED
  BY <1>1, <1>2

LEMMA WriteMoreInOrder ==
  ASSUME Base, HupHolds, WriteMore, NEW c \in Conn, InOrder(c)
  PROVE  OrderKept(c)
<1>1. /\ UNCHANGED <<work, executed, fdVars>>
      /\ work \in [Workers -> WorkType]
  BY Types DEF WriteMore, poolVars
<1>2. Ended(c)' => Ended(c)
  BY <1>1, LoopWritesFrame, EndedSame DEF fdVars
<1>3. CASE UNCHANGED <<chan, clientVars>>
  <2>1. Calm(c)
    BY <1>1, <1>2, <1>3, StillAt DEF Calm, clientVars, fdVars
  <2> QED
    BY <2>1, CalmInOrder
<1>4. CASE ~UNCHANGED <<chan, clientVars>>
  <2>1. /\ Min(loop.writes) \in DOMAIN channels /\ WriteChunk(channels[Min(loop.writes)])
        /\ ~WriteCrashes(channels[Min(loop.writes)])
    BY <1>4 DEF WriteMore
  <2>2. PICK d \in Conn : d = channels[Min(loop.writes)] /\ fdOf[d] \in Fd
    BY <2>1 DEF Base, TypeInv, KnownOnly, Known
  <2> QED
    BY <1>1, <1>2, <2>1, <2>2, ChunkInOrder
<1> QED
  BY <1>3, <1>4

LEMMA WorkInOrder ==
  ASSUME ~SizeAlone, Base, crash = "no", HupHolds, NEW w \in Workers, WorkNext(w),
         NEW c \in Conn, InOrder(c)
  PROVE  OrderKept(c)
<1>1. CASE Take(w) \/ Notify(w) \/ WatchWrite(w) \/ Unlock(w)
  BY <1>1, WorkCalm, CalmInOrder
<1>2. CASE GetMessage(w) \/ Handle(w) \/ Lock(w) \/ WriteFirst(w)
  BY <1>2, GetMessageInOrder, HandleInOrder, LockInOrder, WriteFirstInOrder
<1> QED
  BY <1>1, <1>2, NoGarbage DEF WorkNext

-----------------------------------------------------------------------------
(* Calls: the clients *)

ServerStill == UNCHANGED <<chan, work, loop, executed, hup>>

\* What a client does moves nothing that has reached the server.
LEMMA ServerPlaces ==
  ASSUME NEW c \in Conn, ServerStill
  PROVE  /\ Queued(c)' <=> Queued(c)
         /\ Sending(c)' <=> Sending(c)
         /\ \A w \in Workers : /\ Serving(w, c)' <=> Serving(w, c)
                               /\ Replying(w, c)' <=> Replying(w, c)
                               /\ Has(w, c)' <=> Has(w, c)
         /\ Ended(c)' <=> Ended(c)
BY DEF ServerStill, Queued, Sending, Serving, Replying, Has, Ended

LEMMA SendInOrder ==
  ASSUME Base, NEW c \in Conn, InOrder(c), ClientSend(c), ServerStill
  PROVE  OrderKept(c)
<1>0. /\ up \in [Conn -> Seq(Units)] /\ client \in [Conn -> ClientStates]
      /\ calls \in [Conn -> Nat] /\ acked[c] \in Nat /\ denied[c] \in Nat
      /\ client[c] = "idle" /\ calls'[c] = calls[c] + 1
      /\ UNCHANGED <<down, acked, denied, executed, chan>>
  BY Types DEF ClientSend, WireTypeOK, fdVars, ServerStill
<1>1. /\ Settled(c) /\ Nowhere(c) /\ chan[c].inbox # "part" /\ up[c] = <<>>
      /\ EndsOver(c) => ~Ended(c)
  BY <1>0 DEF InOrder, Books, EndsOver, Over, Nowhere, Arriving, Gone
<1>2. \/ client'[c] = "waiting" /\ Request(up'[c])
      \/ client'[c] = "half" /\ HalfRequest(up'[c]) /\ Request(up'[c])
  <2>1. CASE \E k \in Kinds :
               /\ up' = [up EXCEPT ![c] = @ \o IF k = "badsize" THEN <<k>> ELSE <<"size", k>>]
               /\ client' = [client EXCEPT ![c] = "waiting"]
    <3>1. PICK k \in RequestKinds :
             up' = [up EXCEPT ![c] = @ \o IF k = "badsize" THEN <<k>> ELSE <<"size", k>>]
      BY <2>1, WireAssumption
    <3>2. Request(up'[c])
      BY <1>0, <1>1, <3>1, SendOne
    <3> QED
      BY <1>0, <2>1, <3>2
  <2>2. CASE /\ up' = [up EXCEPT ![c] = Append(@, "size")]
             /\ client' = [client EXCEPT ![c] = "half"]
    <3>1. HalfRequest(up'[c])
      BY <1>0, <1>1, <2>2, SendOne
    <3>2. up'[c] \in Seq(Units)
      <4>1. up[c] \in Seq(Units) /\ "size" \in Units
        BY <1>0 DEF Units
      <4> QED
        BY <1>0, <2>2, <4>1
    <3>3. Request(up'[c])
      BY <3>1, <3>2, HalfIsWhole
    <3> QED
      BY <1>0, <2>2, <3>1, <3>3
  <2> QED
    BY <2>1, <2>2, <1>0 DEF ClientSend
<1>3. /\ ~Queued(c)' /\ ~Sending(c)' /\ ~Answered(c)' /\ (EndsOver(c) => EndsOver(c)')
      /\ \A w \in Workers : ~Serving(w, c)' /\ ~Replying(w, c)' /\ ~Has(w, c)'
  <2>1. ~Answered(c)'
    BY <1>0, <1>1 DEF Nowhere, Answered
  <2>2. \A w \in Workers : ~Serving(w, c) /\ ~Replying(w, c) /\ ~Has(w, c)
    BY <1>1 DEF Nowhere, Has
  <2> QED
    BY <1>1, <2>1, <2>2, ServerPlaces DEF Nowhere, EndsOver
<1>4. OnePlace(c)'
  BY <1>3 DEF OnePlace
<1>5. /\ Outstanding(c)' /\ executed'[c] = acked'[c]
      /\ acked'[c] <= executed'[c] /\ executed'[c] < calls'[c]
  BY <1>0, <1>1 DEF Settled, Outstanding
<1>6. Books(c)'
  <2>1. calls'[c] \in Nat /\ executed'[c] \in Nat
    BY <1>0, <1>5
  <2> QED
    BY <1>2, <1>5, <2>1 DEF Books, Gone
<1>7. Story(c)'
  BY <1>2, <1>3, <1>5 DEF Story, Unexecuted
<1>8. Shape(c)'
  BY <1>0, <1>1, <1>2 DEF Shape
<1> QED
  BY <1>3, <1>4, <1>6, <1>7, <1>8 DEF OrderKept, InOrder

LEMMA SendRestInOrder ==
  ASSUME Base, NEW c \in Conn, InOrder(c), ClientSendRest(c), ServerStill
  PROVE  OrderKept(c)
<1>0. /\ up \in [Conn -> Seq(Units)] /\ client[c] = "half" /\ client'[c] = "waiting"
      /\ UNCHANGED <<down, calls, acked, denied, executed, chan>>
  BY Types DEF ClientSendRest, WireTypeOK, ServerStill
<1>1. PICK k \in RequestKinds : up'[c] = Append(up[c], k)
  BY <1>0, WireAssumption DEF ClientSendRest
<1>2. Arriving(c) /\ (EndsOver(c) => ~Ended(c))
  <2>1. up[c] \in Seq(Units)
    BY <1>0
  <2>2. chan[c].inbox # "part" => up[c] # <<>>
    BY <1>0, <2>1, HalfIsWhole DEF InOrder, Shape
  <2> QED
    BY <1>0, <2>2 DEF EndsOver, Over, Arriving, Gone
<1>3. /\ ~Queued(c)' /\ ~Sending(c)' /\ ~Answered(c)' /\ (EndsOver(c) => EndsOver(c)')
      /\ \A w \in Workers : ~Serving(w, c)' /\ ~Replying(w, c)' /\ ~Has(w, c)'
  <2>1. OnePlace(c)
    BY DEF InOrder
  <2>2. ~Answered(c)'
    BY <1>0, <1>2, <2>1 DEF OnePlace, Answered
  <2>3. \A w \in Workers : ~Serving(w, c) /\ ~Replying(w, c) /\ ~Has(w, c)
    BY <1>2, <2>1 DEF OnePlace, Has
  <2> QED
    BY <1>2, <2>1, <2>2, <2>3, ServerPlaces DEF OnePlace, EndsOver
<1>4. OnePlace(c)'
  BY <1>3 DEF OnePlace
<1>5. Unexecuted(c)
  BY <1>2 DEF InOrder, Story
<1>6. Books(c)' /\ Unexecuted(c)'
  BY <1>0, <1>5 DEF InOrder, Books, Unexecuted, Outstanding, Gone
<1>7. Story(c)'
  BY <1>3, <1>6 DEF Story
<1>8. Shape(c)'
  <2>1. IF chan[c].inbox = "part" THEN up[c] = <<>> ELSE HalfRequest(up[c])
    BY <1>0 DEF InOrder, Shape
  <2>2. IF chan[c].inbox = "part" THEN Rest(up'[c]) ELSE Request(up'[c])
    BY <1>0, <1>1, <2>1, SendOne, SendSecond
  <2> QED
    BY <1>0, <2>2 DEF Shape
<1> QED
  BY <1>3, <1>4, <1>6, <1>7, <1>8 DEF OrderKept, InOrder

\* A client that gives up or leaves changes nothing of what has reached the server.
LEMMA ClientLeavesStory ==
  ASSUME NEW c \in Conn, Story(c), ServerStill, Arriving(c)' <=> Arriving(c), ~Answered(c)',
         Unexecuted(c) => Unexecuted(c)', \A frame : Owed(c, frame) => Owed(c, frame)'
  PROVE  Story(c)'
<1>1. (Arriving(c) \/ Queued(c) \/ (\E w \in Workers : Serving(w, c)) => Unexecuted(c))'
  BY ServerPlaces DEF Story
<1>2. (\A w \in Workers : Replying(w, c) => Owed(c, work[w].held))'
  <2> SUFFICES ASSUME NEW w \in Workers, Replying(w, c)' PROVE Owed(c, work[w].held)'
    OBVIOUS
  <2>1. PICK frame : frame = work[w].held /\ frame = work'[w].held
    BY DEF ServerStill
  <2>2. Owed(c, frame)
    BY <2>1, ServerPlaces DEF Story
  <2> QED
    BY <2>1, <2>2 DEF Owed
<1>3. (Sending(c) => Owed(c, chan[c].out))'
  <2>1. PICK frame : frame = chan[c].out /\ frame = chan'[c].out
    BY DEF ServerStill
  <2>2. Sending(c)' => Owed(c, frame)'
    BY <2>1, ServerPlaces DEF Story
  <2> QED
    BY <2>1, <2>2 DEF Owed
<1> QED
  BY <1>1, <1>2, <1>3 DEF Story

\* A client that sees its connection closed is told nothing of its last call.
LEMMA FailsInOrder ==
  ASSUME Base, NEW c \in Conn, InOrder(c), ClientSendFails(c) \/ ClientRecvFails(c), ServerStill
  PROVE  OrderKept(c)
<1>0. /\ calls[c] \in Nat /\ acked[c] \in Nat /\ denied \in [Conn -> Nat]
      /\ client \in [Conn -> ClientStates] /\ up \in [Conn -> Seq(Units)]
      /\ hup[c] /\ Ended(c) /\ client'[c] = "failed"
      /\ UNCHANGED <<up, down, calls, acked, executed, chan, work, hup>>
  BY Types DEF ClientSendFails, ClientRecvFails, WireTypeOK, Ended, ServerStill
<1>1. /\ client[c] \in {"idle", "half", "waiting"} /\ ~Answered(c)
      /\ client[c] = "waiting" => ClientRecvFails(c)
      /\ denied'[c] = IF client[c] = "idle" THEN denied[c] ELSE denied[c] + 1
  <2>1. CASE ClientSendFails(c)
    <3>1. client[c] = "half" => Arriving(c)
      BY <1>0, HalfIsWhole DEF InOrder, Shape, Arriving
    <3>2. client[c] = "idle" => ~Answered(c)
      BY DEF InOrder, Books, Nowhere
    <3> QED
      BY <1>0, <2>1, <3>1, <3>2 DEF ClientSendFails, InOrder, OnePlace
  <2>2. CASE ClientRecvFails(c)
    BY <1>0, <2>2 DEF ClientRecvFails, Answered
  <2> QED
    BY <2>1, <2>2
<1>2. calls'[c] = acked'[c] + denied'[c]
  <2>1. CASE client[c] = "idle"
    <3>1. calls[c] = acked[c] + denied[c]
      BY <2>1 DEF InOrder, Books, Settled
    <3> QED
      BY <1>0, <1>1, <2>1, <3>1
  <2>2. CASE client[c] # "idle"
    <3>1. calls[c] = acked[c] + denied[c] + 1
      BY <1>1, <2>2 DEF InOrder, Books, Outstanding
    <3>2. /\ calls'[c] = calls[c] /\ acked'[c] = acked[c] /\ denied'[c] = denied[c] + 1
          /\ acked[c] \in Nat /\ denied[c] \in Nat
      BY <1>0, <1>1, <2>2
    <3> QED
      BY <3>1, <3>2
  <2> QED
    BY <2>1, <2>2
<1>3. /\ Arriving(c)' <=> Arriving(c)
      /\ Answered(c)' <=> Answered(c)
  BY <1>0 DEF Arriving, Answered
<1>4. OnePlace(c)'
  BY <1>3, ServerPlaces DEF InOrder, OnePlace
<1>5. Books(c)'
  BY <1>0, <1>1, <1>2, <1>3 DEF InOrder, Books, Gone
<1>6. Unexecuted(c) => Unexecuted(c)'
  BY <1>0 DEF Unexecuted
<1>7. \A frame : Owed(c, frame) => Owed(c, frame)'
  BY <1>0 DEF Owed
<1>8. Story(c)'
  BY <1>0, <1>1, <1>3, <1>6, <1>7, ClientLeavesStory DEF InOrder
<1>9. Shape(c)'
  BY <1>0 DEF InOrder, Shape
<1>10. EndsOver(c) => EndsOver(c)'
  <2> SUFFICES ASSUME EndsOver(c) PROVE Over(c)'
    BY DEF EndsOver
  <2>1. Nowhere(c) /\ executed[c] = acked[c]
    BY <1>0, <1>1 DEF EndsOver, Over, Gone
  <2>2. Nowhere(c)'
    BY <1>3, <2>1, ServerPlaces DEF Nowhere
  <2> QED
    BY <1>0, <2>1, <2>2 DEF Over
<1> QED
  BY <1>4, <1>5, <1>8, <1>9, <1>10 DEF OrderKept, InOrder

LEMMA RecvInOrder ==
  ASSUME Base, NEW c \in Conn, InOrder(c), ClientRecv(c), ServerStill
  PROVE  OrderKept(c)
<1>0. /\ calls[c] \in Nat /\ acked \in [Conn -> Nat] /\ denied \in [Conn -> Nat]
      /\ client \in [Conn -> ClientStates] /\ down \in [Conn -> Seq(Frames)]
      /\ Answered(c) /\ client[c] = "waiting"
      /\ UNCHANGED <<up, calls, executed, chan>> /\ down'[c] = Tail(down[c])
  BY Types DEF ClientRecv, WireTypeOK, Answered, ServerStill
<1>1. Owed(c, Head(down[c])) /\ Tail(down[c]) = <<>>
  BY <1>0 DEF InOrder, Story
<1>2. /\ ~Arriving(c) /\ ~Queued(c) /\ ~Sending(c) /\ (EndsOver(c) => ~Ended(c))
      /\ \A w \in Workers : ~Has(w, c)
  BY <1>0 DEF InOrder, OnePlace, EndsOver, Over, Nowhere, Gone
<1>3. Nowhere(c)'
  <2>1. ~Arriving(c)' /\ ~Answered(c)'
    BY <1>0, <1>1, <1>2 DEF Arriving, Answered
  <2> QED
    BY <1>2, <2>1, ServerPlaces DEF Nowhere
<1>4. Settled(c)' /\ client'[c] \in {"idle", "refused"}
  <2>1. Outstanding(c)
    BY <1>0 DEF InOrder, Books
  <2>2. CASE Head(down[c]) = "result"
    <3>1. acked'[c] = acked[c] + 1 /\ denied'[c] = denied[c] /\ client'[c] = "idle"
      BY <1>0, <2>2 DEF ClientRecv
    <3> QED
      BY <1>0, <1>1, <2>1, <2>2, <3>1 DEF Owed, Settled, Outstanding
  <2>3. CASE Head(down[c]) # "result"
    <3>1. /\ acked'[c] = acked[c] /\ denied'[c] = denied[c] + 1
          /\ client'[c] \in {"idle", "refused"}
      BY <1>0, <2>3 DEF ClientRecv
    <3> QED
      BY <1>0, <1>1, <2>1, <2>3, <3>1 DEF Owed, Settled, Outstanding
  <2> QED
    BY <2>2, <2>3
<1>5. OnePlace(c)'
  BY <1>3 DEF OnePlace, Nowhere
<1>6. Books(c)'
  <2>1. acked'[c] \in Nat /\ denied'[c] \in Nat
    BY <1>0 DEF ClientRecv
  <2>2. acked'[c] <= executed'[c] /\ executed'[c] <= calls'[c]
    BY <1>4, <2>1 DEF Settled
  <2> QED
    BY <1>3, <1>4, <2>2 DEF Books, Gone
<1>7. Story(c)'
  BY <1>3 DEF Story, Nowhere, Has
<1>8. Shape(c)'
  BY <1>0, <1>4 DEF InOrder, Shape
<1>9. EndsOver(c) => EndsOver(c)'
  BY <1>2, ServerPlaces DEF EndsOver
<1> QED
  BY <1>5, <1>6, <1>7, <1>8, <1>9 DEF OrderKept, InOrder

\* Only one frame is ever on its way.
LEMMA NotTooMuch ==
  ASSUME Base, NEW c \in Conn, InOrder(c)
  PROVE  ~ClientRecvTooMuch(c)
<1>1. down[c] \in Seq(Frames)
  BY Types DEF WireTypeOK
<1>2. down[c] # <<>> => Tail(down[c]) = <<>>
  BY DEF InOrder, Story, Answered
<1>3. \A t \in Seq(Frames) : t = <<>> <=> Len(t) = 0
  OBVIOUS
<1>4. CASE down[c] # <<>>
  <2>1. /\ Len(down[c]) \in Nat \ {0} /\ Tail(down[c]) \in Seq(Frames)
        /\ Len(Tail(down[c])) = Len(down[c]) - 1
    BY <1>1, <1>4
  <2>2. Tail(down[c]) = <<>> <=> Len(down[c]) = 1
    <3>1. Tail(down[c]) = <<>> <=> Len(Tail(down[c])) = 0
      BY <1>3, <2>1
    <3> QED
      BY <2>1, <3>1
  <2> QED
    BY <1>2, <1>4, <2>2 DEF ClientRecvTooMuch
<1>5. CASE down[c] = <<>>
  <2>1. Len(down[c]) = 0
    BY <1>5
  <2> QED
    BY <2>1 DEF ClientRecvTooMuch
<1> QED
  BY <1>4, <1>5

LEMMA CloseInOrder ==
  ASSUME Base, NEW c \in Conn, InOrder(c), ClientClose(c), ServerStill
  PROVE  OrderKept(c)
<1>0. /\ client'[c] \in Gone /\ down'[c] = <<>> /\ ~Answered(c)' /\ client[c] # "failed"
      /\ UNCHANGED <<up, calls, acked, denied, executed, chan, work>>
  BY Types, WireAssumption DEF ClientClose, WireTypeOK, Gone, Answered, ServerStill
<1>1. Arriving(c)' <=> Arriving(c)
  BY <1>0 DEF Arriving
<1>2. OnePlace(c)'
  BY <1>0, <1>1, ServerPlaces DEF InOrder, OnePlace
<1>3. Books(c)'
  BY <1>0 DEF InOrder, Books, Gone
<1>4. Unexecuted(c) => Unexecuted(c)'
  BY <1>0 DEF Unexecuted, Outstanding
<1>5. \A frame : Owed(c, frame) => Owed(c, frame)'
  BY <1>0 DEF Owed
<1>6. Story(c)'
  BY <1>0, <1>1, <1>4, <1>5, ClientLeavesStory DEF InOrder
<1>7. Shape(c)' /\ Over(c)'
  BY <1>0 DEF InOrder, Shape, Over, Gone
<1> QED
  BY <1>2, <1>3, <1>6, <1>7 DEF OrderKept, InOrder, EndsOver

LEMMA ClientInOrder ==
  ASSUME Base, NEW d \in Conn, ClientNext(d), ServerStill, NEW c \in Conn, InOrder(c)
  PROVE  OrderKept(c)
<1>1. CASE c = d
  BY <1>1, SendInOrder, SendRestInOrder, FailsInOrder, RecvInOrder, NotTooMuch,
     CloseInOrder DEF ClientNext, ClientReads
<1>2. CASE c # d
  <2>1. Ended(c)' => Ended(c)
    BY ServerPlaces
  <2>2. Calm(c)
    BY <1>2, <2>1, Types, ClientOnly, StillAt DEF ServerStill, Calm
  <2> QED
    BY <2>2, CalmInOrder
<1> QED
  BY <1>1, <1>2

-----------------------------------------------------------------------------
(* What is watched for writing *)

InMap(c) == fdOf[c] \in DOMAIN channels /\ channels[fdOf[c]] = c
Sends(w, c) == work[w].chan = c /\ work[w].pc \in {"write", "watch"}
Emptied(c) == ~Queued(c) /\ ~Sending(c) /\ \A w \in Workers : ~Has(w, c)

\* The descriptor the loop thread has written the last chunk to.
Written == IF loop.pc = "written" THEN {Min(loop.writes)} ELSE {}

\* Only Channels of the map are watched for writing, and these have something left
\* to write, have just written the last of it, or are closed.
Mapped ==
  /\ writeSet \subseteq DOMAIN channels
  /\ \A c \in Conn : fdOf[c] \in Fd => c \in deleted \/ InMap(c)
WatchedWrites ==
  \A f \in writeSet : \/ Sending(channels[f]) \/ f \in Written \/ ~chan[channels[f]].alive

\* What is left to write is left to the worker that has begun, or is watched; to
\* one worker only, which has not watched it yet.
Unsent ==
  \A c \in Conn : Sending(c) /\ chan[c].alive =>
    (\E w \in Workers : Sends(w, c)) \/ fdOf[c] \in writeSet
FirstChunks ==
  \A w \in Workers : \A c \in Conn : Sends(w, c) =>
    /\ Sending(c) /\ (chan[c].alive => fdOf[c] \notin writeSet)
    /\ \A v \in Workers : Sends(v, c) => v = w

\* What select() reported for writing is still watched when its turn comes, but
\* for the Channels that have been dropped; a number is given out again only
\* while nothing has been dropped.
Reported ==
  /\ loop.pc = "select" => snap.writes \subseteq writeSet
  /\ loop.pc \in {"reads", "writes", "written"} \cup AtChannel =>
       loop.writes \cap DOMAIN channels \subseteq writeSet
  /\ loop.pc = "reads" /\ Listen \in loop.reads => loop.writes \subseteq writeSet

\* A Channel that is about to be unwatched has nothing new to write.
Finished == \A f \in Written \cap DOMAIN channels : Emptied(channels[f])

WriteInv == Mapped /\ WatchedWrites /\ Unsent /\ FirstChunks /\ Reported /\ Finished

\* The listening socket comes first.
LEMMA ListenFirst ==
  ASSUME NEW S \in SUBSET (Fd \cup {Listen}), Listen \in S
  PROVE  Min(S) = Listen
<1>0. Listen \in Nat /\ \A f \in S : f \in Nat /\ Listen <= f
  BY FdFacts, WireAssumption DEF Listen
<1>1. PICK x \in S : x = Min(S) /\ \A y \in S : x <= y
  BY <1>0 DEF Min
<1> QED
  BY <1>0, <1>1

\* A Channel that is not closed is the one its descriptor is mapped to.
LEMMA AliveMapped ==
  ASSUME DescInv, WriteInv, NEW c \in Conn, chan[c].alive, fdOf[c] \in Fd
  PROVE  InMap(c)
BY DEF DescInv, WriteInv, Mapped

\* While the loop thread closes none, the Channels of the map are open.
LEMMA MappedAlive ==
  ASSUME Base, DescInv, ChannelsMatchPoll, main.pc = "running",
         loop.pc \notin {"unwatch", "drop"}, NEW f \in DOMAIN channels
  PROVE  /\ channels[f] \in Conn /\ fdOf[channels[f]] = f /\ owner[f] = channels[f]
         /\ chan[channels[f]].alive
<1>1. channels[f] \in Conn /\ fdOf[channels[f]] = f /\ Holds(channels[f])
  BY DEF ChannelsMatchPoll, Closing, Base, TypeInv, TypeOK, PollTypeOK
<1> QED
  BY <1>1 DEF DescInv, HupHolds, Holds

LEMMA ReportedSame ==
  ASSUME Reported, writeSet \subseteq writeSet', UNCHANGED channels,
         loop'.pc = "select" => loop.pc = "select" /\ UNCHANGED snap,
         loop'.pc \in {"reads", "writes", "written"} \cup AtChannel =>
           /\ loop.pc \in {"reads", "writes", "written"} \cup AtChannel
           /\ loop'.writes \subseteq loop.writes,
         loop'.pc = "reads" /\ Listen \in loop'.reads => loop.pc = "reads" /\ Listen \in loop.reads
  PROVE  Reported'
<1>1. (loop.pc = "select" => snap.writes \subseteq writeSet)'
  BY DEF Reported
<1>2. (loop.pc \in {"reads", "writes", "written"} \cup AtChannel =>
         loop.writes \cap DOMAIN channels \subseteq writeSet)'
  BY DEF Reported
<1>3. (loop.pc = "reads" /\ Listen \in loop.reads => loop.writes \subseteq writeSet)'
  BY DEF Reported, AtChannel
<1> QED
  BY <1>1, <1>2, <1>3 DEF Reported

\* Steps that write and watch nothing.
LEMMA WritesSame ==
  ASSUME WriteInv, UNCHANGED <<writeSet, channels, fdOf, deleted>>,
         \A c \in Conn : (chan'[c].alive => chan[c].alive) /\ (Sending(c)' <=> Sending(c)),
         \A w \in Workers : \A c \in Conn : Sends(w, c)' <=> Sends(w, c),
         Written' = Written, DOMAIN channels \subseteq Fd,
         \A f \in DOMAIN channels : channels[f] \in Conn,
         loop.pc = "written" => \A c \in Conn : Emptied(c) => Emptied(c)',
         Reported'
  PROVE  WriteInv'
<1>0. Mapped /\ WatchedWrites /\ Unsent /\ FirstChunks /\ Finished
  BY DEF WriteInv
<1>1. Mapped'
  BY <1>0 DEF Mapped, InMap
<1>2. WatchedWrites'
  BY <1>0 DEF WatchedWrites, Mapped
<1>3. Unsent'
  BY <1>0 DEF Unsent
<1>4. FirstChunks'
  BY <1>0 DEF FirstChunks
<1>5. Finished'
  <2>1. ASSUME NEW f \in Written \cap DOMAIN channels PROVE Emptied(channels[f])'
    <3>1. PICK c \in Conn : c = channels[f]
      OBVIOUS
    <3>2. Emptied(c) /\ loop.pc = "written"
      BY <1>0, <3>1 DEF Finished, Written
    <3>3. Emptied(c)'
      BY <3>2
    <3> QED
      BY <3>1, <3>3 DEF Emptied, Queued, Sending, Has, Serving, Replying
  <2> QED
    BY <2>1 DEF Finished
<1> QED
  BY <1>1, <1>2, <1>3, <1>4, <1>5 DEF WriteInv

\* The first premises of WritesSame.
LEMMA MapTypes ==
  ASSUME Base
  PROVE  /\ DOMAIN channels \subseteq Fd /\ \A f \in DOMAIN channels : channels[f] \in Conn
         /\ writeSet \subseteq Fd
BY DEF Base, TypeInv, TypeOK, PollTypeOK, WatchInv

LEMMA WorkPlaces ==
  ASSUME UNCHANGED <<work, chan>>
  PROVE  /\ \A c \in Conn : /\ chan'[c].alive => chan[c].alive
                            /\ Sending(c)' <=> Sending(c)
                            /\ Emptied(c) => Emptied(c)'
         /\ \A w \in Workers : \A c \in Conn : Sends(w, c)' <=> Sends(w, c)
BY DEF Sending, Emptied, Queued, Has, Serving, Replying, Sends

LEMMA FrozenWrites ==
  ASSUME Base, WriteInv, Frozen
  PROVE  WriteInv'
<1>1. UNCHANGED <<writeSet, channels, fdOf, deleted, chan, work, loop, snap>>
  BY DEF Frozen, pollVars, loopVars, chanVars, poolVars, wireVars, fdVars
<1>2. Written' = Written
  BY <1>1 DEF Written
<1>3. Reported'
  BY <1>1 DEF WriteInv, Reported
<1> QED
  BY <1>1, <1>2, <1>3, MapTypes, WorkPlaces, WritesSame

LEMMA LoopOnlyWrites ==
  ASSUME Base, WriteInv, LoopOnly
  PROVE  WriteInv'
<1>0. /\ UNCHANGED <<writeSet, channels, fdOf, deleted, chan, work>>
      /\ loop \in LoopType /\ Reported
  BY LoopOnlyFacts, Types DEF wireVars, fdVars, pollVars, OwnRest, WriteInv
<1>1. Written' = Written
  <2>1. loop.pc # "written"
    BY DEF LoopOnly, LoopTop, Snapshot, Select, ReadsDone, BeginRead, CheckBusy, Wait, WritesDone,
           NextRead
  <2>2. loop'.pc # "written"
    BY LoopOnlyFacts
  <2> QED
    BY <2>1, <2>2 DEF Written
<1>2. CASE Snapshot
  <2>1. loop'.pc = "select" /\ snap'.writes = writeSet
    BY <1>0, <1>2 DEF Snapshot, LoopGoes, LoopType
  <2>2. Reported'
    BY <1>0, <2>1 DEF Reported, AtChannel
  <2> QED
    BY <1>0, <1>1, <2>2, MapTypes, WorkPlaces, WritesSame
<1>3. CASE Select
  <2>1. /\ loop.pc = "select" /\ UpTo(snap.writes) \subseteq snap.writes
        /\ \/ loop' = [loop EXCEPT !.pc = "top", !.reads = {}, !.writes = {}]
           \/ \E pc \in {"poll", "reads"} : \E R :
                loop' = [loop EXCEPT !.pc = pc, !.reads = R, !.writes = UpTo(snap.writes)]
    BY <1>3 DEF Select, UpTo
  <2>2. loop'.pc \in {"top", "poll", "reads"} /\ loop'.writes \subseteq snap.writes
    BY <1>0, <2>1 DEF LoopType
  <2>3. Reported'
    BY <1>0, <2>1, <2>2 DEF Reported, AtChannel
  <2> QED
    BY <1>0, <1>1, <2>3, MapTypes, WorkPlaces, WritesSame
<1>4. CASE BeginRead
  <2>1. /\ loop.pc = "reads" /\ Listen \notin loop.reads
        /\ \/ \E c : loop' = [loop EXCEPT !.pc = "check", !.chan = c]
           \/ loop' = [loop EXCEPT !.reads = @ \ {Min(@)}]
    BY <1>0, <1>4, ListenFirst DEF BeginRead, NextRead, LoopType
  <2>2. /\ loop'.pc \in {"check", "reads"} /\ loop'.writes = loop.writes
        /\ loop'.reads \subseteq loop.reads
    BY <1>0, <2>1 DEF LoopType
  <2>3. Reported'
    BY <1>0, <2>1, <2>2, ReportedSame
  <2> QED
    BY <1>0, <1>1, <2>3, MapTypes, WorkPlaces, WritesSame
<1>5. CASE LoopTop \/ ReadsDone \/ CheckBusy \/ Wait \/ WritesDone
  <2>1. /\ loop'.pc # "select" /\ loop'.pc # "reads" /\ loop'.writes = loop.writes
        /\ loop'.pc \in {"writes", "written"} \cup AtChannel => loop.pc \in {"reads"} \cup AtChannel
    <3>1. CASE LoopTop \/ WritesDone
      BY <1>0, <3>1 DEF LoopTop, WritesDone, LoopGoes, LoopType, AtChannel
    <3>2. CASE ReadsDone
      BY <1>0, <3>2 DEF ReadsDone, LoopGoes, LoopType, AtChannel
    <3>3. CASE CheckBusy \/ Wait
      BY <1>0, <3>3 DEF CheckBusy, Wait, LoopGoes, LoopType, AtChannel
    <3> QED
      BY <1>5, <3>1, <3>2, <3>3
  <2>2. Reported'
    BY <1>0, <2>1, ReportedSame
  <2> QED
    BY <1>0, <1>1, <2>2, MapTypes, WorkPlaces, WritesSame
<1> QED
  BY <1>2, <1>3, <1>4, <1>5 DEF LoopOnly

\* A new connection has nothing to write, and its number is watched by nobody.
LEMMA AcceptWrites ==
  ASSUME Base, DescInv, ChannelsMatchPoll, main.pc = "running", CallInv, WriteInv,
         Listen \in loop.reads, NEW f \in Fd, NEW c, Accepts(f, c)
  PROVE  WriteInv'
<1>0. /\ c \in Conn /\ fdOf[c] = NoFd /\ client[c] = "none" /\ owner[f] = Free
      /\ fdOf' = [fdOf EXCEPT ![c] = f] /\ loop.pc = "reads" /\ loop'.pc = "reads"
      /\ UNCHANGED <<chan, work, deleted, writeSet>>
      /\ channels' = [g \in DOMAIN channels \cup {f} |-> IF g = f THEN c ELSE channels[g]]
      /\ loop'.reads = loop.reads \ {Listen} /\ loop'.writes = loop.writes
      /\ fdOf \in [Conn -> Fd \cup {NoFd}]
  BY Types DEF Accepts, Base, TypeInv, NotYet, Poll!Watch, WireTypeOK
<1>1. Mapped /\ WatchedWrites /\ Unsent /\ FirstChunks /\ Reported /\ Finished
  BY DEF WriteInv
<1>2. f \notin DOMAIN channels /\ f \notin writeSet
  <2>1. owner[f] \notin Conn
    BY <1>0, FdFacts
  <2>2. f \notin DOMAIN channels
    BY <1>0, <2>1, MappedAlive
  <2> QED
    BY <1>1, <2>2 DEF Mapped
<1>3. /\ DOMAIN channels' = DOMAIN channels \cup {f} /\ channels'[f] = c
      /\ \A g \in DOMAIN channels : channels'[g] = channels[g]
      /\ fdOf'[c] = f /\ \A d \in Conn \ {c} : fdOf'[d] = fdOf[d]
  BY <1>0, <1>2
<1>4. ~Sending(c) /\ \A w \in Workers : ~Sends(w, c)
  <2>1. ~Sending(c)
    BY <1>0 DEF CallInv, InOrder, Books, Nowhere
  <2> QED
    BY <1>0, <1>1, <2>1 DEF FirstChunks
<1>5. Mapped'
  <2>1. writeSet' \subseteq DOMAIN channels'
    BY <1>0, <1>1, <1>3 DEF Mapped
  <2>2. ASSUME NEW d \in Conn, fdOf'[d] \in Fd PROVE d \in deleted \/ InMap(d)'
    <3>1. CASE d = c
      BY <1>3, <3>1 DEF InMap
    <3>2. CASE d # c
      BY <1>1, <1>3, <2>2, <3>2 DEF Mapped, InMap
    <3> QED
      BY <3>1, <3>2
  <2> QED
    BY <1>0, <2>1, <2>2 DEF Mapped
<1>6. /\ \A d \in Conn : Sending(d)' <=> Sending(d)
      /\ \A w \in Workers : \A d \in Conn : Sends(w, d)' <=> Sends(w, d)
  BY <1>0, WorkPlaces
<1>7. Written = {} /\ Written' = {}
  BY <1>0 DEF Written
<1>8. WatchedWrites'
  <2> SUFFICES ASSUME NEW g \in writeSet
               PROVE  Sending(channels[g])' \/ ~chan'[channels'[g]].alive
    BY <1>0 DEF WatchedWrites
  <2>1. g \in DOMAIN channels /\ (Sending(channels[g]) \/ ~chan[channels[g]].alive)
    BY <1>1, <1>7 DEF Mapped, WatchedWrites
  <2> QED
    BY <1>0, <1>3, <2>1 DEF Sending
<1>9. Unsent' /\ FirstChunks'
  <2>1. Unsent'
    BY <1>0, <1>1, <1>3, <1>4, <1>6 DEF Unsent
  <2>2. FirstChunks'
    BY <1>0, <1>1, <1>3, <1>4, <1>6 DEF FirstChunks
  <2> QED
    BY <2>1, <2>2
<1>10. Reported'
  BY <1>0, <1>1 DEF Reported
<1>11. Finished'
  BY <1>7 DEF Finished
<1> QED
  BY <1>5, <1>8, <1>9, <1>10, <1>11 DEF WriteInv

LEMMA ReadingWrites ==
  ASSUME Base, WriteInv, NEW c, Reading(c)
  PROVE  WriteInv'
<1>0. /\ UNCHANGED <<writeSet, channels, fdOf, deleted, work, snap>>
      /\ loop \in LoopType /\ Reported /\ loop.pc = "read" /\ c \in Conn
      /\ chan \in [Conn -> Channel]
  BY ReadFrames, Types DEF Reading, Reads, ReadsAt, WriteInv, pollVars, fdVars
<1>1. \A d \in Conn : chan'[d].left = chan[d].left /\ (chan'[d].alive <=> chan[d].alive)
  <2>1. \/ UNCHANGED chan
        \/ chan' = [chan EXCEPT ![c].busy = TRUE]
        \/ chan' = [chan EXCEPT ![c].inbox = "part"]
        \/ \E kind : chan' = [chan EXCEPT ![c].inbox = kind, ![c].busy = TRUE]
    BY DEF Reading, GivesUp, HasSize, HasAll, Ready
  <2>2. CASE chan' = [chan EXCEPT ![c].busy = TRUE]
    BY <1>0, <2>2 DEF Channel
  <2>3. CASE chan' = [chan EXCEPT ![c].inbox = "part"]
    BY <1>0, <2>3 DEF Channel
  <2>4. ASSUME NEW kind, chan' = [chan EXCEPT ![c].inbox = kind, ![c].busy = TRUE]
        PROVE  \A d \in Conn : chan'[d].left = chan[d].left /\ (chan'[d].alive <=> chan[d].alive)
    BY <1>0, <2>4 DEF Channel
  <2> QED
    BY <2>1, <2>2, <2>3, <2>4
<1>2. /\ \A d \in Conn : Sending(d)' <=> Sending(d)
      /\ \A w \in Workers : \A d \in Conn : Sends(w, d)' <=> Sends(w, d)
  BY <1>0, <1>1 DEF Sending, Sends
<1>3. /\ loop'.pc \in {"close", "reads"} /\ loop'.writes = loop.writes
      /\ Listen \notin loop'.reads \/ loop'.pc = "close"
  <2>1. loop' = [loop EXCEPT !.pc = "close"] \/ NextOne
    BY ReadFrames DEF Reading
  <2>2. Listen \notin loop.reads
    <3>1. Min(loop.reads) # Listen
      BY <1>0, StandStill, FdFacts DEF AtChannel
    <3> QED
      BY <1>0, <3>1, ListenFirst DEF LoopType
  <2> QED
    BY <1>0, <2>1, <2>2 DEF NextOne, LoopType
<1>4. Written' = Written
  BY <1>0, <1>3 DEF Written
<1>5. Reported'
  BY <1>0, <1>3, ReportedSame DEF AtChannel
<1> QED
  BY <1>0, <1>1, <1>2, <1>4, <1>5, MapTypes, WritesSame

LEMMA CloseWrites ==
  ASSUME Base, OpenInv, WriteInv, CloseChannel, ~Frozen
  PROVE  WriteInv'
<1>0. /\ UNCHANGED <<writeSet, channels, deleted, work, snap>>
      /\ CloseChan(loop.chan) /\ loop' = [loop EXCEPT !.pc = "unwatch"] /\ loop.pc = "close"
      /\ loop \in LoopType /\ Reported /\ loop.chan \in Conn /\ UNCHANGED clientVars
      /\ chan \in [Conn -> Channel]
  BY LoopCloses, Types DEF WriteInv, pollVars, poolVars
<1>1. /\ UNCHANGED fdOf
      /\ \A d \in Conn : /\ chan'[d].left = chan[d].left /\ chan'[d].inbox = chan[d].inbox
                         /\ chan'[d].alive => chan[d].alive
  <2>1. \A d \in Conn : chan'[d].alive => chan[d].alive
    BY <1>0 DEF CloseChan, Channel
  <2>2. /\ UNCHANGED fdOf
        /\ \A d \in Conn : chan'[d].left = chan[d].left /\ chan'[d].inbox = chan[d].inbox
    BY <1>0, CloseChanFacts
  <2> QED
    BY <2>1, <2>2
<1>2. /\ \A d \in Conn : Sending(d)' <=> Sending(d)
      /\ \A w \in Workers : \A d \in Conn : Sends(w, d)' <=> Sends(w, d)
  BY <1>0, <1>1 DEF Sending, Sends
<1>3. loop'.pc = "unwatch" /\ loop'.writes = loop.writes
  BY <1>0 DEF LoopType
<1>4. Written' = Written
  BY <1>0, <1>3 DEF Written
<1>5. Reported'
  BY <1>0, <1>3, ReportedSame DEF AtChannel
<1> QED
  BY <1>0, <1>1, <1>2, <1>4, <1>5, MapTypes, WritesSame

LEMMA UnwatchReadWrites ==
  ASSUME Base, WriteInv, UnwatchRead
  PROVE  WriteInv'
<1>0. /\ UNCHANGED <<writeSet, channels, fdOf, deleted, chan, work, snap>>
      /\ loop' = [loop EXCEPT !.pc = "drop"] /\ loop.pc = "unwatch"
      /\ loop \in LoopType /\ Reported
  BY Types DEF UnwatchRead, LoopGoes, Poll!Unwatch, WriteInv, chanVars, poolVars, wireVars, fdVars
<1>1. loop'.pc = "drop" /\ loop'.writes = loop.writes
  BY <1>0 DEF LoopType
<1>2. Written' = Written
  BY <1>0, <1>1 DEF Written
<1>3. Reported'
  BY <1>0, <1>1, ReportedSame DEF AtChannel
<1> QED
  BY <1>0, <1>2, <1>3, MapTypes, WorkPlaces, WritesSame

\* The Channel goes with its number: out of the map, and out of what is watched.
LEMMA DropWrites ==
  ASSUME Base, DescInv, WriteInv, DropChannel
  PROVE  WriteInv'
<1> DEFINE f == Min(loop.reads)
<1>0. /\ UNCHANGED <<chan, work, fdOf>> /\ loop.pc = "drop" /\ loop'.pc = "reads"
      /\ loop'.reads = loop.reads \ {f} /\ loop'.writes = loop.writes
      /\ deleted \subseteq deleted' /\ (f \in DOMAIN channels => loop.chan \in deleted')
      /\ channels' = [g \in DOMAIN channels \ {f} |-> channels[g]]
      /\ writeSet' = writeSet \ {f} /\ loop \in LoopType
      /\ f \in DOMAIN channels => channels[f] = loop.chan
      /\ f \in Fd /\ loop.chan \in Conn
  <2>1. writeSet' = writeSet \ {f}
    BY DEF DropChannel, Poll!Unwatch
  <2>2. /\ UNCHANGED <<poolVars, wireVars, chan>> /\ loop.pc = "drop" /\ loop'.pc = "reads"
        /\ loop'.reads = loop.reads \ {f} /\ loop'.writes = loop.writes
        /\ deleted \subseteq deleted' /\ (f \in DOMAIN channels => loop.chan \in deleted')
        /\ channels' = [g \in DOMAIN channels \ {f} |-> channels[g]]
    BY Drops
  <2>3. /\ f \in DOMAIN channels => channels[f] = loop.chan
        /\ f \in Fd /\ loop.chan \in Conn
    BY <2>2, StandStill DEF AtChannel
  <2> QED
    BY <2>1, <2>2, <2>3, Types DEF poolVars, wireVars, fdVars
<1>1. Mapped /\ WatchedWrites /\ Unsent /\ FirstChunks /\ Reported /\ Finished
  BY DEF WriteInv
<1> HIDE DEF f
<1>2. /\ DOMAIN channels' = DOMAIN channels \ {f}
      /\ \A g \in DOMAIN channels' : channels'[g] = channels[g]
  BY <1>0
<1>3. /\ \A d \in Conn : Sending(d)' <=> Sending(d)
      /\ \A w \in Workers : \A d \in Conn : Sends(w, d)' <=> Sends(w, d)
  BY <1>0, WorkPlaces
<1>4. Written = {} /\ Written' = {}
  BY <1>0 DEF Written
<1>5. \A d \in Conn : chan[d].alive => fdOf[d] # f
  <2>1. ASSUME NEW d \in Conn, chan[d].alive, fdOf[d] = f PROVE FALSE
    <3>1. channels[f] = d /\ f \in DOMAIN channels
      BY <1>0, <2>1, AliveMapped DEF InMap
    <3> QED
      BY <1>0, <2>1, <3>1 DEF DescInv
  <2> QED
    BY <2>1
<1>6. Mapped'
  <2>1. writeSet' \subseteq DOMAIN channels'
    BY <1>0, <1>1, <1>2 DEF Mapped
  <2>2. ASSUME NEW d \in Conn, fdOf'[d] \in Fd PROVE d \in deleted' \/ InMap(d)'
    <3>1. d \in deleted \/ (fdOf[d] \in DOMAIN channels /\ channels[fdOf[d]] = d)
      BY <1>0, <1>1, <2>2 DEF Mapped, InMap
    <3>2. CASE fdOf[d] = f
      BY <1>0, <3>1, <3>2
    <3>3. CASE fdOf[d] # f
      BY <1>0, <1>2, <3>1, <3>3 DEF InMap
    <3> QED
      BY <3>2, <3>3
  <2> QED
    BY <2>1, <2>2 DEF Mapped
<1>7. WatchedWrites'
  <2> SUFFICES ASSUME NEW g \in writeSet \ {f}
               PROVE  Sending(channels[g])' \/ ~chan'[channels'[g]].alive
    BY <1>0 DEF WatchedWrites
  <2>1. g \in DOMAIN channels /\ (Sending(channels[g]) \/ ~chan[channels[g]].alive)
    BY <1>1, <1>4 DEF Mapped, WatchedWrites
  <2> QED
    BY <1>0, <1>2, <2>1 DEF Sending
<1>8. Unsent'
  BY <1>0, <1>1, <1>3, <1>5 DEF Unsent
<1>9. FirstChunks'
  BY <1>0, <1>1, <1>3 DEF FirstChunks
<1>10. Reported'
  <2>1. Listen \notin loop'.reads
    <3>1. f # Listen
      BY <1>0, FdFacts
    <3> QED
      BY <1>0, <3>1, ListenFirst DEF LoopType, f
  <2> QED
    BY <1>0, <1>1, <1>2, <2>1 DEF Reported, AtChannel
<1>11. Finished'
  BY <1>4 DEF Finished
<1> QED
  BY <1>6, <1>7, <1>8, <1>9, <1>10, <1>11 DEF WriteInv

\* The loop thread writes a chunk to a client whose reply no worker is writing.
LEMMA WriteMoreWrites ==
  ASSUME Base, DescInv, ChannelsMatchPoll, main.pc = "running", CallInv, WriteInv, WriteMore
  PROVE  WriteInv'
<1> DEFINE f == Min(loop.writes)
<1>0. /\ UNCHANGED <<writeSet, channels, fdOf, deleted, work, snap>>
      /\ loop \in LoopType /\ chan \in [Conn -> Channel] /\ loop.pc = "writes" /\ f \in loop.writes
  <2>1. /\ UNCHANGED <<writeSet, channels, fdOf, deleted, work, snap>>
        /\ loop.pc = "writes" /\ loop.writes # {}
    BY DEF WriteMore, pollVars, poolVars, fdVars
  <2>2. loop \in LoopType /\ chan \in [Conn -> Channel]
    BY Types
  <2>3. loop.writes \in SUBSET (Fd \cup {Listen})
    BY <2>2 DEF LoopType
  <2> QED
    BY <2>1, <2>2, <2>3, MinIn
<1>1. Mapped /\ WatchedWrites /\ Unsent /\ FirstChunks /\ Reported /\ Finished
  BY DEF WriteInv
<1>2. \/ UNCHANGED <<loop, chan, clientVars>>
      \/ WriteNextOne /\ UNCHANGED chan
      \/ /\ f \in DOMAIN channels /\ WriteChunk(channels[f])
         /\ IF LastChunk(channels[f]) THEN LoopGoes("written") ELSE WriteNextOne
  BY DEF WriteMore
<1> HIDE DEF f
<1>3. CASE UNCHANGED <<loop, chan, clientVars>>
  <2>1. Frozen
    BY <1>3 DEF WriteMore, Frozen, loopVars, chanVars, wireVars
  <2> QED
    BY <2>1, FrozenWrites
<1>4. WriteNextOne => loop'.pc = "writes" /\ loop'.writes = loop.writes \ {f} /\ Written' = Written
  BY <1>0 DEF WriteNextOne, LoopType, Written, f
<1>5. WriteNextOne => Reported'
  BY <1>0, <1>1, <1>4, ReportedSame DEF AtChannel
<1>6. CASE WriteNextOne /\ UNCHANGED chan
  BY <1>0, <1>4, <1>5, <1>6, MapTypes, WorkPlaces, WritesSame
<1>7. CASE f \in DOMAIN channels /\ WriteChunk(channels[f])
           /\ IF LastChunk(channels[f]) THEN LoopGoes("written") ELSE WriteNextOne
  <2>1. PICK c \in Conn : c = channels[f] /\ fdOf[c] = f /\ chan[c].alive
    BY <1>0, <1>7, MappedAlive
  <2>2. f \in writeSet
    BY <1>0, <1>1, <1>7 DEF Reported
  <2>3. Sending(c) /\ \A w \in Workers : ~Sends(w, c)
    BY <1>0, <1>1, <2>1, <2>2 DEF WatchedWrites, Written, FirstChunks
  <2>4. ~Queued(c) /\ \A w \in Workers : ~Has(w, c)
    BY <2>3 DEF CallInv, InOrder, OnePlace
  <2>5. /\ \A d \in Conn : chan'[d].alive = chan[d].alive /\ chan'[d].inbox = chan[d].inbox
        /\ \A d \in Conn \ {c} : chan'[d].left = chan[d].left
        /\ chan'[c].left = IF LastChunk(c) THEN 0 ELSE chan[c].left - 1
    BY <1>0, <1>7, <2>1 DEF WriteChunk, Channel
  <2>6. \A w \in Workers : \A d \in Conn : (Sends(w, d)' <=> Sends(w, d)) /\ (Has(w, d)' <=> Has(w, d))
    BY <1>0 DEF Sends, Has, Serving, Replying
  <2>7. \A d \in Conn \ {c} : Sending(d)' <=> Sending(d)
    BY <2>5 DEF Sending
  <2>8. CASE ~LastChunk(c)
    <3>1. chan[c].left \in Nat
      BY <1>0 DEF Channel
    <3>2. Sending(c)'
      BY <2>5, <2>8, <3>1 DEF LastChunk, Sending
    <3>3. \A d \in Conn : Sending(d)' <=> Sending(d)
      BY <2>3, <2>7, <3>2
    <3> QED
      BY <1>0, <1>4, <1>5, <1>7, <2>1, <2>5, <2>6, <2>8, <3>3, MapTypes, WritesSame
  <2>9. CASE LastChunk(c)
    <3>1. loop'.pc = "written" /\ loop'.writes = loop.writes /\ Written' = {f} /\ Written = {}
      BY <1>0, <1>7, <2>1, <2>9 DEF LoopGoes, LoopType, Written, f
    <3>2. ~Sending(c)'
      BY <2>5, <2>9 DEF Sending
    <3>3. Mapped'
      BY <1>0, <1>1 DEF Mapped, InMap
    <3>4. WatchedWrites'
      <4> SUFFICES ASSUME NEW g \in writeSet, g # f
                   PROVE  Sending(channels[g])' \/ ~chan'[channels[g]].alive
        BY <1>0, <3>1 DEF WatchedWrites
      <4>1. PICK d \in Conn : d = channels[g] /\ fdOf[d] = g
        BY <1>0, <1>1, MappedAlive DEF Mapped
      <4>2. d # c /\ (Sending(d) \/ ~chan[d].alive)
        BY <1>1, <2>1, <3>1, <4>1 DEF WatchedWrites
      <4>3. Sending(d)' \/ ~chan'[d].alive
        BY <2>5, <2>7, <4>2
      <4> QED
        BY <1>0, <4>1, <4>3 DEF Sending
    <3>5. Unsent'
      BY <1>0, <1>1, <2>5, <2>6, <2>7, <3>2 DEF Unsent
    <3>6. FirstChunks'
      BY <1>0, <1>1, <2>3, <2>5, <2>6, <2>7 DEF FirstChunks
    <3>7. Reported'
      BY <1>0, <1>1, <3>1, ReportedSame
    <3>8. Finished'
      <4>1. Emptied(c)'
        BY <2>4, <2>5, <2>6, <3>2 DEF Emptied, Queued
      <4>2. channels'[f] = c
        BY <1>0, <2>1
      <4> QED
        BY <3>1, <4>1, <4>2 DEF Finished, Emptied, Queued, Sending, Has, Serving, Replying
    <3> QED
      BY <3>3, <3>4, <3>5, <3>6, <3>7, <3>8 DEF WriteInv
  <2> QED
    BY <2>8, <2>9
<1> QED
  BY <1>2, <1>3, <1>6, <1>7

\* Nothing new is there to be written when a descriptor is unwatched.
LEMMA UnwatchWriteWrites ==
  ASSUME Base, DescInv, WriteInv, UnwatchWrite
  PROVE  WriteInv'
<1> DEFINE f == Min(loop.writes)
<1>0. /\ UNCHANGED <<channels, fdOf, deleted, chan, work, snap>>
      /\ writeSet' = writeSet \ {f} /\ loop.pc = "written" /\ loop \in LoopType
      /\ loop' = [loop EXCEPT !.pc = "writes", !.writes = @ \ {f}]
  BY Types DEF UnwatchWrite, Poll!Unwatch, chanVars, poolVars, wireVars, fdVars
<1>1. Mapped /\ WatchedWrites /\ Unsent /\ FirstChunks /\ Reported /\ Finished
  BY DEF WriteInv
<1> HIDE DEF f
<1>2. loop'.pc = "writes" /\ loop'.writes = loop.writes \ {f}
  BY <1>0 DEF LoopType
<1>3. Written = {f} /\ Written' = {}
  BY <1>0, <1>2 DEF Written, f
<1>4. /\ \A d \in Conn : Sending(d)' <=> Sending(d)
      /\ \A w \in Workers : \A d \in Conn : Sends(w, d)' <=> Sends(w, d)
  BY <1>0, WorkPlaces
<1>5. Mapped'
  BY <1>0, <1>1 DEF Mapped, InMap
<1>6. WatchedWrites'
  BY <1>0, <1>1, <1>3 DEF WatchedWrites, Sending
<1>7. Unsent'
  <2> SUFFICES ASSUME NEW d \in Conn, Sending(d), chan[d].alive, ~\E w \in Workers : Sends(w, d)
               PROVE  fdOf[d] \in writeSet /\ fdOf[d] # f
    BY <1>0, <1>4 DEF Unsent
  <2>1. fdOf[d] \in writeSet
    BY <1>1 DEF Unsent
  <2>2. InMap(d)
    BY <2>1, AliveMapped, MapTypes
  <2>3. fdOf[d] # f
    BY <1>1, <1>3, <2>2 DEF InMap, Finished, Emptied
  <2> QED
    BY <2>1, <2>3
<1>8. FirstChunks'
  BY <1>0, <1>1, <1>4 DEF FirstChunks
<1>9. Reported'
  BY <1>0, <1>1, <1>2 DEF Reported, AtChannel
<1>10. Finished'
  BY <1>3 DEF Finished
<1> QED
  BY <1>5, <1>6, <1>7, <1>8, <1>9, <1>10 DEF WriteInv

\* A worker leaves the loop thread's lists alone, but for waking it.
LEMMA WorkReported ==
  ASSUME Base, WriteInv, NEW w \in Workers, WorkNext(w)
  PROVE  /\ Written' = Written /\ Reported'
         /\ UNCHANGED <<channels, fdOf, deleted>>
         /\ \A c \in Conn : chan'[c].alive = chan[c].alive
<1>0. /\ UNCHANGED <<channels, fdOf, deleted, snap>> /\ loop \in LoopType /\ Reported
      /\ \A c \in Conn : chan'[c].alive = chan[c].alive
      /\ UNCHANGED loop \/ (loop.pc = "waiting" /\ loop' = [loop EXCEPT !.pc = "check"])
  BY WorkFrame, Types DEF fdVars, WriteInv
<1>1. \/ UNCHANGED loop
      \/ /\ loop.pc = "waiting" /\ loop'.pc = "check" /\ loop'.reads = loop.reads
         /\ loop'.writes = loop.writes
  BY <1>0 DEF LoopType
<1>2. Written' = Written
  BY <1>1 DEF Written
<1>3. writeSet \subseteq writeSet'
  BY DEF WorkNext, Take, GetMessage, Notify, Handle, HandleGarbage, Lock, WriteFirst, WatchWrite,
         Unlock,
         Touches, Crash, pollVars, Poll!Watch
<1>4. Reported'
  BY <1>0, <1>1, <1>3, ReportedSame DEF AtChannel
<1> QED
  BY <1>0, <1>2, <1>4

\* A worker that writes nothing before its step and nothing after it.
LEMMA SendsSame ==
  ASSUME NEW w \in Workers, work[w].pc \notin {"write", "watch"},
         work'[w].pc \notin {"write", "watch"}, \A v \in Workers \ {w} : work'[v] = work[v]
  PROVE  \A v \in Workers : \A c \in Conn : Sends(v, c)' <=> Sends(v, c)
BY DEF Sends

\* A worker takes a request, runs it, gives up, or is done.
LEMMA WorkQuietWrites ==
  ASSUME ~SizeAlone, Base, crash = "no", WriteInv, NEW w \in Workers, ~Frozen,
         Take(w) \/ GetMessage(w) \/ Notify(w) \/ Handle(w) \/ Unlock(w)
         \/ (Lock(w) /\ UNCHANGED chan)
  PROVE  WriteInv'
<1>0. /\ Written' = Written /\ Reported' /\ UNCHANGED <<channels, fdOf, deleted>>
      /\ \A c \in Conn : chan'[c].alive = chan[c].alive
  BY WorkReported DEF WorkNext
<1>1. /\ chan \in [Conn -> Channel] /\ work \in [Workers -> WorkType]
      /\ work[w].pc # "idle" => work[w].chan \in Conn
  BY Types, WorkerHas
<1>2. UNCHANGED writeSet
  BY DEF Take, GetMessage, Notify, Handle, Lock, Unlock, Touches, Crash, pollVars
<1>3. CASE Take(w) \/ Notify(w) \/ Unlock(w)
  <2>1. \A c \in Conn : SameAt(c)
    BY <1>3, WorkCalm DEF Calm
  <2>2. \A c \in Conn : (Sending(c)' <=> Sending(c)) /\ (Emptied(c) => Emptied(c)')
    BY <2>1 DEF SameAt, Emptied, Queued, Has
  <2>3. \A v \in Workers : \A c \in Conn : Sends(v, c)' <=> Sends(v, c)
    <3>1. CASE Take(w)
      <4>1. /\ work[w].pc = "idle" /\ work'[w].pc = "get"
            /\ \A v \in Workers \ {w} : work'[v] = work[v]
        BY <1>1, <3>1 DEF Take
      <4> QED
        BY <4>1, SendsSame
    <3>2. CASE Notify(w)
      <4>1. work[w].pc = "notify" /\ WorkGoes(w, "handle", work[w].held)
        BY <3>2 DEF Notify, Touches, Crash, Frozen
      <4>2. work[w].held \in Messages
        BY <4>1 DEF Base, JobInv, HeldRight
      <4>3. work'[w].pc = "handle" /\ \A v \in Workers \ {w} : work'[v] = work[v]
        BY <4>1, <4>2, WorkMoves DEF WorkPcs
      <4> QED
        BY <4>1, <4>3, SendsSame
    <3>3. CASE Unlock(w)
      <4>1. work[w].pc = "unlock" /\ WorkGoes(w, "idle", "nothing")
        BY <3>3 DEF Unlock, Touches, Crash, Frozen
      <4>2. work'[w].pc = "idle" /\ \A v \in Workers \ {w} : work'[v] = work[v]
        BY <4>1, WorkMoves DEF WorkPcs
      <4> QED
        BY <4>1, <4>2, SendsSame
    <3> QED
      BY <1>3, <3>1, <3>2, <3>3
  <2> QED
    BY <1>0, <1>2, <2>2, <2>3, MapTypes, WritesSame
<1>4. CASE GetMessage(w)
  <2>0. PICK d \in Conn :
          /\ d = work[w].chan /\ work[w].pc = "get" /\ WorkGoes(w, "notify", chan[d].inbox)
          /\ chan' = [chan EXCEPT ![d].inbox = "none", ![d].busy = FALSE]
    BY <1>1, <1>4 DEF GetMessage, Touches, Crash, Frozen
  <2>1. chan[d].inbox \in RequestKinds /\ Queued(d)
    <3>1. HasJob(d)
      BY <2>0 DEF HasJob, Getting
    <3> QED
      BY <3>1, AllRequests DEF Base, JobInv, JobsWhole, Queued
  <2>2. /\ work'[w].pc = "notify" /\ work'[w].chan = d
        /\ \A v \in Workers \ {w} : work'[v] = work[v]
    BY <2>0, <2>1, AllRequests, WorkMoves DEF WorkPcs
  <2>3. /\ \A c \in Conn : chan'[c].left = chan[c].left
        /\ \A c \in Conn \ {d} : chan'[c].inbox = chan[c].inbox
    BY <1>1, <2>0 DEF Channel
  <2>4. \A c \in Conn : Sending(c)' <=> Sending(c)
    BY <2>3 DEF Sending
  <2>5. \A v \in Workers : \A c \in Conn \ {d} : Has(v, c)' <=> Has(v, c)
    BY <2>0, <2>2 DEF Has, Serving, Replying
  <2>6. \A c \in Conn : Emptied(c) => Emptied(c)'
    BY <2>1, <2>3, <2>4, <2>5 DEF Emptied, Queued
  <2>7. \A v \in Workers : \A c \in Conn : Sends(v, c)' <=> Sends(v, c)
    BY <2>0, <2>2, SendsSame
  <2> QED
    BY <1>0, <1>2, <2>4, <2>6, <2>7, MapTypes, WritesSame
<1>5. CASE Handle(w) \/ (Lock(w) /\ UNCHANGED chan)
  <2>0. work[w].chan \in Conn /\ work[w].pc \in {"handle", "lock"} /\ UNCHANGED chan
    BY <1>1, <1>5 DEF Handle, Lock, Touches, chanVars
  <2>1. /\ work'[w].pc \in {"lock", "idle"} /\ work'[w].chan = work[w].chan
        /\ \A v \in Workers \ {w} : work'[v] = work[v]
    <3>1. CASE Handle(w)
      <4>1. \E reply \in Frames : WorkGoes(w, "lock", reply)
        <5>1. ErrorOf(work[w].held) \in Frames /\ "result" \in Frames
          BY DEF ErrorOf, Frames, ErrorCodes
        <5> QED
          BY <3>1, <5>1 DEF Handle
      <4> QED
        BY <4>1, WorkMoves DEF WorkPcs
    <3>2. CASE Lock(w) /\ UNCHANGED chan
      <4>1. WorkGoes(w, "idle", "nothing") \/ WorkGoes(w, "write", "nothing")
        BY <3>2 DEF Lock, Touches, Crash, Frozen
      <4>2. ~WorkGoes(w, "write", "nothing")
        <5> SUFFICES ASSUME WorkGoes(w, "write", "nothing") PROVE FALSE
          OBVIOUS
        <5>1. ~WorkGoes(w, "idle", "nothing")
          BY WorkMoves DEF WorkPcs
        <5>2. PICK c \in Conn : c = work[w].chan
          BY <2>0
        <5>3. PICK out, n : /\ ~chan[c].locked
                            /\ chan' = [chan EXCEPT ![c].locked = TRUE, ![c].out = out,
                                                    ![c].left = n]
          BY <3>2, <5>1, <5>2 DEF Lock, Touches, Crash, Frozen
        <5>4. chan'[c].locked
          BY <1>1, <5>3
        <5> QED
          BY <3>2, <5>3, <5>4
      <4> QED
        BY <4>1, <4>2, WorkMoves DEF WorkPcs
    <3> QED
      BY <1>5, <3>1, <3>2
  <2>2. \A v \in Workers : \A c \in Conn : Has(v, c)' => Has(v, c)
    BY <2>0, <2>1 DEF Has, Serving, Replying
  <2>3. \A c \in Conn : (Sending(c)' <=> Sending(c)) /\ (Emptied(c) => Emptied(c)')
    BY <2>0, <2>2 DEF Sending, Emptied, Queued
  <2>4. \A v \in Workers : \A c \in Conn : Sends(v, c)' <=> Sends(v, c)
    BY <2>0, <2>1, SendsSame
  <2> QED
    BY <1>0, <1>2, <2>3, <2>4, MapTypes, WritesSame
<1> QED
  BY <1>3, <1>4, <1>5

\* The worker that gets _send_mutex is the only one to write to its Channel.
LEMMA LockWrites ==
  ASSUME Base, DescInv, CallInv, WriteInv, NEW w \in Workers, Lock(w), ~Frozen, ~UNCHANGED chan
  PROVE  WriteInv'
<1>a. PICK c \in Conn : c = work[w].chan /\ fdOf[c] \in Fd
  <2>1. work[w].pc # "idle"
    BY DEF Lock, Touches, Crash, Frozen
  <2> QED
    BY <2>1, WorkerHas
<1>0. /\ Written' = Written /\ Reported' /\ UNCHANGED <<channels, fdOf, deleted, writeSet>>
      /\ \A d \in Conn : chan'[d].alive = chan[d].alive
      /\ chan \in [Conn -> Channel] /\ work[w].pc = "lock"
  BY WorkReported, Types DEF WorkNext, Lock, Touches, Crash, Frozen, pollVars
<1>1. /\ c \in Conn /\ fdOf[c] \in Fd /\ chan[c].alive
      /\ WorkGoes(w, "write", "nothing")
      /\ \E n \in 1 .. MaxChunks : chan' = [chan EXCEPT ![c].locked = TRUE,
                                             ![c].out = work[w].held, ![c].left = n]
  BY <1>a, <1>0 DEF Lock, Touches, Crash, Frozen
<1>2. /\ work'[w].pc = "write" /\ work'[w].chan = c
      /\ \A v \in Workers \ {w} : work'[v] = work[v]
  BY <1>a, <1>1, WorkMoves DEF WorkPcs
<1>3. /\ \A d \in Conn : chan'[d].inbox = chan[d].inbox
      /\ \A d \in Conn \ {c} : chan'[d].left = chan[d].left
      /\ chan'[c].left > 0
  BY <1>0, <1>1 DEF Channel
<1>4. Mapped /\ WatchedWrites /\ Unsent /\ FirstChunks /\ Finished
  BY DEF WriteInv
<1>5. Has(w, c) /\ ~Sending(c)
  <2>1. Has(w, c)
    BY <1>a, <1>0 DEF Has, Replying
  <2> QED
    BY <1>1, <2>1 DEF CallInv, InOrder, OnePlace
<1>6. Sending(c)' /\ \A d \in Conn \ {c} : Sending(d)' <=> Sending(d)
  BY <1>3 DEF Sending
<1>7. \A v \in Workers : ~Sends(v, c)
  BY <1>1, <1>4, <1>5 DEF FirstChunks
<1>8. /\ \A v \in Workers : Sends(v, c)' <=> v = w
      /\ \A v \in Workers : \A d \in Conn \ {c} : Sends(v, d)' <=> Sends(v, d)
  <2>1. \A v \in Workers \ {w} : \A d \in Conn : Sends(v, d)' <=> Sends(v, d)
    BY <1>2 DEF Sends
  <2>2. \A d \in Conn : Sends(w, d)' <=> d = c
    BY <1>2 DEF Sends
  <2>3. \A d \in Conn : ~Sends(w, d)
    BY <1>0 DEF Sends
  <2> QED
    BY <1>7, <2>1, <2>2, <2>3
<1>9. fdOf[c] \notin writeSet
  <2>1. InMap(c)
    BY <1>1, AliveMapped
  <2>2. fdOf[c] \notin Written
    BY <1>4, <1>5, <2>1 DEF Finished, Emptied, InMap
  <2> QED
    BY <1>1, <1>4, <1>5, <2>1, <2>2 DEF WatchedWrites, InMap
<1>10. Mapped'
  BY <1>0, <1>4 DEF Mapped, InMap
<1>11. WatchedWrites'
  <2> SUFFICES ASSUME NEW f \in writeSet, f \notin Written
               PROVE  Sending(channels[f])' \/ ~chan'[channels[f]].alive
    BY <1>0 DEF WatchedWrites
  <2>1. PICK d \in Conn : d = channels[f]
    BY <1>4, MapTypes DEF Mapped
  <2>2. Sending(d) \/ ~chan[d].alive
    BY <1>4, <2>1 DEF WatchedWrites
  <2>3. Sending(d)' \/ ~chan'[d].alive
    BY <1>0, <1>6, <2>2
  <2> QED
    BY <1>0, <2>1, <2>3 DEF Sending
<1>12. Unsent'
  BY <1>0, <1>4, <1>6, <1>8 DEF Unsent
<1>13. FirstChunks'
  BY <1>0, <1>4, <1>6, <1>8, <1>9 DEF FirstChunks
<1>14. Finished'
  <2> SUFFICES ASSUME NEW f \in Written \cap DOMAIN channels PROVE Emptied(channels[f])'
    BY <1>0 DEF Finished
  <2>1. PICK d \in Conn : d = channels[f]
    BY MapTypes
  <2>2. Emptied(d) /\ d # c
    BY <1>4, <1>5, <2>1 DEF Finished, Emptied
  <2>3. \A v \in Workers : ~Has(v, d)'
    BY <1>2, <2>2 DEF Emptied, Has, Serving, Replying
  <2>4. Emptied(d)'
    BY <1>3, <1>6, <2>2, <2>3 DEF Emptied, Queued
  <2> QED
    BY <1>0, <2>1, <2>4 DEF Emptied, Queued, Sending, Has, Serving, Replying
<1> QED
  BY <1>0, <1>10, <1>11, <1>12, <1>13, <1>14 DEF WriteInv

\* The worker writes the first chunk, which may be the last.
LEMMA WriteFirstWrites ==
  ASSUME Base, DescInv, WriteInv, NEW w \in Workers, WriteFirst(w), ~Frozen
  PROVE  WriteInv'
<1>a. PICK c \in Conn : c = work[w].chan /\ fdOf[c] \in Fd
  <2>1. work[w].pc # "idle"
    BY DEF WriteFirst, Touches, Crash, Frozen
  <2> QED
    BY <2>1, WorkerHas
<1>0. /\ Written' = Written /\ Reported' /\ UNCHANGED <<channels, fdOf, deleted, writeSet>>
      /\ \A d \in Conn : chan'[d].alive = chan[d].alive
      /\ chan \in [Conn -> Channel] /\ work[w].pc = "write"
  BY WorkReported, Types DEF WorkNext, WriteFirst, Touches, Crash, Frozen, pollVars
<1>1. /\ c \in Conn /\ fdOf[c] \in Fd /\ c \notin deleted /\ WriteChunk(c)
      /\ WorkGoes(w, IF LastChunk(c) THEN "unlock" ELSE "watch", "nothing")
  BY <1>a, <1>0 DEF WriteFirst, Touches, Crash, Frozen
<1>2. /\ work'[w].pc = IF LastChunk(c) THEN "unlock" ELSE "watch"
      /\ work'[w].chan = c /\ \A v \in Workers \ {w} : work'[v] = work[v]
  <2>1. PICK pc \in {"unlock", "watch"} :
          pc = (IF LastChunk(c) THEN "unlock" ELSE "watch") /\ WorkGoes(w, pc, "nothing")
    BY <1>1
  <2> QED
    BY <1>a, <2>1, WorkMoves DEF WorkPcs
<1>3. Sends(w, c)
  BY <1>a, <1>0 DEF Sends
<1>4. Mapped /\ WatchedWrites /\ Unsent /\ FirstChunks /\ Finished
  BY DEF WriteInv
<1>5. /\ \A d \in Conn : chan'[d].inbox = chan[d].inbox
      /\ \A d \in Conn \ {c} : chan'[d].left = chan[d].left
      /\ chan'[c].left = IF LastChunk(c) THEN 0 ELSE chan[c].left - 1
  BY <1>0, <1>1 DEF WriteChunk, Channel
<1>6. Sending(c) /\ \A v \in Workers : Sends(v, c) => v = w
  BY <1>1, <1>3, <1>4 DEF FirstChunks
<1>7. \A d \in Conn \ {c} : Sending(d)' <=> Sending(d)
  BY <1>5 DEF Sending
<1>8. \A v \in Workers : \A d \in Conn : Has(v, d)' => Has(v, d)
  BY <1>2 DEF Has, Serving, Replying
<1>9. \A d \in Conn : Emptied(d) => Emptied(d)'
  BY <1>5, <1>6, <1>7, <1>8 DEF Emptied, Queued
<1>10. CASE ~LastChunk(c)
  <2>1. \A v \in Workers : \A d \in Conn : Sends(v, d)' <=> Sends(v, d)
    BY <1>a, <1>0, <1>2, <1>10 DEF Sends
  <2>2. chan[c].left \in Nat
    BY <1>0, <1>1 DEF Channel
  <2>3. Sending(c)'
    BY <1>5, <1>10, <2>2 DEF LastChunk, Sending
  <2>4. \A d \in Conn : Sending(d)' <=> Sending(d)
    BY <1>6, <1>7, <2>3
  <2> QED
    BY <1>0, <1>9, <2>1, <2>4, MapTypes, WritesSame
<1>11. CASE LastChunk(c)
  <2>1. ~Sending(c)' /\ \A v \in Workers : ~Sends(v, c)'
    BY <1>2, <1>5, <1>6, <1>11 DEF Sending, Sends
  <2>2. \A v \in Workers : \A d \in Conn \ {c} : Sends(v, d)' <=> Sends(v, d)
    BY <1>a, <1>2 DEF Sends
  <2>3. Mapped'
    BY <1>0, <1>4 DEF Mapped, InMap
  <2>4. WatchedWrites'
    <3> SUFFICES ASSUME NEW f \in writeSet, f \notin Written
                 PROVE  Sending(channels[f])' \/ ~chan'[channels[f]].alive
      BY <1>0 DEF WatchedWrites
    <3>1. PICK d \in Conn : d = channels[f] /\ f \in DOMAIN channels
      BY <1>4, MapTypes DEF Mapped
    <3>2. Sending(d) \/ ~chan[d].alive
      BY <1>4, <3>1 DEF WatchedWrites
    <3>3. Sending(d)' \/ ~chan'[d].alive
      <4>1. CASE d # c
        BY <1>0, <1>7, <3>2, <4>1
      <4>2. CASE d = c /\ chan[c].alive
        <5>1. InMap(c) /\ fdOf[c] \notin writeSet
          BY <1>1, <1>3, <1>4, <4>2, AliveMapped DEF FirstChunks
        <5>2. fdOf[c] = f
          BY <3>1, <4>2, <5>1 DEF InMap, Base, MapInv
        <5> QED
          BY <5>1, <5>2
      <4>3. CASE d = c /\ ~chan[c].alive
        BY <1>0, <4>3
      <4> QED
        BY <4>1, <4>2, <4>3
    <3> QED
      BY <1>0, <3>1, <3>3 DEF Sending
  <2>5. Unsent'
    BY <1>0, <1>4, <1>7, <2>1, <2>2 DEF Unsent
  <2>6. FirstChunks'
    BY <1>0, <1>4, <1>7, <2>1, <2>2 DEF FirstChunks
  <2>7. Finished'
    <3> SUFFICES ASSUME NEW f \in Written \cap DOMAIN channels PROVE Emptied(channels[f])'
      BY <1>0 DEF Finished
    <3>1. PICK d \in Conn : d = channels[f]
      BY MapTypes
    <3>2. Emptied(d)'
      BY <1>4, <1>9, <3>1 DEF Finished
    <3> QED
      BY <1>0, <3>1, <3>2 DEF Emptied, Queued, Sending, Has, Serving, Replying
  <2> QED
    BY <1>0, <2>3, <2>4, <2>5, <2>6, <2>7 DEF WriteInv
<1> QED
  BY <1>10, <1>11

\* The worker leaves the rest to the loop thread.
LEMMA WatchWriteWrites ==
  ASSUME Base, DescInv, WriteInv, NEW w \in Workers, WatchWrite(w), ~Frozen
  PROVE  WriteInv'
<1>a. PICK c \in Conn : c = work[w].chan /\ fdOf[c] \in Fd
  <2>1. work[w].pc # "idle"
    BY DEF WatchWrite, Touches, Crash, Frozen
  <2> QED
    BY <2>1, WorkerHas
<1>0. /\ Written' = Written /\ Reported' /\ UNCHANGED <<channels, fdOf, deleted, chan>>
      /\ work[w].pc = "watch" /\ WorkGoes(w, "idle", "nothing")
      /\ c \notin deleted /\ writeSet' = writeSet \cup {fdOf[c]}
  BY <1>a, WorkReported DEF WorkNext, WatchWrite, Touches, Crash, Frozen, chanVars, Poll!Watch
<1>1. c \in Conn /\ fdOf[c] \in Fd
  BY <1>a
<1>2. Mapped /\ WatchedWrites /\ Unsent /\ FirstChunks /\ Finished
  BY DEF WriteInv
<1>3. Sends(w, c)
  BY <1>a, <1>0 DEF Sends
<1>4. \A v \in Workers : \A d \in Conn : Sends(v, d)' <=> Sends(v, d) /\ v # w
  <2>1. work'[w].pc = "idle" /\ \A v \in Workers \ {w} : work'[v] = work[v]
    BY <1>0, WorkMoves DEF WorkPcs
  <2> QED
    BY <2>1 DEF Sends
<1>5. \A d \in Conn \ {c} : ~Sends(w, d)
  BY <1>a DEF Sends
<1>6. InMap(c) /\ Sending(c) /\ \A v \in Workers : Sends(v, c) => v = w
  BY <1>0, <1>1, <1>2, <1>3 DEF Mapped, FirstChunks
<1>7. /\ \A d \in Conn : Sending(d)' <=> Sending(d)
      /\ \A d \in Conn : Emptied(d) => Emptied(d)'
  <2>1. \A v \in Workers : \A d \in Conn : Has(v, d)' => Has(v, d)
    <3>1. work'[w].pc = "idle" /\ \A v \in Workers \ {w} : work'[v] = work[v]
      BY <1>0, WorkMoves DEF WorkPcs
    <3> QED
      BY <3>1 DEF Has, Serving, Replying
  <2> QED
    BY <1>0, <2>1 DEF Sending, Emptied, Queued
<1>8. Mapped'
  BY <1>0, <1>2, <1>6 DEF Mapped, InMap
<1>9. WatchedWrites'
  <2> SUFFICES ASSUME NEW f \in writeSet \cup {fdOf[c]}, f \notin Written
               PROVE  Sending(channels[f])' \/ ~chan[channels[f]].alive
    BY <1>0 DEF WatchedWrites
  <2>1. PICK d \in Conn : d = channels[f]
    BY <1>1, <1>2, <1>6, MapTypes DEF Mapped, InMap
  <2>2. Sending(d) \/ ~chan[d].alive
    BY <1>2, <1>6, <2>1 DEF WatchedWrites, InMap
  <2> QED
    BY <1>0, <2>1, <2>2 DEF Sending
<1>10. Unsent'
  BY <1>0, <1>2, <1>4, <1>5, <1>7 DEF Unsent
<1>11. FirstChunks'
  <2> SUFFICES ASSUME NEW v \in Workers, NEW d \in Conn, Sends(v, d), v # w
               PROVE  /\ Sending(d)' /\ (chan[d].alive => fdOf[d] \notin writeSet \cup {fdOf[c]})
                      /\ \A u \in Workers : Sends(u, d)' => u = v
    BY <1>0, <1>4 DEF FirstChunks
  <2>1. d # c /\ Sending(d) /\ (chan[d].alive => fdOf[d] \notin writeSet)
    BY <1>2, <1>6 DEF FirstChunks
  <2>2. \A u \in Workers : Sends(u, d) => u = v
    BY <1>2 DEF FirstChunks
  <2>3. ASSUME chan[d].alive PROVE fdOf[d] # fdOf[c]
    <3>1. fdOf[d] \in Fd
      BY WorkerHas DEF Sends
    <3>2. InMap(d)
      BY <2>3, <3>1, AliveMapped
    <3> QED
      BY <1>6, <2>1, <3>2 DEF InMap
  <2> QED
    BY <1>4, <1>7, <2>1, <2>2, <2>3
<1>12. Finished'
  <2> SUFFICES ASSUME NEW f \in Written \cap DOMAIN channels PROVE Emptied(channels[f])'
    BY <1>0 DEF Finished
  <2>1. PICK d \in Conn : d = channels[f]
    BY MapTypes
  <2>2. Emptied(d)'
    BY <1>2, <1>7, <2>1 DEF Finished
  <2> QED
    BY <1>0, <2>1, <2>2 DEF Emptied, Queued, Sending, Has, Serving, Replying
<1> QED
  BY <1>0, <1>8, <1>9, <1>10, <1>11, <1>12 DEF WriteInv

LEMMA WorkWrites ==
  ASSUME ~SizeAlone, Base, crash = "no", DescInv, CallInv, WriteInv, NEW w \in Workers, WorkNext(w)
  PROVE  WriteInv'
<1>1. CASE Frozen
  BY <1>1, FrozenWrites
<1>2. CASE ~Frozen
  <2>1. CASE Lock(w)
    BY <1>2, <2>1, LockWrites, WorkQuietWrites
  <2>2. CASE ~Lock(w)
    BY <1>2, <2>2, WorkQuietWrites, WriteFirstWrites, WatchWriteWrites, NoGarbage DEF WorkNext
  <2> QED
    BY <2>1, <2>2
<1> QED
  BY <1>1, <1>2

LEMMA ClientWrites ==
  ASSUME Base, WriteInv, NEW c \in Conn, ClientStepOf(c)
  PROVE  WriteInv'
<1>1. UNCHANGED <<writeSet, channels, fdOf, deleted, chan, work, loop, snap>>
  BY ClientPresent DEF ClientStepOf, Environment, pollVars, loopVars, chanVars, poolVars, fdVars
<1>2. Written' = Written
  BY <1>1 DEF Written
<1>3. Reported'
  BY <1>1 DEF WriteInv, Reported
<1> QED
  BY <1>1, <1>2, <1>3, MapTypes, WorkPlaces, WritesSame

LEMMA WriteKept ==
  ASSUME ~SizeAlone, Base, OpenInv, ChannelsMatchPoll, DescInv, CallInv, WriteInv, [Next]_vars,
         main.pc = "running", main'.pc = "running"
  PROVE  WriteInv'
<1>1. CASE Frozen
  BY <1>1, FrozenWrites
<1>2. CASE LoopOnly
  BY <1>2, LoopOnlyWrites
<1>3. CASE \E c : Accepting(c)
  BY <1>3, AcceptWrites DEF Accepting
<1>4. CASE \E c : Reading(c)
  BY <1>4, ReadingWrites
<1>5. CASE CloseChannel /\ ~Frozen
  BY <1>5, CloseWrites
<1>6. CASE UnwatchRead
  BY <1>6, UnwatchReadWrites
<1>7. CASE DropChannel
  BY <1>7, DropWrites
<1>8. CASE WriteMore \/ UnwatchWrite
  BY <1>8, WriteMoreWrites, UnwatchWriteWrites
<1>9. CASE crash = "no" /\ \E w \in Workers : WorkNext(w)
  BY <1>9, WorkWrites
<1>10. CASE \E c \in Conn : ClientStepOf(c)
  BY <1>10, ClientWrites
<1> QED
  BY <1>1, <1>2, <1>3, <1>4, <1>5, <1>6, <1>7, <1>8, <1>9, <1>10, StepsBefore

\* What WriteInv says of the descriptors that are watched for writing.
LEMMA WatchedRight ==
  ASSUME Base, DescInv, WriteInv
  PROVE  WriteWatchExact
<1> SUFFICES ASSUME NEW c \in Conn, chan[c].alive, fdOf[c] \in Fd
             PROVE  LET sending == \E w \in Workers : Sends(w, c)
                        unwatching == loop.pc = "written" /\ Min(loop.writes) = fdOf[c]
                    IN /\ chan[c].left > 0 => sending \/ fdOf[c] \in writeSet
                       /\ fdOf[c] \in writeSet => chan[c].left > 0 \/ unwatching
  BY DEF WriteWatchExact, Sends
<1>1. Unsent /\ WatchedWrites
  BY DEF WriteInv
<1>2. chan[c].left > 0 => (\E w \in Workers : Sends(w, c)) \/ fdOf[c] \in writeSet
  BY <1>1 DEF Unsent, Sending
<1>3. ASSUME fdOf[c] \in writeSet
      PROVE  chan[c].left > 0 \/ (loop.pc = "written" /\ Min(loop.writes) = fdOf[c])
  <2>1. InMap(c)
    BY AliveMapped
  <2>2. Sending(c) \/ fdOf[c] \in Written
    BY <1>1, <1>3, <2>1 DEF WatchedWrites, InMap
  <2> QED
    BY <2>2 DEF Sending, Written
<1> QED
  BY <1>2, <1>3

-----------------------------------------------------------------------------
(* The invariant of the calls *)

LEMMA StepInOrder ==
  ASSUME ~SizeAlone, Base, OpenInv, HupHolds, CallInv, [Next]_vars, NEW c \in Conn
  PROVE  InOrder(c)' /\ (~MainNext /\ InputFound => OrderKept(c))
<1>0. InOrder(c)
  BY DEF CallInv
<1>1. CASE Frozen
  BY <1>0, <1>1, FrozenCalm, CalmInOrder DEF OrderKept
<1>2. CASE LoopOnly
  BY <1>0, <1>2, LoopOnlyCalm, CalmInOrder DEF OrderKept
<1>3. CASE \E d : Accepting(d)
  BY <1>0, <1>3, AcceptCalm, CalmInOrder DEF Accepting, OrderKept
<1>4. CASE \E d : Reading(d)
  <2>1. PICK d : Reading(d)
    BY <1>4
  <2>2. CASE d = c
    BY <1>0, <2>1, <2>2, ReadingInOrder
  <2>3. CASE d # c
    BY <1>0, <2>1, <2>3, ReadingOthers, CalmInOrder DEF OrderKept
  <2> QED
    BY <2>2, <2>3
<1>5. CASE CloseChannel /\ ~Frozen
  BY <1>0, <1>5, CloseCalm, CalmInOrder DEF OrderKept
<1>6. CASE UnwatchRead \/ UnwatchWrite \/ DropChannel
  BY <1>0, <1>6, UnwatchCalm, DropCalm, CalmInOrder DEF OrderKept
<1>7. CASE WriteMore
  BY <1>0, <1>7, WriteMoreInOrder DEF OrderKept
<1>8. CASE crash = "no" /\ \E w \in Workers : WorkNext(w)
  BY <1>0, <1>8, WorkInOrder DEF OrderKept
<1>9. CASE \E d \in Conn : ClientStepOf(d)
  <2>1. PICK d \in Conn : ClientNext(d) /\ Environment
    BY <1>9 DEF ClientStepOf
  <2>2. ServerStill
    BY <2>1, ClientPresent DEF Environment, ServerStill, fdVars, loopVars, chanVars, poolVars
  <2> QED
    BY <1>0, <2>1, <2>2, ClientInOrder DEF OrderKept
<1>10. CASE MainNext
  BY <1>0, <1>10, MainSame, KeptInOrder
<1> QED
  BY <1>1, <1>2, <1>3, <1>4, <1>5, <1>6, <1>7, <1>8, <1>9, <1>10, Steps

LEMMA CallInvKept ==
  ASSUME ~SizeAlone, Base, OpenInv, HupHolds, CallInv, [Next]_vars
  PROVE  CallInv'
BY StepInOrder DEF CallInv

\* Until stop(), the Channels that are closed are those whose time it is.
LEMMA ClosesOverKept ==
  ASSUME ~SizeAlone, Base, OpenInv, HupHolds, ChannelsMatchPoll, ReadInv, CallInv, ClosesOver, [Next]_vars,
         main.pc = "running", main'.pc = "running"
  PROVE  ClosesOver'
<1>1. ~MainNext /\ InputFound
  BY StepsBefore, ReadFact
<1> QED
  BY <1>1, StepInOrder DEF ClosesOver, OrderKept

\* A client that gave up is served no more.
LEMMA ServedWaits ==
  ASSUME NEW c \in Conn, InOrder(c), EndsOver(c), NEW w \in Workers, Has(w, c)
  PROVE  client[c] # "failed"
BY DEF InOrder, Books, EndsOver, Ended, Over, Nowhere, Gone

-----------------------------------------------------------------------------
(* What the steps are to a caller *)

\* A connection's phase changes only with what it is made of.
LEMMA CallPhaseSame ==
  ASSUME NEW c \in Conn,
         \/ client'[c] = client[c]
         \/ client[c] \in {"none", "idle"} /\ client'[c] \in {"none", "idle"}
         \/ client[c] \in Gone /\ client'[c] \in Gone,
         calls'[c] = calls[c], acked'[c] = acked[c], denied'[c] = denied[c],
         executed'[c] = executed[c]
  PROVE  CallPhase'[c] = CallPhase[c]
<1>1. PICK e : e = executed[c]
  OBVIOUS
<1>2. CallPhase[c] = PhaseOf(c, e)
  BY <1>1 DEF CallPhase, PhaseOf
<1>3. CallPhase'[c] = PhaseOf(c, e)'
  BY <1>1 DEF CallPhase, PhaseOf
<1> QED
  BY <1>2, <1>3, PhaseSame

LEMMA PhaseChange ==
  ASSUME NEW c \in Conn, \A d \in Conn \ {c} : CallPhase'[d] = CallPhase[d]
  PROVE  CallPhase' = [CallPhase EXCEPT ![c] = CallPhase'[c]]
<1>1. DOMAIN CallPhase = Conn /\ DOMAIN CallPhase' = Conn
  BY DEF CallPhase
<1>2. CallPhase = [d \in Conn |-> CallPhase[d]] /\ CallPhase' = [d \in Conn |-> CallPhase'[d]]
  BY DEF CallPhase
<1> HIDE DEF CallPhase
<1> QED
  BY <1>1, <1>2

\* A step that runs no method and moves no client is none for a caller.
LEMMA NoneForCallers ==
  ASSUME UNCHANGED <<calls, acked, denied, executed>>,
         \A d \in Conn : \/ client'[d] = client[d]
                         \/ client[d] = "none" /\ client'[d] = "idle"
                         \/ client[d] = "closed" /\ client'[d] = "reset"
  PROVE  UNCHANGED Contract!vars
<1>1. \A d \in Conn : CallPhase'[d] = CallPhase[d]
  BY CallPhaseSame DEF Gone
<1>2. CallPhase' = CallPhase
  BY <1>1 DEF CallPhase
<1> QED
  BY <1>2 DEF Contract!vars

\* A method that runs is run for a caller that waits for it, or has left.
LEMMA WorkAllowed ==
  ASSUME ~SizeAlone, Base, CallInv, ClosesOver, NEW w \in Workers, WorkNext(w)
  PROVE  (\E c \in Conn : Contract!Execute(c)) \/ UNCHANGED Contract!vars
<1>0. /\ client \in [Conn -> ClientStates] /\ acked \in [Conn -> Nat]
      /\ calls \in [Conn -> Nat] /\ denied \in [Conn -> Nat]
      /\ executed \in [Conn -> Nat] /\ UNCHANGED <<calls, acked, denied>>
  BY Types, WorkFrame DEF WireTypeOK
<1>1. CASE Handle(w) /\ work[w].held = "ok"
  <2>1. PICK c \in Conn : c = work[w].chan
    BY <1>1, WorkerHas DEF Handle
  <2>2. /\ executed' = [executed EXCEPT ![c] = @ + 1] /\ UNCHANGED client
        /\ Serving(w, c)
    BY <1>1, <2>1 DEF Handle, wireVars, clientVars, Serving
  <2>3. Unexecuted(c) /\ client[c] \in {"waiting"} \cup Gone
    <3>1. InOrder(c) /\ Has(w, c)
      BY <2>2 DEF CallInv, Has
    <3>2. Unexecuted(c)
      BY <2>2, <3>1 DEF InOrder, Story
    <3>3. client[c] \notin {"half", "failed"}
      BY <3>1, ServedInOrder, ServedWaits DEF ClosesOver
    <3> QED
      BY <3>2, <3>3 DEF Unexecuted
  <2>4. executed[c] = acked[c] /\ calls[c] > acked[c] + denied[c] /\ executed'[c] # acked[c]
    BY <1>0, <2>2, <2>3 DEF Unexecuted, Outstanding, Gone
  <2>5. \/ CallPhase[c] = "called" /\ CallPhase'[c] = "executed"
        \/ CallPhase[c] = "abandoned" /\ CallPhase'[c] = "gone"
    BY <1>0, <2>2, <2>3, <2>4 DEF CallPhase, PhaseOf, Gone
  <2>6. \A d \in Conn \ {c} : CallPhase'[d] = CallPhase[d]
    BY <1>0, <2>2, CallPhaseSame
  <2>7. CallPhase' = [CallPhase EXCEPT ![c] = CallPhase'[c]]
    BY <2>6, PhaseChange
  <2>8. Contract!Execute(c)
    BY <1>0, <2>2, <2>5, <2>7 DEF Contract!Execute, Contract!Moves
  <2> QED
    BY <2>8
<1>2. CASE ~(Handle(w) /\ work[w].held = "ok")
  <2>1. UNCHANGED executed
    BY <1>2, NoGarbage DEF WorkNext, Take, GetMessage, Notify, Handle, Lock, WriteFirst, WatchWrite,
         Unlock,
                Touches, Crash, poolVars
  <2> QED
    BY <1>0, <2>1, WorkFrame, NoneForCallers
<1> QED
  BY <1>1, <1>2

LEMMA ClientMoves ==
  ASSUME Base, CallInv, ClosesOver, NEW c \in Conn, ClientNext(c), UNCHANGED executed
  PROVE  [Contract!Next]_(Contract!vars)
<1>0. WireTypeOK /\ executed[c] \in Nat
  BY Types
<1>1. PICK e \in Nat : e = executed[c]
  BY <1>0
<1>2. ClientKnows(c, e)
  <2>1. InOrder(c)
    BY DEF CallInv
  <2>2. client[c] = "waiting" /\ down[c] # <<>> =>
          e = IF Head(down[c]) = "result" THEN acked[c] + 1 ELSE acked[c]
    BY <1>1, <2>1 DEF InOrder, Story, Answered, Owed
  <2>3. client[c] = "waiting" /\ down[c] = <<>> /\ hup[c] => e = acked[c]
    BY <1>1 DEF ClosesOver, EndsOver, Ended, Over, Gone
  <2>4. client[c] \in {"idle", "refused"} => calls[c] = acked[c] + denied[c] /\ e = acked[c]
    BY <1>1, <2>1 DEF InOrder, Books, Settled
  <2>5. client[c] \in {"half", "waiting"} => calls[c] = acked[c] + denied[c] + 1
    BY <2>1 DEF InOrder, Books, Outstanding
  <2>6. client[c] = "half" => e = acked[c]
    <3>1. ASSUME client[c] = "half" PROVE Arriving(c)
      BY <1>0, <2>1, <3>1, HalfIsWhole DEF InOrder, Shape, Arriving, WireTypeOK
    <3> QED
      BY <1>1, <2>1, <3>1 DEF InOrder, Story, Unexecuted
  <2>7. client[c] # "stuck"
    BY <2>1 DEF InOrder, Books
  <2> QED
    BY <2>2, <2>3, <2>4, <2>5, <2>6, <2>7 DEF ClientKnows
<1>3. ClientAllowed(c, e)
  BY <1>0, <1>2, ClientStep
<1>4. CallPhase[c] = PhaseOf(c, e) /\ CallPhase'[c] = PhaseOf(c, e)'
  <2>1. CallPhase[c] = PhaseOf(c, e)
    BY <1>1 DEF CallPhase, PhaseOf
  <2>2. CallPhase'[c] = PhaseOf(c, e)'
    BY <1>1 DEF CallPhase, PhaseOf
  <2> QED
    BY <2>1, <2>2
<1>5. \A d \in Conn \ {c} : CallPhase'[d] = CallPhase[d]
  BY <1>0, ClientOnly, CallPhaseSame
<1>6. CallPhase' = [CallPhase EXCEPT ![c] = CallPhase'[c]]
  BY <1>5, PhaseChange
<1>7. ASSUME NEW from, NEW to, PhaseMoves(c, e, from, to)
      PROVE  Contract!Moves(c, from, to)
  BY <1>4, <1>6, <1>7 DEF PhaseMoves, Contract!Moves
<1>8. CASE PhaseOf(c, e)' = PhaseOf(c, e) /\ calls' = calls /\ acked' = acked
  <2>1. CallPhase' = CallPhase
    BY <1>4, <1>5, <1>8 DEF CallPhase
  <2> QED
    BY <1>8, <2>1 DEF Contract!vars
<1>9. CASE ~(PhaseOf(c, e)' = PhaseOf(c, e) /\ calls' = calls /\ acked' = acked)
  <2>1. \/ Contract!Begin(c) \/ Contract!Return(c) \/ Contract!Reject(c)
        \/ Contract!GiveUp(c) \/ Contract!Leave(c)
    BY <1>3, <1>7, <1>9 DEF ClientAllowed, Contract!Begin, Contract!Return, Contract!Reject,
                            Contract!GiveUp, Contract!Leave
  <2> QED
    BY <2>1 DEF Contract!Next
<1> QED
  BY <1>8, <1>9

LEMMA StepAllowed ==
  ASSUME ~SizeAlone, Base, OpenInv, CallInv, ClosesOver, [Next]_vars,
         main.pc = "running", main'.pc = "running"
  PROVE  [Contract!Next]_(Contract!vars)
<1>1. CASE \E w \in Workers : WorkNext(w)
  BY <1>1, WorkAllowed DEF Contract!Next
<1>2. CASE \E c \in Conn : ClientStepOf(c)
  <2>1. PICK c \in Conn : ClientNext(c) /\ UNCHANGED executed
    BY <1>2 DEF ClientStepOf, Environment, poolVars
  <2> QED
    BY <2>1, ClientMoves
<1>3. CASE \E c : Accepting(c)
  <2>1. /\ UNCHANGED <<calls, acked, denied, executed>>
        /\ \E c : client' = [client EXCEPT ![c] = "idle"] /\ client[c] = "none"
    BY <1>3 DEF Accepting, Accepts, Base, TypeInv, NotYet
  <2>2. \A d \in Conn : client'[d] = client[d] \/ (client[d] = "none" /\ client'[d] = "idle")
    BY <2>1, Types DEF WireTypeOK
  <2> QED
    BY <2>1, <2>2, NoneForCallers
<1>4. CASE WriteMore \/ UnwatchWrite
  <2>1. UNCHANGED executed
    BY <1>4 DEF WriteMore, UnwatchWrite, poolVars
  <2> QED
    BY <1>4, <2>1, LoopWritesFrame, NoneForCallers
<1>5. CASE Frozen \/ LoopOnly \/ (\E c : Reading(c)) \/ CloseChannel \/ UnwatchRead \/ DropChannel
  <2>1. UNCHANGED <<client, calls, acked, denied, executed>>
    <3>1. CASE Frozen
      BY <3>1 DEF Frozen, wireVars, clientVars, poolVars
    <3>2. CASE LoopOnly
      BY <3>2, LoopOnlyFacts DEF wireVars, clientVars, OwnRest
    <3>3. CASE \E c : Reading(c)
      BY <3>3 DEF Reading, Reads, ReadsAt
    <3>4. CASE CloseChannel
      BY <3>4 DEF CloseChannel, Crash, wireVars, clientVars, poolVars
    <3>5. CASE UnwatchRead \/ DropChannel
      BY <3>5 DEF UnwatchRead, DropChannel, wireVars, clientVars, poolVars
    <3> QED
      BY <1>5, <3>1, <3>2, <3>3, <3>4, <3>5
  <2> QED
    BY <2>1, NoneForCallers
<1> QED
  BY <1>1, <1>2, <1>3, <1>4, <1>5, StepsBefore

-----------------------------------------------------------------------------
(* The theorems *)

\* A server that has been stopped stays so.
LEMMA StillRunning ==
  ASSUME Base, [Next]_vars, main'.pc = "running"
  PROVE  main.pc = "running"
<1>1. CASE MainNext
  <2>1. CASE UNCHANGED main
    BY <1>1, <2>1
  <2>2. CASE ~UNCHANGED main
    <3>1. \/ StopBegin
          \/ \E f, c : \E pc \in {"close", "each"} : main' = [pc |-> pc, at |-> f, chan |-> c]
          \/ \E pc \in {"each", "setStop", "stopped"} : main' = [main EXCEPT !.pc = pc]
      BY <1>1, <2>2 DEF MainNext, StopEach, StopClose, SetStop, Crash, mainVars
    <3>2. main \in MainType
      BY Types
    <3> QED
      BY <3>1, <3>2 DEF StopBegin, MainType
  <2> QED
    BY <2>1, <2>2
<1>2. CASE ~MainNext
  <2>1. UNCHANGED main
    <3>1. CASE \E w \in Workers : WorkNext(w)
      BY <3>1, WorkFrame
    <3>2. CASE LoopNext
      BY <3>2 DEF LoopNext, LoopTop, Snapshot, Select, ReadsDone, Accept, BeginRead, CheckBusy,
         Wait, ReadSize, ReadBody, ReadAlone, ReadAstray, ReadFrame, CloseChannel, UnwatchRead, DropChannel, WritesDone,
         WriteMore, UnwatchWrite, Crash, mainVars
    <3>3. CASE Environment \/ UNCHANGED vars
      BY <3>3 DEF Environment, mainVars, vars
    <3> QED
      BY <1>2, <3>1, <3>2, <3>3 DEF Next
  <2> QED
    BY <2>1
<1> QED
  BY <1>1, <1>2

\* All that holds until stop().
BeforeStop == main.pc = "running" => DescInv /\ ReadInv /\ ClosesOver /\ WriteInv

LEMMA InitInOrder ==
  Init => HupHolds /\ CallInv /\ DescInv /\ ReadInv /\ ClosesOver /\ WriteInv
<1> SUFFICES ASSUME Init
             PROVE  HupHolds /\ CallInv /\ DescInv /\ ReadInv /\ ClosesOver /\ WriteInv
  OBVIOUS
<1>0. /\ \A c \in Conn : /\ client[c] = "none" /\ calls[c] = 0 /\ acked[c] = 0 /\ denied[c] = 0
                         /\ executed[c] = 0 /\ up[c] = <<>> /\ down[c] = <<>> /\ ~hup[c]
                         /\ chan[c].alive /\ chan[c].inbox = "none" /\ chan[c].left = 0
      /\ \A f \in Fd : owner[f] = Free
      /\ \A w \in Workers : work[w].pc = "idle"
      /\ deleted = {} /\ loop.pc = "top" /\ loop.reads = {} /\ writeSet = {}
      /\ \A c \in Conn : fdOf[c] = NoFd
  BY DEF Init, WireInit
<1>1. HupHolds /\ DescInv
  BY <1>0, FdFacts DEF DescInv, HupHolds
<1>2. ReadInv
  BY <1>0 DEF ReadInv
<1>3. ASSUME NEW c \in Conn PROVE InOrder(c) /\ EndsOver(c)
  <2>1. Nowhere(c) /\ Settled(c) /\ ~Ended(c)
    BY <1>0 DEF Nowhere, Arriving, Queued, RequestKinds, Sending, Answered, Has, Serving, Replying,
                Settled, Ended
  <2>2. OnePlace(c) /\ Story(c)
    BY <2>1 DEF Nowhere, OnePlace, Story, Has
  <2>3. Books(c)
    BY <1>0, <2>1 DEF Books, Gone
  <2>4. Shape(c)
    BY <1>0, TakenAll DEF Shape
  <2> QED
    BY <2>1, <2>2, <2>3, <2>4 DEF InOrder, EndsOver
<1>4. Mapped /\ WatchedWrites /\ Unsent /\ FirstChunks
  BY <1>0, FdFacts DEF Mapped, WatchedWrites, Unsent, Sending, FirstChunks, Sends
<1>5. Reported /\ Finished
  BY <1>0 DEF Reported, AtChannel, Finished, Written
<1> QED
  BY <1>1, <1>2, <1>3, <1>4, <1>5 DEF CallInv, ClosesOver, WriteInv

LEMMA BeforeStopKept ==
  ASSUME ~SizeAlone, Base, OpenInv, HupHolds, CallInv, ChannelsMatchPoll, BeforeStop, [Next]_vars
  PROVE  BeforeStop'
<1> SUFFICES ASSUME main'.pc = "running" PROVE DescInv' /\ ReadInv' /\ ClosesOver' /\ WriteInv'
  BY DEF BeforeStop
<1>1. main.pc = "running" /\ DescInv /\ ReadInv /\ ClosesOver /\ WriteInv
  BY StillRunning DEF BeforeStop
<1> QED
  BY <1>1, DescKept, ReadKept, ClosesOverKept, WriteKept

LEMMA EndsClosed ==
  ASSUME ~SizeAlone
  PROVE  Spec => []HupHolds
<1>1. Init => HupHolds
  BY InitInOrder
<1> QED
  BY <1>1, HupKept, BaseHolds, NumbersOwned, PTL DEF Spec

LEMMA CallsKept ==
  ASSUME ~SizeAlone
  PROVE  Spec => []CallInv
<1>1. Init => CallInv
  BY InitInOrder
<1> QED
  BY <1>1, CallInvKept, BaseHolds, NumbersOwned, EndsClosed, PTL DEF Spec

LEMMA HoldsBeforeStop ==
  ASSUME ~SizeAlone
  PROVE  Spec => []BeforeStop
<1>1. Init => BeforeStop
  BY InitInOrder DEF BeforeStop
<1>2. /\ Base /\ OpenInv /\ HupHolds /\ CallInv /\ ChannelsMatchPoll /\ BeforeStop
      /\ [Next]_vars
      => BeforeStop'
  BY BeforeStopKept
<1> QED
  BY <1>1, <1>2, BaseHolds, NumbersOwned, EndsClosed, CallsKept, MapMatches, PTL DEF Spec

\* Until stop() is called, the loop thread and the workers never lose sight of a
\* request, serve it twice or answer it with another's reply.  After that a reply
\* may go to a number that has become another client's, and nothing is claimed.
THEOREM CallsInOrder ==
  ASSUME ~SizeAlone
  PROVE  Spec => [](main.pc = "running" => CallInv)
<1> QED
  BY CallsKept, PTL

\* Until stop(), a Channel that is closed had nothing of a client's under way that
\* was still to run: what poll() reported is still there to be read when the loop
\* thread comes to it.
THEOREM ClosedWhenOver ==
  ASSUME ~SizeAlone
  PROVE  Spec => [](main.pc = "running" => DescInv /\ ReadInv /\ ClosesOver)
<1>1. BeforeStop => (main.pc = "running" => DescInv /\ ReadInv /\ ClosesOver)
  BY DEF BeforeStop
<1> QED
  BY <1>1, HoldsBeforeStop, PTL

\* Until stop(), the descriptor of an open Channel is watched for writing while
\* chunks of a reply are left that no worker is writing, and at no other time but
\* between the last chunk and the unwatch() after it: however select()'s report
\* ages while Channels are dropped and their numbers given out again, the loop
\* thread neither spins on a descriptor nor leaves a reply half written.
THEOREM WritesWatched ==
  ASSUME ~SizeAlone
  PROVE  Spec => [](main.pc = "running" => WriteWatchExact)
<1>1. Base /\ BeforeStop => (main.pc = "running" => WriteWatchExact)
  BY WatchedRight DEF BeforeStop
<1> QED
  BY <1>1, BaseHolds, HoldsBeforeStop, PTL

\* A server that is not stopped keeps CallContract with every client, while the
\* size of a message comes with its text: every step of the loop thread, of a
\* worker and of a client is a step of the contract for one caller, or none for
\* any.
THEOREM ContractKept ==
  ASSUME ~SizeAlone
  PROVE  Spec /\ [](main.pc = "running") => KeepsContract
<1>1. Init => Contract!Init
  <2> SUFFICES ASSUME Init PROVE Contract!Init
    OBVIOUS
  <2>1. CallPhase = [c \in Conn |-> "free"]
    <3>1. \A c \in Conn : client[c] = "none"
      BY DEF Init, WireInit
    <3>2. \A c \in Conn : PhaseOf(c, executed[c]) = "free"
      BY <3>1, PhaseTable DEF Phased
    <3> QED
      BY <3>2 DEF CallPhase
  <2> QED
    BY <2>1 DEF Contract!Init, Init, WireInit
<1>2. /\ Base /\ OpenInv /\ CallInv /\ BeforeStop
      /\ main.pc = "running" /\ (main.pc = "running")' /\ [Next]_vars
      => [Contract!Next]_(Contract!vars)
  BY StepAllowed DEF BeforeStop
<1> QED
  BY <1>1, <1>2, BaseHolds, NumbersOwned, CallsKept, HoldsBeforeStop, PTL
     DEF Spec, KeepsContract, Contract!Spec
=============================================================================
