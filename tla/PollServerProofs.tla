---------------------------- MODULE PollServerProofs ----------------------------
(***************************************************************************)
(* Theorems about PollServer, for any number of connections, calls,        *)
(* descriptors, workers and chunks, any clients, and whether or not stop() *)
(* is called.                                                              *)
(*                                                                         *)
(* The inductive invariant has four parts: TypeInv (types, and what the    *)
(* types depend on: the streams, and who may hold a Channel), MapInv (the  *)
(* map of Channels against the loop thread and what was deleted), JobInv   *)
(* (the queue and the workers against the Channels) and WatchInv (the sets *)
(* of PollManager).                                                        *)
(***************************************************************************)
EXTENDS PollServer, WireProofs, SequenceTheorems, FiniteSetTheorems, WellFoundedInduction

Manager == INSTANCE PollManagerProofs WITH Number <- Fd \cup {Listen}

-----------------------------------------------------------------------------
(* The invariant *)

\* The loop thread has a Channel in hand, the one of the descriptor it is at,
\* and accepts only connections that are to come.
AtChannel == {"check", "wait", "waiting", "read", "close", "unwatch", "drop"}

LoopStands ==
  /\ loop.pc \in AtChannel => loop.reads # {} /\ Min(loop.reads) \in Fd
  /\ loop.pc = "written" => loop.writes # {}
  /\ Listen \in loop.reads => loop.accepted < MaxConns

\* Whoever has a Channel in hand has that of a connection with a descriptor.
Known(c) == c \in Conn /\ c <= loop.accepted /\ fdOf[c] \in Fd

KnownOnly ==
  /\ \A f \in DOMAIN channels : Known(channels[f])
  /\ loop.pc \in AtChannel => Known(loop.chan)
  /\ \A i \in DOMAIN jobs : Known(jobs[i])
  /\ \A w \in Workers : work[w].pc # "idle" => Known(work[w].chan)
  /\ main.pc = "close" => main.chan \in Conn

\* Connections to come have no client and no descriptor yet.
NotYet ==
  \A c \in Conn : c > loop.accepted => client[c] = "none" /\ fdOf[c] = NoFd

\* A worker has a request in hand, then a reply; what is left to write is left
\* of a reply.
HeldRight ==
  /\ \A w \in Workers :
       /\ work[w].pc \in {"notify", "handle"} => work[w].held \in Messages
       /\ work[w].pc = "lock" => work[w].held \in Frames
  /\ \A c \in Conn : chan[c].left > 0 => chan[c].out \in Frames

\* A Channel that holds part of a message has taken its size.
StreamFramed(c) == Framed(up[c], chan[c].inbox = "part", client[c] \in Whole)

TypeInv ==
  /\ TypeOK /\ LoopStands /\ KnownOnly /\ NotYet
  /\ \A c \in Conn : StreamFramed(c)

\* Each Channel is in the map once, and those in the map, like the one the loop
\* thread has in hand, have not been deleted.
MapInv ==
  /\ \A f, g \in DOMAIN channels : channels[f] = channels[g] => f = g
  /\ \A f \in DOMAIN channels : channels[f] \notin deleted
  /\ loop.pc \in AtChannel =>
       /\ loop.chan \notin deleted
       /\ Min(loop.reads) \in DOMAIN channels => channels[Min(loop.reads)] = loop.chan
  /\ \A c \in deleted : c <= loop.accepted

\* A Channel's message waits in the queue, or for the worker that took the job.
Getting(w, c) == work[w].pc = "get" /\ work[w].chan = c
Waiting(i, c) == i \in DOMAIN jobs /\ jobs[i] = c
HasJob(c) == (\E i \in DOMAIN jobs : jobs[i] = c) \/ (\E w \in Workers : Getting(w, c))

\* No Channel has two jobs.
JobsOnce ==
  /\ \A i, j \in DOMAIN jobs : jobs[i] = jobs[j] => i = j
  /\ \A w, v \in Workers :
       work[w].pc = "get" /\ Getting(v, work[w].chan) => w = v
  /\ \A w \in Workers : work[w].pc = "get" =>
       \A i \in DOMAIN jobs : jobs[i] # work[w].chan

\* A Channel has a job exactly as long as it holds a whole message, and is busy.
JobsWhole ==
  crash = "no" => \A c \in Conn :
    /\ HasJob(c) <=> chan[c].inbox \in Messages
    /\ HasJob(c) => chan[c].busy

JobInv == HeldRight /\ JobsOnce /\ JobsWhole

\* What is in the sets is what PollManager was told; the listening socket is
\* watched for reading only, and what is about to be dropped no longer.
WatchInv ==
  /\ Manager!Inv
  /\ Listen \in readSet /\ writeSet \subseteq Fd
  /\ loop.pc = "drop" => Min(loop.reads) \notin readSet

Base == TypeInv /\ MapInv /\ JobInv /\ WatchInv

-----------------------------------------------------------------------------
(* Sets of descriptors *)

LEMMA MinIn ==
  ASSUME NEW S \in SUBSET (Fd \cup {Listen}), S # {}
  PROVE  Min(S) \in S
<1> DEFINE R == OpToRel(<, Nat)
<1>0. S \subseteq Nat
  BY WireAssumption DEF Fd, Listen
<1>1. PICK x \in S : \A y \in S : ~(<<y, x>> \in R)
  BY <1>0, NatLessThanWellFounded, WFMin
<1>2. \A y \in S : x <= y
  <2> SUFFICES ASSUME NEW y \in S, ~(x <= y) PROVE FALSE
    OBVIOUS
  <2>1. x \in Nat /\ y \in Nat
    BY <1>0
  <2>2. y < x
    BY <2>1
  <2>3. <<y, x>> \in Nat \X Nat
    BY <2>1
  <2>4. <<y, x>> \in R
    BY <2>2, <2>3 DEF OpToRel
  <2> QED
    BY <1>1, <2>4
<1> QED
  BY <1>1, <1>2 DEF Min

LEMMA FdFacts ==
  /\ Listen \notin Fd /\ NoFd \notin Fd /\ \A f \in Fd : f \in Nat /\ f > Listen
  /\ NoConn \notin Conn /\ Free \notin Conn /\ \A c \in Conn : c \in Nat
BY WireAssumption DEF Fd, Listen, NoFd, NoConn, Conn, Free

\* watch() and unwatch(), whoever calls them.
LEMMA Watched ==
  ASSUME Manager!Inv, NEW f \in Fd \cup {Listen}, NEW mode \in {"READ", "WRITE"},
         Poll!Watch(f, mode) \/ Poll!Unwatch(f, mode)
  PROVE  Manager!Inv'
<1>1. Fd \cup {Listen} \subseteq Nat
  BY WireAssumption DEF Fd, Listen
<1>2. mode \in Manager!Mode
  BY DEF Manager!Mode
<1>3. CASE Poll!Watch(f, mode)
  <2>1. Manager!Watch(f, mode)
    BY <1>3 DEF Poll!Watch, Manager!Watch
  <2> QED
    BY <1>1, <1>2, <2>1, Manager!WatchInv
<1>4. CASE Poll!Unwatch(f, mode)
  <2>1. Manager!Unwatch(f, mode)
    BY <1>4 DEF Poll!Unwatch, Manager!Unwatch
  <2> QED
    BY <1>2, <2>1, Manager!UnwatchInv
<1> QED
  BY <1>3, <1>4

LEMMA WatchedType ==
  /\ Manager!Inv => Poll!TypeOK /\ Poll!HighestCoversSets
  /\ Manager!Inv' => Poll!TypeOK' /\ Poll!HighestCoversSets'
BY DEF Manager!Inv, Manager!TypeOK, Manager!HighestCoversSets, Poll!TypeOK,
       Poll!HighestCoversSets

-----------------------------------------------------------------------------
(* Types: the loop thread *)

\* The types of the loop thread's record, of a worker's and of the owner's.
LoopType == [pc : LoopPcs, reads : SUBSET (Fd \cup {Listen}), writes : SUBSET Fd,
             chan : Conn \cup {NoConn}, accepted : 0 .. MaxConns]
WorkType == [pc : WorkPcs, chan : Conn \cup {NoConn},
             held : {"nothing"} \cup Messages \cup Frames]
MainType == [pc : MainPcs, at : Fd \cup {Listen}, chan : Conn \cup {NoConn}]

LEMMA Types ==
  ASSUME Base
  PROVE  /\ WireTypeOK /\ loop \in LoopType /\ work \in [Workers -> WorkType]
         /\ main \in MainType /\ chan \in [Conn -> Channel] /\ jobs \in Seq(Conn)
         /\ executed \in [Conn -> Nat]
BY DEF Base, TypeInv, TypeOK, PollTypeOK, LoopType, WorkType, MainType

\* The part of the types that is not the wire's or PollManager's.
OwnTypes ==
  /\ snap \in [reads : SUBSET (Fd \cup {Listen}), writes : SUBSET Fd,
               highest : Fd \cup {Listen}]
  /\ loop \in LoopType
  /\ DOMAIN channels \subseteq Fd /\ \A f \in DOMAIN channels : channels[f] \in Conn
  /\ chan \in [Conn -> Channel]
  /\ deleted \subseteq Conn
  /\ jobs \in Seq(Conn)
  /\ work \in [Workers -> WorkType]
  /\ main \in MainType
  /\ stop \in BOOLEAN
  /\ executed \in [Conn -> Nat]
  /\ crash \in Crashes

LEMMA TypeParts ==
  /\ TypeOK <=> WireTypeOK /\ Poll!TypeOK /\ OwnTypes
  /\ TypeOK' <=> WireTypeOK' /\ Poll!TypeOK' /\ OwnTypes'
BY DEF TypeOK, PollTypeOK, OwnTypes, LoopType, WorkType, MainType

LEMMA LoopMoves ==
  ASSUME loop \in LoopType, NEW pc \in LoopPcs,
         \/ loop' = [loop EXCEPT !.pc = pc]
         \/ loop' = [loop EXCEPT !.pc = pc, !.reads = @ \ {Min(@)}]
         \/ loop' = [loop EXCEPT !.pc = pc, !.writes = @ \ {Min(@)}]
  PROVE  /\ loop' \in LoopType /\ loop'.pc = pc /\ loop'.chan = loop.chan
         /\ loop'.accepted = loop.accepted
BY DEF LoopType

\* Steps of the loop thread that touch nothing but its own record and copy.
LoopOnly ==
  \/ LoopTop \/ Snapshot \/ Select \/ ReadsDone \/ BeginRead \/ CheckBusy \/ Wait
  \/ WritesDone

OwnRest == <<channels, chan, deleted, jobs, work, main, stop, executed, crash>>

LEMMA LoopOnlyFacts ==
  ASSUME Base, LoopOnly
  PROVE  /\ UNCHANGED <<wireVars, pollVars, OwnRest>>
         /\ loop' \in LoopType /\ loop'.accepted = loop.accepted
         /\ snap' \in [reads : SUBSET (Fd \cup {Listen}), writes : SUBSET Fd,
                       highest : Fd \cup {Listen}]
         /\ loop'.pc \notin {"unwatch", "drop", "written"}
         /\ Listen \in loop'.reads => loop.accepted < MaxConns
         /\ loop'.pc \in AtChannel =>
              \/ /\ loop.pc \in AtChannel /\ loop'.chan = loop.chan
                 /\ loop'.reads = loop.reads
              \/ /\ BeginRead /\ Min(loop.reads) \in DOMAIN channels
                 /\ loop'.chan = channels[Min(loop.reads)] /\ loop'.reads = loop.reads
<1>0. /\ UNCHANGED <<wireVars, pollVars, OwnRest>>
      /\ loop \in LoopType /\ (Listen \in loop.reads => loop.accepted < MaxConns)
  BY Types DEF Base, TypeInv, LoopStands, LoopOnly, LoopTop, Snapshot, Select, ReadsDone, BeginRead, CheckBusy, Wait,
               WritesDone, OwnRest, chanVars, poolVars, mainVars, LoopGoes
<1>1. CASE LoopTop \/ ReadsDone \/ CheckBusy \/ Wait \/ WritesDone
  <2>1. PICK pc \in LoopPcs :
          /\ loop' = [loop EXCEPT !.pc = pc] /\ pc \notin {"unwatch", "drop", "written"}
          /\ pc \in AtChannel => loop.pc \in AtChannel
    <3>1. CASE LoopTop
      BY <3>1 DEF LoopTop, LoopGoes, LoopPcs, AtChannel
    <3>2. CASE ReadsDone
      BY <3>2 DEF ReadsDone, LoopGoes, LoopPcs, AtChannel
    <3>3. CASE CheckBusy
      BY <3>3 DEF CheckBusy, LoopGoes, LoopPcs, AtChannel
    <3>4. CASE Wait
      BY <3>4 DEF Wait, LoopGoes, LoopPcs, AtChannel
    <3>5. CASE WritesDone
      BY <3>5 DEF WritesDone, LoopGoes, LoopPcs, AtChannel
    <3> QED
      BY <1>1, <3>1, <3>2, <3>3, <3>4, <3>5
  <2>2. UNCHANGED snap
    BY <1>1 DEF LoopTop, ReadsDone, CheckBusy, Wait, WritesDone
  <2> QED
    BY <1>0, <2>1, <2>2 DEF LoopType, Base, TypeInv, TypeOK, PollTypeOK
<1>2. CASE Snapshot
  <2>1. readSet \subseteq Fd \cup {Listen} /\ writeSet \subseteq Fd /\ highest \in Fd \cup {Listen}
    BY DEF Base, TypeInv, TypeOK, PollTypeOK, Poll!TypeOK, WatchInv, Listen
  <2> QED
    BY <1>0, <1>2, <2>1 DEF Snapshot, LoopGoes, LoopType, LoopPcs, AtChannel
<1>3. CASE Select
  <2> DEFINE Moves(pc, R, W) ==
               /\ pc \in {"top", "poll", "reads"} /\ R \subseteq Fd \cup {Listen} /\ W \subseteq Fd
               /\ loop' = [loop EXCEPT !.pc = pc, !.reads = R, !.writes = W]
               /\ Listen \in R => loop.accepted < MaxConns
         input == {f \in UpTo(snap.reads) \ {Listen} : HasInput(f)}
         output == UpTo(snap.writes)
  <2>3. input \subseteq Fd \cup {Listen} /\ output \subseteq Fd
    BY DEF UpTo, Base, TypeInv, TypeOK, PollTypeOK
  <2>4. \/ loop' = [loop EXCEPT !.pc = "top", !.reads = {}, !.writes = {}]
        \/ \E ready \in {input, input \cup {Listen}} :
             /\ Listen \in ready => loop.accepted < MaxConns
             /\ loop' = [loop EXCEPT !.pc = IF ready \cup output = {} THEN "poll" ELSE "reads",
                                    !.reads = ready, !.writes = output]
    BY <1>3 DEF Select
  <2> HIDE DEF input, output
  <2>1. PICK pc, R, W : Moves(pc, R, W)
    <3>1. CASE loop' = [loop EXCEPT !.pc = "top", !.reads = {}, !.writes = {}]
      <4>1. Moves("top", {}, {})
        BY <3>1
      <4> HIDE DEF Moves
      <4> QED
        BY <4>1
    <3>2. ASSUME NEW ready \in {input, input \cup {Listen}},
                 Listen \in ready => loop.accepted < MaxConns,
                 loop' = [loop EXCEPT !.pc = IF ready \cup output = {} THEN "poll" ELSE "reads",
                                      !.reads = ready, !.writes = output]
          PROVE  \E pc, R, W : Moves(pc, R, W)
      <4>1. ready \subseteq Fd \cup {Listen}
        BY <2>3
      <4>2. PICK pc \in {"poll", "reads"} :
              pc = IF ready \cup output = {} THEN "poll" ELSE "reads"
        OBVIOUS
      <4>3. loop' = [loop EXCEPT !.pc = pc, !.reads = ready, !.writes = output]
        BY <3>2, <4>2
      <4>4. Moves(pc, ready, output)
        BY <2>3, <3>2, <4>1, <4>3
      <4> HIDE DEF Moves
      <4> QED
        BY <4>4
    <3> QED
      BY <2>4, <3>1, <3>2
  <2>2. UNCHANGED snap
    BY <1>3 DEF Select
  <2> QED
    BY <1>0, <2>1, <2>2 DEF LoopType, LoopPcs, AtChannel, Base, TypeInv, TypeOK, PollTypeOK
<1>4. CASE BeginRead
  <2>1. CASE Min(loop.reads) \in DOMAIN channels
    <3>1. /\ loop' = [loop EXCEPT !.pc = "check", !.chan = channels[Min(loop.reads)]]
          /\ UNCHANGED snap
      BY <1>4, <2>1 DEF BeginRead
    <3>2. channels[Min(loop.reads)] \in Conn
      BY <2>1 DEF Base, TypeInv, TypeOK, PollTypeOK
    <3> QED
      BY <1>0, <1>4, <2>1, <3>1, <3>2
         DEF LoopType, LoopPcs, AtChannel, Base, TypeInv, TypeOK, PollTypeOK
  <2>2. CASE Min(loop.reads) \notin DOMAIN channels
    <3>1. /\ loop' = [loop EXCEPT !.reads = @ \ {Min(loop.reads)}] /\ loop.pc = "reads"
          /\ UNCHANGED snap
      BY <1>4, <2>2 DEF BeginRead, NextRead
    <3> QED
      BY <1>0, <3>1 DEF LoopType, LoopPcs, AtChannel, Base, TypeInv, TypeOK, PollTypeOK
  <2> QED
    BY <2>1, <2>2
<1> QED
  BY <1>0, <1>1, <1>2, <1>3, <1>4 DEF LoopOnly

-----------------------------------------------------------------------------
(* What most steps leave alone *)

\* Streams nobody touches stay framed, unless a Channel or a client is moved
\* into the middle of a message.
LEMMA FramedKept ==
  ASSUME NEW c, StreamFramed(c), up'[c] = up[c],
         chan'[c].inbox = "part" => chan[c].inbox = "part",
         client'[c] \in Whole => client[c] \in Whole
  PROVE  StreamFramed(c)'
<1>1. Framed(up[c], chan[c].inbox = "part", client[c] \in Whole)
  BY DEF StreamFramed
<1>2. Framed(up[c], chan'[c].inbox = "part", client'[c] \in Whole)
  BY <1>1 DEF Framed
<1> QED
  BY <1>2 DEF StreamFramed

\* What becomes of the jobs, when none is queued, taken or done.
LEMMA JobsSame ==
  ASSUME JobsOnce, JobsWhole, crash = "no", UNCHANGED jobs,
         \A w \in Workers : /\ work'[w].pc = "get" <=> work[w].pc = "get"
                            /\ work'[w].pc = "get" => work'[w].chan = work[w].chan,
         \A c \in Conn :
           /\ chan'[c].inbox \in Messages <=> chan[c].inbox \in Messages
           /\ chan[c].busy => chan'[c].busy
  PROVE  JobsOnce' /\ JobsWhole'
<1>1. \A w \in Workers : \A c : Getting(w, c)' <=> Getting(w, c)
  BY DEF Getting
<1>2. \A c : HasJob(c)' <=> HasJob(c)
  BY <1>1 DEF HasJob
<1>3. JobsWhole'
  BY <1>2 DEF JobsWhole
<1>4. JobsOnce'
  BY <1>1 DEF JobsOnce
<1> QED
  BY <1>3, <1>4

\* Nor when Channels, queue and workers stand still.
LEMMA JobsStay ==
  ASSUME JobInv, UNCHANGED <<chan, jobs, work, crash>>
  PROVE  JobInv'
<1>1. \A c : HasJob(c)' <=> HasJob(c)
  BY DEF HasJob, Getting
<1>2. HeldRight' /\ JobsOnce'
  BY DEF JobInv, HeldRight, JobsOnce, Getting
<1>3. JobsWhole'
  BY <1>1 DEF JobInv, JobsWhole
<1> QED
  BY <1>2, <1>3 DEF JobInv

\* A step leaves the invariant as it is if it opens and closes no Channel,
\* moves no message and no job, and watches no descriptor for reading.
Settles ==
  /\ OwnTypes' /\ WireTypeOK' /\ Manager!Inv' /\ LoopStands'
  /\ UNCHANGED <<fdOf, up, channels, deleted, jobs, readSet>> /\ writeSet' \subseteq Fd
  /\ loop'.accepted = loop.accepted
  /\ loop'.pc \in AtChannel =>
       loop.pc \in AtChannel /\ loop'.chan = loop.chan /\ loop'.reads = loop.reads
  /\ loop'.pc = "drop" => loop.pc = "drop"
  /\ main'.pc = "close" => main'.chan \in Conn
  /\ \A c \in Conn :
       /\ client'[c] \in Whole => client[c] \in Whole
       /\ client[c] = "none" => client'[c] = "none"
       /\ chan'[c].inbox = chan[c].inbox /\ (chan[c].busy => chan'[c].busy)
       /\ chan'[c].left > 0 => chan'[c].out \in Frames
  /\ \A w \in Workers :
       /\ work'[w].pc # "idle" => work[w].pc # "idle" /\ work'[w].chan = work[w].chan
       /\ work'[w].pc = "get" <=> work[w].pc = "get"
       /\ work'[w].pc \in {"notify", "handle"} => work'[w].held \in Messages
       /\ work'[w].pc = "lock" => work'[w].held \in Frames

LEMMA BaseSettled ==
  ASSUME Base, crash = "no", Settles
  PROVE  Base'
<1>1. TypeOK'
  <2>1. Poll!TypeOK'
    BY WatchedType DEF Settles
  <2> QED
    BY <2>1, TypeParts DEF Settles
<1>2. KnownOnly'
  <2>1. \A c : Known(c)' <=> Known(c)
    BY DEF Settles, Known
  <2> QED
    BY <2>1 DEF Settles, Base, TypeInv, KnownOnly
<1>3. NotYet'
  BY DEF Settles, Base, TypeInv, NotYet
<1>4. \A c \in Conn : StreamFramed(c)'
  BY FramedKept DEF Settles, Base, TypeInv
<1>5. MapInv'
  BY DEF Settles, Base, MapInv
<1>6. JobsOnce' /\ JobsWhole'
  <2>1. /\ \A w \in Workers : /\ work'[w].pc = "get" <=> work[w].pc = "get"
                              /\ work'[w].pc = "get" => work'[w].chan = work[w].chan
        /\ \A c \in Conn :
             /\ chan'[c].inbox \in Messages <=> chan[c].inbox \in Messages
             /\ chan[c].busy => chan'[c].busy
    BY DEF Settles
  <2> QED
    BY <2>1, JobsSame DEF Settles, Base, JobInv
<1>7. HeldRight'
  BY DEF Settles, HeldRight
<1>8. WatchInv'
  <2>1. loop'.pc = "drop" => Min(loop'.reads) \notin readSet'
    BY DEF Settles, AtChannel, Base, WatchInv
  <2> QED
    BY <2>1 DEF Settles, Base, WatchInv
<1> QED
  BY <1>1, <1>2, <1>3, <1>4, <1>5, <1>6, <1>7, <1>8
     DEF Settles, Base, TypeInv, JobInv

\* The process dies where it stands.
LEMMA CrashBase ==
  ASSUME Base, NEW how \in Crashes \ {"no"}, Crash(how)
  PROVE  Base'
<1>0. UNCHANGED <<pollVars, loopVars, chanVars, poolVars, mainVars, wireVars>> /\ crash' = how
  BY DEF Crash
<1>1. TypeOK'
  <2>1. WireTypeOK'
    BY <1>0, WireSame, Types
  <2> QED
    BY <1>0, <2>1 DEF Base, TypeInv, TypeOK, PollTypeOK, Poll!TypeOK, pollVars, loopVars,
                      chanVars, poolVars, mainVars
<1>2. LoopStands' /\ KnownOnly' /\ NotYet' /\ MapInv'
  BY <1>0 DEF Base, TypeInv, LoopStands, KnownOnly, Known, NotYet, MapInv, loopVars, chanVars,
              poolVars, mainVars, wireVars, clientVars, fdVars
<1>3. \A c \in Conn : StreamFramed(c)'
  BY <1>0 DEF Base, TypeInv, StreamFramed, Framed, chanVars, wireVars, clientVars
<1>4. JobInv'
  BY <1>0 DEF Base, JobInv, HeldRight, JobsOnce, JobsWhole, Getting, chanVars, poolVars
<1>5. WatchInv'
  BY <1>0 DEF Base, WatchInv, Manager!Inv, Manager!TypeOK, Manager!Mirrored,
              Manager!HighestCoversSets, pollVars, loopVars
<1> QED
  BY <1>1, <1>2, <1>3, <1>4, <1>5 DEF Base, TypeInv

-----------------------------------------------------------------------------
(* Steps of the loop thread *)

LEMMA LoopOnlyBase ==
  ASSUME Base, crash = "no", LoopOnly
  PROVE  Base'
<1>0. /\ UNCHANGED <<wireVars, pollVars, OwnRest>> /\ WireTypeOK' /\ OwnTypes' /\ Manager!Inv'
      /\ loop \in LoopType
  <2>1. UNCHANGED <<wireVars, pollVars, OwnRest>>
    BY LoopOnlyFacts
  <2>2. OwnTypes'
    BY <2>1, LoopOnlyFacts, TypeParts DEF Base, TypeInv, OwnTypes, OwnRest
  <2>3. Manager!Inv'
    BY <2>1 DEF Base, WatchInv, Manager!Inv, Manager!TypeOK, Manager!Mirrored,
                Manager!HighestCoversSets, pollVars
  <2> QED
    BY <2>1, <2>2, <2>3, WireSame, Types
<1>1. CASE BeginRead /\ Min(loop.reads) \in DOMAIN channels
  <2> DEFINE f == Min(loop.reads)
  <2>1. /\ loop' = [loop EXCEPT !.pc = "check", !.chan = channels[f]]
        /\ loop.reads # {} /\ f # Listen
    BY <1>1 DEF BeginRead, NextRead
  <2>2. f \in Fd
    BY <1>0, <2>1, MinIn DEF LoopType
  <2>3. /\ loop'.pc = "check" /\ loop'.chan = channels[f] /\ loop'.reads = loop.reads
        /\ loop'.accepted = loop.accepted
    BY <1>0, <2>1 DEF LoopType
  <2> HIDE DEF f
  <2>4. Known(channels[f]) /\ channels[f] \notin deleted
    BY <1>1 DEF f, Base, TypeInv, KnownOnly, MapInv
  <2>5. TypeOK'
    BY <1>0, TypeParts, WatchedType
  <2>6. LoopStands' /\ KnownOnly' /\ NotYet'
    BY <1>0, <2>1, <2>2, <2>3, <2>4
       DEF f, Base, TypeInv, LoopStands, KnownOnly, Known, NotYet, OwnRest, wireVars,
           clientVars, fdVars
  <2>7. \A c \in Conn : StreamFramed(c)'
    BY <1>0 DEF Base, TypeInv, StreamFramed, Framed, OwnRest, wireVars, clientVars
  <2>8. MapInv'
    BY <1>0, <2>3, <2>4 DEF f, Base, MapInv, OwnRest
  <2>9. JobInv'
    BY <1>0, JobsSame DEF Base, JobInv, HeldRight, OwnRest
  <2>10. WatchInv'
    BY <1>0, <2>3 DEF Base, WatchInv, pollVars
  <2> QED
    BY <2>5, <2>6, <2>7, <2>8, <2>9, <2>10 DEF Base, TypeInv
<1>2. CASE ~(BeginRead /\ Min(loop.reads) \in DOMAIN channels)
  <2>1. /\ loop'.pc \in AtChannel => loop.pc \in AtChannel /\ loop'.chan = loop.chan
                                     /\ loop'.reads = loop.reads
        /\ loop'.accepted = loop.accepted /\ loop'.pc \notin {"drop", "written"}
        /\ Listen \in loop'.reads => loop.accepted < MaxConns
    BY <1>2, LoopOnlyFacts
  <2>2. LoopStands'
    BY <2>1 DEF Base, TypeInv, LoopStands
  <2>3. Settles
    BY <1>0, <2>1, <2>2
       DEF Settles, Base, TypeInv, KnownOnly, JobInv, HeldRight, WatchInv, OwnRest, pollVars,
           wireVars, clientVars, fdVars
  <2> QED
    BY <2>3, BaseSettled
<1> QED
  BY <1>1, <1>2

\* accept() gives connection c, the next one, the number f.
Accepts(f, c) ==
  /\ c \in Conn /\ c > loop.accepted /\ owner[f] = Free
  /\ owner' = [owner EXCEPT ![f] = c] /\ fdOf' = [fdOf EXCEPT ![c] = f] /\ fdOf'[c] = f
  /\ client' = [client EXCEPT ![c] = "idle"]
  /\ UNCHANGED <<appFd, hup, up, down, calls, acked, denied>>
  /\ UNCHANGED <<snap, chan, deleted, jobs, work, executed, main, stop, crash>>
  /\ Poll!Watch(f, "READ")
  /\ channels' = [g \in DOMAIN channels \cup {f} |-> IF g = f THEN c ELSE channels[g]]
  /\ loop' = [loop EXCEPT !.accepted = c, !.reads = @ \ {Listen}]
  /\ loop'.accepted = c /\ loop'.pc = "reads" /\ loop.pc = "reads"
  /\ loop'.reads = loop.reads \ {Listen} /\ loop'.writes = loop.writes
  /\ loop'.chan = loop.chan

LEMMA AcceptFacts ==
  ASSUME Base, Accept, FreeFds # {}
  PROVE  \E f \in Fd : Accepts(f, loop.accepted + 1)
<1> DEFINE c == loop.accepted + 1
<1>1. /\ loop \in LoopType /\ fdOf \in [Conn -> Fd \cup {NoFd}]
  BY Types DEF WireTypeOK
<1>2. Listen \in loop.reads /\ loop.pc = "reads"
  <2>1. loop.reads # {} /\ Min(loop.reads) = Listen /\ loop.pc = "reads"
    BY DEF Accept, NextRead
  <2> QED
    BY <1>1, <2>1, MinIn DEF LoopType
<1>3. c \in Conn /\ c > loop.accepted
  <2>1. loop.accepted \in 0 .. MaxConns /\ loop.accepted < MaxConns
    BY <1>1, <1>2 DEF LoopType, Base, TypeInv, LoopStands
  <2> QED
    BY <2>1, WireAssumption DEF Conn
<1>4. PICK f \in Fd : /\ Lowest(f)
                     /\ owner' = [owner EXCEPT ![f] = c] /\ fdOf' = [fdOf EXCEPT ![c] = f]
                     /\ client' = [client EXCEPT ![c] = "idle"]
                     /\ UNCHANGED <<appFd, hup, up, down, calls, acked, denied>>
  BY DEF Accept, AcceptFd
<1>5. fdOf'[c] = f /\ owner[f] = Free
  BY <1>1, <1>3, <1>4 DEF Lowest, FreeFds
<1>6. /\ Poll!Watch(f, "READ")
      /\ channels' = [g \in DOMAIN channels \cup {f} |-> IF g = f THEN c ELSE channels[g]]
      /\ UNCHANGED <<snap, chan, deleted, jobs, work, executed, main, stop, crash>>
  BY <1>5 DEF Accept, poolVars, mainVars
<1>7. loop' = [loop EXCEPT !.accepted = c, !.reads = @ \ {Listen}]
  BY DEF Accept
<1>8. /\ loop'.accepted = c /\ loop'.pc = "reads" /\ loop'.reads = loop.reads \ {Listen}
      /\ loop'.writes = loop.writes /\ loop'.chan = loop.chan
  BY <1>1, <1>2, <1>7 DEF LoopType
<1> HIDE DEF c
<1>9. \E g \in Fd : Accepts(g, c)
  BY <1>2, <1>3, <1>4, <1>5, <1>6, <1>7, <1>8 DEF Accepts
<1> QED
  BY <1>9 DEF c

LEMMA AcceptBase ==
  ASSUME Base, crash = "no", Accept
  PROVE  Base'
<1>1. CASE FreeFds = {}
  BY <1>1, CrashBase DEF Accept, Crashes
<1>2. CASE FreeFds # {}
  <2>0. PICK c : c = loop.accepted + 1
    OBVIOUS
  <2>1. PICK f \in Fd : Accepts(f, c)
    BY <1>2, <2>0, AcceptFacts
  <2>2. /\ fdOf \in [Conn -> Fd \cup {NoFd}] /\ client \in [Conn -> ClientStates]
        /\ loop \in LoopType /\ loop.accepted \in Nat /\ c \in Nat
        /\ \A d \in Conn : d \in Nat
    <3>1. loop \in LoopType
      BY Types
    <3> QED
      BY <2>0, <3>1, Types, FdFacts DEF WireTypeOK, LoopType
  <2>3. /\ \A d \in Conn \ {c} : fdOf'[d] = fdOf[d] /\ client'[d] = client[d]
        /\ client'[c] = "idle" /\ fdOf'[c] = f /\ c \in Conn /\ c > loop.accepted
    BY <2>1, <2>2 DEF Accepts
  <2>4. TypeOK'
    <3>1. WireTypeOK'
      BY <2>1, Types DEF Accepts, WireTypeOK, ClientStates
    <3>2. Poll!TypeOK'
      BY <2>1, Watched, WatchedType DEF Accepts, Base, WatchInv
    <3>3. loop' \in LoopType
      <4>1. c \in 0 .. MaxConns
        BY <2>3 DEF Conn
      <4> QED
        BY <2>1, <2>2, <4>1 DEF Accepts, LoopType
    <3>4. DOMAIN channels' \subseteq Fd /\ \A g \in DOMAIN channels' : channels'[g] \in Conn
      BY <2>1, <2>3 DEF Accepts, Base, TypeInv, TypeOK, PollTypeOK
    <3>5. OwnTypes'
      BY <2>1, <3>3, <3>4, TypeParts DEF Accepts, Base, TypeInv, OwnTypes
    <3> QED
      BY <3>1, <3>2, <3>5, TypeParts
  <2>5. LoopStands'
    BY <2>1, FdFacts DEF Accepts, LoopStands, AtChannel
  <2>6. \A d : Known(d) => Known(d)' /\ d # c
    BY <2>1, <2>2, <2>3 DEF Accepts, Known
  <2>7. KnownOnly'
    <3>1. Known(c)'
      BY <2>1, <2>2, <2>3 DEF Accepts, Known
    <3>2. \A g \in DOMAIN channels' :
            channels'[g] = c \/ (g \in DOMAIN channels /\ channels'[g] = channels[g])
      BY <2>1 DEF Accepts
    <3>3. UNCHANGED <<jobs, work, main>> /\ loop'.pc \notin AtChannel
      BY <2>1 DEF Accepts, AtChannel
    <3> HIDE DEF Known
    <3> QED
      BY <2>6, <3>1, <3>2, <3>3 DEF Base, TypeInv, KnownOnly
  <2>8. NotYet'
    <3> SUFFICES ASSUME NEW d \in Conn, d > c PROVE client'[d] = "none" /\ fdOf'[d] = NoFd
      BY <2>1 DEF NotYet, Accepts
    <3>1. d # c /\ d > loop.accepted
      BY <2>2, <2>3
    <3> QED
      BY <2>3, <3>1 DEF Base, TypeInv, NotYet
  <2>9. ASSUME NEW d \in Conn PROVE StreamFramed(d)'
    <3>1. client[c] = "none"
      BY <2>3 DEF Base, TypeInv, NotYet
    <3> QED
      BY <2>1, <2>3, <3>1, FramedKept DEF Accepts, Base, TypeInv, Whole
  <2>10. MapInv'
    <3>1. c \notin deleted
      BY <2>2, <2>3 DEF Base, MapInv, TypeInv, TypeOK, PollTypeOK
    <3>2. \A g \in DOMAIN channels : channels[g] # c
      BY <2>6 DEF Base, TypeInv, KnownOnly
    <3>3. DOMAIN channels' = DOMAIN channels \cup {f} /\ channels'[f] = c
          /\ \A g \in DOMAIN channels \ {f} : channels'[g] = channels[g]
      BY <2>1 DEF Accepts
    <3>4. \A g, h \in DOMAIN channels' : channels'[g] = channels'[h] => g = h
      BY <3>2, <3>3 DEF Base, MapInv
    <3>5. \A g \in DOMAIN channels' : channels'[g] \notin deleted'
      BY <2>1, <3>1, <3>3 DEF Accepts, Base, MapInv
    <3>6. \A d \in deleted' : d <= loop'.accepted
      BY <2>1, <2>2, <2>3 DEF Accepts, Base, MapInv, TypeInv, TypeOK, PollTypeOK
    <3> QED
      BY <2>1, <3>4, <3>5, <3>6 DEF Accepts, MapInv, AtChannel
  <2>11. JobInv'
    BY <2>1, JobsSame DEF Accepts, Base, JobInv, HeldRight
  <2>12. WatchInv'
    <3>1. Manager!Inv'
      BY <2>1, Watched DEF Accepts, Base, WatchInv
    <3>2. Listen \in readSet' /\ writeSet' \subseteq Fd
      BY <2>1 DEF Accepts, Base, WatchInv, Poll!Watch
    <3> QED
      BY <2>1, <3>1, <3>2 DEF Accepts, WatchInv
  <2> QED
    BY <2>4, <2>5, <2>7, <2>8, <2>9, <2>10, <2>11, <2>12 DEF Base, TypeInv
<1> QED
  BY <1>1, <1>2

-----------------------------------------------------------------------------
(* Steps of the loop thread: Channel::read() *)

\* What the loop thread reads, it reads for a Channel that is not deleted, and
\* whose job it queues.
ReadsAt(c) ==
  /\ c = loop.chan /\ loop.pc = "read"
  /\ UNCHANGED <<pollVars, snap, channels, deleted, work, executed, main, stop>>
  /\ UNCHANGED <<down, client, calls, acked, denied, fdVars>>

Reads(c) == ReadsAt(c) /\ chan[c].inbox \in {"none", "part"}

\* The outcomes of a read: the Channel is to be closed or left as it is, its
\* message is not complete yet, or it is.
GivesUp(c) ==
  /\ \/ UNCHANGED up /\ NextOne
     \/ UNCHANGED up /\ (ReadFails(c) \/ up[c] = <<>>) /\ loop' = [loop EXCEPT !.pc = "close"]
     \/ /\ up[c] # <<>> /\ Head(up[c]) # "size" /\ chan[c].inbox = "none"
        /\ up' = [up EXCEPT ![c] = Tail(@)] /\ loop' = [loop EXCEPT !.pc = "close"]
  /\ chan' = chan \/ chan' = [chan EXCEPT ![c].busy = TRUE]
  /\ UNCHANGED <<jobs, crash>>

HasSize(c) ==
  /\ chan[c].inbox = "none" /\ up[c] # <<>> /\ Head(up[c]) = "size"
  /\ up' = [up EXCEPT ![c] = Tail(@)]
  /\ chan' = [chan EXCEPT ![c].inbox = "part"]
  /\ NextOne /\ UNCHANGED <<jobs, crash>>

HasAll(c, kind) ==
  /\ kind \in RequestKinds
  /\ \/ /\ chan[c].inbox = "none" /\ up[c] # <<>> /\ Head(up[c]) = "size"
        /\ Tail(up[c]) # <<>> /\ kind = Head(Tail(up[c]))
        /\ up' = [up EXCEPT ![c] = Tail(Tail(@))]
     \/ /\ chan[c].inbox = "part" /\ up[c] # <<>> /\ kind = Head(up[c])
        /\ up' = [up EXCEPT ![c] = Tail(@)]
  /\ Ready(c, kind)

\* With a size that arrives alone: what the array held stands for the message,
\* or the Channel is left with a buffer that nothing fills.
HasGarbage(c) ==
  /\ SizeAlone /\ Ready(c, "garbage")
  /\ \/ chan[c].inbox = "part" /\ UNCHANGED up
     \/ /\ chan[c].inbox = "none" /\ up[c] # <<>>
        /\ up' = [up EXCEPT ![c] = Tail(@)] \/ up' = [up EXCEPT ![c] = <<"badsize">>]

IsAstray(c) ==
  /\ SizeAlone
  /\ UNCHANGED up \/ (up[c] # <<>> /\ up' = [up EXCEPT ![c] = Tail(@)])
  /\ \/ chan[c].inbox = "none" /\ chan' = [chan EXCEPT ![c].inbox = "astray"]
     \/ chan[c].inbox = "astray" /\ UNCHANGED chan
  /\ NextOne /\ UNCHANGED <<jobs, crash>>

\* The two units of a request read at once.
LEMMA TwoUnits ==
  ASSUME NEW s \in Seq(Units)
  PROVE  /\ s # <<>> => Head(s) = s[1] /\ Head(s) \in Units
         /\ Len(s) = 1 => s # <<>> /\ Tail(s) = <<>>
         /\ Len(s) > 1 => /\ s # <<>> /\ Tail(s) # <<>> /\ 2 \in 1 .. Len(s)
                          /\ s[2] = Head(Tail(s)) /\ s[2] \in Units
<1>1. CASE s = <<>>
  <2>1. Len(s) = 0
    BY <1>1
  <2> QED
    BY <1>1, <2>1
<1>2. CASE s # <<>>
  <2>1. /\ Len(s) \in Nat \ {0} /\ Head(s) = s[1] /\ Head(s) \in Units
        /\ Tail(s) \in Seq(Units) /\ Len(Tail(s)) = Len(s) - 1
        /\ \A i \in 1 .. Len(Tail(s)) : Tail(s)[i] = s[i + 1]
    BY <1>2
  <2>2. Tail(s) = <<>> <=> Len(s) = 1
    <3>1. \A t \in Seq(Units) : t = <<>> <=> Len(t) = 0
      OBVIOUS
    <3>2. Tail(s) = <<>> <=> Len(Tail(s)) = 0
      BY <2>1, <3>1
    <3> QED
      BY <2>1, <3>2
  <2>3. Tail(s) # <<>> => Head(Tail(s)) = Tail(s)[1] /\ Head(Tail(s)) \in Units
    BY <2>1
  <2>4. Len(s) > 1 => 2 \in 1 .. Len(s) /\ 1 \in 1 .. Len(Tail(s))
    BY <2>1
  <2>5. Len(s) > 1 => s[2] = Head(Tail(s)) /\ Tail(s) # <<>>
    BY <2>1, <2>2, <2>3, <2>4
  <2> QED
    BY <1>2, <2>1, <2>2, <2>3, <2>4, <2>5
<1> QED
  BY <1>1, <1>2

LEMMA ReadCases ==
  ASSUME Base, NEW c, c = loop.chan, ReadSize \/ (ReadBody /\ ~Crash("memcpy"))
  PROVE  Reads(c) /\ (GivesUp(c) \/ HasSize(c) \/ \E kind : HasAll(c, kind))
<1>1. /\ c \in Conn /\ up[c] \in Seq(Units) /\ up \in [Conn -> Seq(Units)]
      /\ StreamFramed(c)
  <2>1. loop.pc = "read"
    BY DEF ReadSize, ReadBody
  <2>2. c \in Conn
    BY <2>1 DEF Base, TypeInv, KnownOnly, Known, AtChannel
  <2> QED
    BY <2>2, Types DEF WireTypeOK, Base, TypeInv
<1>2. Reads(c)
  BY DEF ReadSize, ReadBody, ReadFrame, Reads, ReadsAt, mainVars
<1>3. /\ up[c] # <<>> => Head(up[c]) = up[c][1] /\ Head(up[c]) \in Units
      /\ Len(up[c]) = 1 => up[c] # <<>> /\ Tail(up[c]) = <<>>
      /\ Len(up[c]) > 1 => /\ up[c] # <<>> /\ Tail(up[c]) # <<>> /\ 2 \in 1 .. Len(up[c])
                           /\ up[c][2] = Head(Tail(up[c])) /\ up[c][2] \in Units
  BY <1>1, TwoUnits
<1>4. \A u \in Units : u # "size" => u \in RequestKinds
  BY DEF Units
<1>5. CASE ReadBody /\ ~Crash("memcpy")
  <2>1. CASE up[c] = <<>>
    BY <1>2, <1>5, <2>1 DEF ReadBody, GivesUp
  <2>2. CASE up[c] # <<>>
    <3>1. /\ chan[c].inbox = "part" /\ Ready(c, Head(up[c]))
          /\ up' = [up EXCEPT ![c] = Tail(@)]
      BY <1>5, <2>2 DEF ReadBody
    <3>2. Head(up[c]) \in RequestKinds
      BY <1>1, <1>3, <1>4, <2>2, <3>1 DEF StreamFramed, Framed
    <3>3. HasAll(c, Head(up[c]))
      BY <2>2, <3>1, <3>2 DEF HasAll
    <3> QED
      BY <1>2, <3>3
  <2> QED
    BY <2>1, <2>2
<1>6. CASE ReadSize
  <2>1. \/ GivesUp(c)
        \/ Len(up[c]) = 1 /\ Head(up[c]) = "size" /\ up' = [up EXCEPT ![c] = <<>>]
           /\ chan' = [chan EXCEPT ![c].inbox = "part"] /\ NextOne /\ UNCHANGED <<jobs, crash>>
        \/ Len(up[c]) > 1 /\ Head(up[c]) = "size" /\ up' = [up EXCEPT ![c] = Tail(Tail(@))]
           /\ Ready(c, up[c][2])
    BY <1>6 DEF ReadSize, GivesUp, LoopGoes
  <2>2. chan[c].inbox = "none"
    BY <1>6 DEF ReadSize
  <2>3. CASE Len(up[c]) = 1 /\ Head(up[c]) = "size" /\ up' = [up EXCEPT ![c] = <<>>]
             /\ chan' = [chan EXCEPT ![c].inbox = "part"] /\ NextOne /\ UNCHANGED <<jobs, crash>>
    BY <1>2, <1>3, <2>2, <2>3 DEF HasSize
  <2>4. CASE Len(up[c]) > 1 /\ Head(up[c]) = "size" /\ up' = [up EXCEPT ![c] = Tail(Tail(@))]
             /\ Ready(c, up[c][2])
    <3>1. up[c][2] # "size"
      <4>1. 1 \in 1 .. Len(up[c]) - 1 /\ up[c][1] = "size"
        BY <1>1, <1>3, <2>4
      <4> QED
        BY <1>1, <4>1 DEF StreamFramed, Framed
    <3>2. HasAll(c, up[c][2])
      BY <1>3, <1>4, <2>2, <2>4, <3>1 DEF HasAll
    <3> QED
      BY <1>2, <3>2
  <2> QED
    BY <1>2, <2>1, <2>3, <2>4
<1> QED
  BY <1>5, <1>6

\* The same of the reads that a size alone makes possible.
LEMMA ReadAloneCases ==
  ASSUME Base, NEW c, c = loop.chan, (ReadAlone \/ ReadAstray) /\ ~Crash("memcpy")
  PROVE  ReadsAt(c) /\ (HasGarbage(c) \/ IsAstray(c))
<1>1. /\ c \in Conn /\ up[c] \in Seq(Units) /\ up \in [Conn -> Seq(Units)]
      /\ chan \in [Conn -> Channel]
  <2>1. loop.pc = "read"
    BY DEF ReadAlone, ReadAstray
  <2>2. c \in Conn
    BY <2>1 DEF Base, TypeInv, KnownOnly, Known, AtChannel
  <2> QED
    BY <2>2, Types DEF WireTypeOK
<1>2. ReadsAt(c)
  BY DEF ReadAlone, ReadAstray, ReadFrame, ReadsAt, mainVars
<1>3. CASE ReadAlone
  <2>1. \/ HasGarbage(c)
        \/ /\ SizeAlone /\ chan[c].inbox = "none" /\ up[c] # <<>>
           /\ up' = [up EXCEPT ![c] = Tail(@)]
           /\ chan' = [chan EXCEPT ![c].inbox = "astray"]
           /\ NextOne /\ UNCHANGED <<jobs, crash>>
    BY <1>3 DEF ReadAlone, HasGarbage
  <2> QED
    BY <1>2, <2>1 DEF IsAstray
<1>4. CASE ReadAstray
  <2>1. /\ chan[c].inbox = "astray" /\ NextOne /\ UNCHANGED <<chan, jobs, crash>>
        /\ UNCHANGED up \/ (up[c] # <<>> /\ up' = [up EXCEPT ![c] = Tail(@)])
    BY <1>1, <1>4 DEF ReadAstray
  <2>2. SizeAlone
    BY <1>1, <2>1 DEF Channel, Messages, RequestKinds
  <2> QED
    BY <1>2, <2>1, <2>2 DEF IsAstray
<1> QED
  BY <1>3, <1>4

\* The queue is longer by the job of a Channel that had none.
LEMMA JobAdded ==
  ASSUME JobsOnce, JobsWhole, crash = "no", jobs \in Seq(Conn), chan \in [Conn -> Channel],
         NEW c \in Conn, NEW kind \in Messages, chan[c].inbox \notin Messages,
         jobs' = Append(jobs, c), UNCHANGED work,
         chan' = [chan EXCEPT ![c].inbox = kind, ![c].busy = TRUE]
  PROVE  JobsOnce' /\ JobsWhole'
<1>1. /\ DOMAIN jobs' = DOMAIN jobs \cup {Len(jobs) + 1} /\ Len(jobs) + 1 \notin DOMAIN jobs
      /\ \A i \in DOMAIN jobs : jobs'[i] = jobs[i]
      /\ jobs'[Len(jobs) + 1] = c
  BY DEF JobsOnce
<1>2. ~HasJob(c)
  BY DEF JobsWhole
<1>3. \A w \in Workers : \A d : Getting(w, d)' <=> Getting(w, d)
  BY DEF Getting
<1>4. \A d : HasJob(d)' <=> HasJob(d) \/ d = c
  BY <1>1, <1>3 DEF HasJob
<1>5. JobsOnce'
  <2>1. \A i \in DOMAIN jobs : jobs[i] # c
    BY <1>2 DEF HasJob
  <2>2. \A w \in Workers : work[w].pc = "get" => work[w].chan # c
    BY <1>2 DEF HasJob, Getting
  <2>3. \A i, j \in DOMAIN jobs' : jobs'[i] = jobs'[j] => i = j
    BY <1>1, <2>1 DEF JobsOnce
  <2>4. \A w \in Workers : work[w].pc = "get" => \A i \in DOMAIN jobs' : jobs'[i] # work[w].chan
    BY <1>1, <2>2 DEF JobsOnce
  <2> QED
    BY <1>3, <2>3, <2>4 DEF JobsOnce
<1>6. /\ chan'[c].inbox = kind /\ chan'[c].busy = TRUE
      /\ \A d \in Conn \ {c} : chan'[d] = chan[d]
  BY DEF Channel
<1>7. JobsWhole'
  BY <1>4, <1>6 DEF JobsWhole
<1> QED
  BY <1>5, <1>7

\* Where the loop thread stands after a read.
LEMMA ReadMoves ==
  ASSUME Base, NEW c, ReadsAt(c), (loop' = [loop EXCEPT !.pc = "close"]) \/ NextOne
  PROVE  /\ c \in Conn /\ c \notin deleted /\ Min(loop.reads) \in Fd
         /\ Min(loop.reads) \in DOMAIN channels => channels[Min(loop.reads)] = c
         /\ loop' \in LoopType /\ loop'.chan = c /\ loop'.accepted = loop.accepted
         /\ loop'.pc \in {"close", "reads"}
         /\ loop'.pc = "close" => loop'.reads = loop.reads
         /\ Listen \in loop'.reads => Listen \in loop.reads
<1>1. /\ c \in Conn /\ c \notin deleted /\ Min(loop.reads) \in Fd
      /\ Min(loop.reads) \in DOMAIN channels => channels[Min(loop.reads)] = c
  BY DEF ReadsAt, Base, TypeInv, MapInv, LoopStands, KnownOnly, Known, AtChannel
<1>2. loop \in LoopType
  BY Types
<1>3. CASE loop' = [loop EXCEPT !.pc = "close"]
  BY <1>1, <1>2, <1>3 DEF LoopType, LoopPcs, ReadsAt
<1>4. CASE NextOne
  BY <1>1, <1>2, <1>4 DEF NextOne, LoopType, LoopPcs, ReadsAt
<1> QED
  BY <1>1, <1>3, <1>4

\* What a read leaves alone.
LEMMA ReadKeeps ==
  ASSUME Base, NEW c, ReadsAt(c), (loop' = [loop EXCEPT !.pc = "close"]) \/ NextOne,
         NEW s \in Seq(Units), up' = [up EXCEPT ![c] = s],
         chan' \in [Conn -> Channel], jobs' \in Seq(Conn), crash' \in Crashes,
         \A i \in DOMAIN jobs' : jobs'[i] = c \/ \E j \in DOMAIN jobs : jobs'[i] = jobs[j]
  PROVE  /\ TypeOK' /\ LoopStands' /\ KnownOnly' /\ NotYet' /\ MapInv' /\ WatchInv'
         /\ c \in Conn /\ \A d \in Conn \ {c} : up'[d] = up[d]
<1>0. /\ up \in [Conn -> Seq(Units)] /\ c \in Conn
      /\ UNCHANGED <<fdOf, owner, appFd, hup, down, client, calls, acked, denied>>
      /\ UNCHANGED <<pollVars, snap, channels, deleted, work, executed, main, stop>>
      /\ loop' \in LoopType
  BY Types, ReadMoves DEF ReadsAt, WireTypeOK, fdVars
<1>1. TypeOK'
  <2>1. WireTypeOK'
    BY <1>0, Types DEF WireTypeOK
  <2>2. Poll!TypeOK'
    BY <1>0 DEF Base, TypeInv, TypeOK, PollTypeOK, Poll!TypeOK, pollVars
  <2>3. OwnTypes'
    BY <1>0, TypeParts DEF Base, TypeInv, OwnTypes
  <2> QED
    BY <2>1, <2>2, <2>3, TypeParts
<1>2. LoopStands'
  <2>1. loop.pc = "read"
    BY DEF ReadsAt
  <2> QED
    BY <2>1, ReadMoves DEF Base, TypeInv, LoopStands, AtChannel
<1>3. KnownOnly'
  <2>1. \A d : Known(d)' <=> Known(d)
    BY <1>0, ReadMoves DEF Known
  <2>2. Known(c)
    BY DEF ReadsAt, Base, TypeInv, KnownOnly, AtChannel
  <2> QED
    BY <1>0, <2>1, <2>2, ReadMoves DEF Base, TypeInv, KnownOnly
<1>4. NotYet'
  BY <1>0, ReadMoves DEF Base, TypeInv, NotYet
<1>5. MapInv'
  BY <1>0, ReadMoves DEF Base, MapInv, AtChannel
<1>6. WatchInv'
  <2>1. Manager!Inv'
    BY <1>0 DEF Base, WatchInv, Manager!Inv, Manager!TypeOK, Manager!Mirrored,
                Manager!HighestCoversSets, pollVars
  <2> QED
    BY <1>0, <2>1, ReadMoves DEF Base, WatchInv, pollVars
<1> QED
  BY <1>0, <1>1, <1>2, <1>3, <1>4, <1>5, <1>6

LEMMA ReadBase ==
  ASSUME Base, crash = "no", NEW c, ReadsAt(c),
         \/ GivesUp(c) \/ HasSize(c) \/ \E kind : HasAll(c, kind)
         \/ HasGarbage(c) \/ IsAstray(c)
  PROVE  Base'
<1>0. /\ c \in Conn /\ up \in [Conn -> Seq(Units)] /\ up[c] \in Seq(Units)
      /\ chan \in [Conn -> Channel] /\ jobs \in Seq(Conn) /\ crash \in Crashes
      /\ UNCHANGED client /\ UNCHANGED work
      /\ Framed(up[c], chan[c].inbox = "part", client[c] \in Whole)
  <2>1. c \in Conn
    BY DEF ReadsAt, Base, TypeInv, KnownOnly, Known, AtChannel
  <2> QED
    BY <2>1, Types DEF ReadsAt, WireTypeOK, Base, TypeInv, StreamFramed, TypeOK, PollTypeOK
<1>1. (loop' = [loop EXCEPT !.pc = "close"]) \/ NextOne
  BY DEF GivesUp, HasSize, HasAll, HasGarbage, IsAstray, Ready
<1>8. ASSUME NEW s \in Seq(Units), s # <<>>, NEW inBody \in BOOLEAN,
             Framed(s, inBody, client[c] \in Whole)
      PROVE  /\ Tail(s) \in Seq(Units)
             /\ Framed(Tail(s), FALSE, client[c] \in Whole)
             /\ Head(s) = "size" => Framed(Tail(s), TRUE, client[c] \in Whole)
  <2> DEFINE whole == client[c] \in Whole
  <2>1. whole \in BOOLEAN
    OBVIOUS
  <2>2. Framed(s, inBody, whole)
    BY <1>8
  <2> HIDE DEF whole
  <2>3. /\ Framed(Tail(s), FALSE, whole)
        /\ Head(s) = "size" => Framed(Tail(s), TRUE, whole)
    BY <1>8, <2>1, <2>2, FramedTake
  <2>4. Tail(s) \in Seq(Units)
    BY <1>8
  <2> QED
    BY <2>3, <2>4 DEF whole
<1>2. up[c] # <<>> =>
        /\ Tail(up[c]) \in Seq(Units)
        /\ Framed(Tail(up[c]), FALSE, client[c] \in Whole)
        /\ Head(up[c]) = "size" => Framed(Tail(up[c]), TRUE, client[c] \in Whole)
  <2> DEFINE inBody == chan[c].inbox = "part"
  <2>1. inBody \in BOOLEAN /\ Framed(up[c], inBody, client[c] \in Whole)
    BY <1>0
  <2> HIDE DEF inBody
  <2> QED
    BY <1>0, <1>8, <2>1
<1>3. Head(up[c]) = "size" /\ up[c] # <<>> /\ Tail(up[c]) # <<>> =>
        /\ Tail(Tail(up[c])) \in Seq(Units)
        /\ Framed(Tail(Tail(up[c])), FALSE, client[c] \in Whole)
  BY <1>2, <1>8
<1>4. ASSUME NEW s \in Seq(Units), up' = [up EXCEPT ![c] = s], chan' \in [Conn -> Channel],
             \A d \in Conn \ {c} : chan'[d] = chan[d],
             Framed(s, chan'[c].inbox = "part", client[c] \in Whole)
      PROVE  \A d \in Conn : StreamFramed(d)'
  <2> SUFFICES ASSUME NEW d \in Conn PROVE StreamFramed(d)'
    OBVIOUS
  <2>1. CASE d = c
    BY <1>0, <1>4, <2>1 DEF StreamFramed
  <2>2. CASE d # c
    BY <1>0, <1>4, <2>2, FramedKept DEF Base, TypeInv
  <2> QED
    BY <2>1, <2>2
<1>5. CASE GivesUp(c)
  <2>1. PICK s \in Seq(Units) : /\ up' = [up EXCEPT ![c] = s]
                                /\ Framed(s, chan[c].inbox = "part", client[c] \in Whole)
    <3>1. CASE up' = up
      BY <1>0, <3>1
    <3>2. CASE up[c] # <<>> /\ chan[c].inbox = "none" /\ up' = [up EXCEPT ![c] = Tail(@)]
      BY <1>0, <1>2, <3>2
    <3> QED
      BY <1>5, <3>1, <3>2 DEF GivesUp
  <2>2. /\ chan' \in [Conn -> Channel] /\ chan'[c].inbox = chan[c].inbox
        /\ \A d \in Conn \ {c} : chan'[d] = chan[d]
        /\ \A d \in Conn : /\ chan'[d].inbox = chan[d].inbox
                           /\ chan[d].busy => chan'[d].busy
                           /\ chan'[d].left = chan[d].left /\ chan'[d].out = chan[d].out
    <3>1. CASE chan' = chan
      BY <1>0, <3>1
    <3>2. CASE chan' = [chan EXCEPT ![c].busy = TRUE]
      BY <1>0, <3>2 DEF Channel
    <3> QED
      BY <1>5, <3>1, <3>2 DEF GivesUp
  <2>3. UNCHANGED <<jobs, crash>>
    BY <1>5 DEF GivesUp
  <2>4. \A d \in Conn : StreamFramed(d)'
    BY <1>4, <2>1, <2>2
  <2>5. JobInv'
    BY <1>0, <2>2, <2>3, JobsSame DEF Base, JobInv, HeldRight
  <2>6. TypeOK' /\ LoopStands' /\ KnownOnly' /\ NotYet' /\ MapInv' /\ WatchInv'
    BY <1>0, <1>1, <2>1, <2>2, <2>3, ReadKeeps
  <2> QED
    BY <2>4, <2>5, <2>6 DEF Base, TypeInv
<1>6. CASE HasSize(c)
  <2>1. /\ up' = [up EXCEPT ![c] = Tail(up[c])] /\ UNCHANGED <<jobs, crash>>
        /\ Tail(up[c]) \in Seq(Units) /\ Framed(Tail(up[c]), TRUE, client[c] \in Whole)
    BY <1>2, <1>6 DEF HasSize
  <2>2. /\ chan' \in [Conn -> Channel] /\ chan'[c].inbox = "part"
        /\ \A d \in Conn \ {c} : chan'[d] = chan[d]
        /\ \A d \in Conn : /\ chan'[d].busy = chan[d].busy
                           /\ chan'[d].left = chan[d].left /\ chan'[d].out = chan[d].out
    BY <1>0, <1>6 DEF HasSize, Channel
  <2>3. \A d \in Conn : chan'[d].inbox \in Messages <=> chan[d].inbox \in Messages
    BY <1>6, <2>2 DEF HasSize, Messages, RequestKinds
  <2>4. \A d \in Conn : StreamFramed(d)'
    <3>1. Framed(Tail(up[c]), chan'[c].inbox = "part", client[c] \in Whole)
      BY <2>1, <2>2 DEF Framed
    <3> QED
      BY <1>4, <2>1, <2>2, <3>1
  <2>5. JobInv'
    BY <1>0, <2>1, <2>2, <2>3, JobsSame DEF Base, JobInv, HeldRight
  <2>6. TypeOK' /\ LoopStands' /\ KnownOnly' /\ NotYet' /\ MapInv' /\ WatchInv'
    BY <1>0, <1>1, <2>1, <2>2, ReadKeeps
  <2> QED
    BY <2>4, <2>5, <2>6 DEF Base, TypeInv
<1>7. ASSUME NEW kind \in Messages, chan[c].inbox \in {"none", "part"}, Ready(c, kind),
             NEW s \in Seq(Units), up' = [up EXCEPT ![c] = s],
             Framed(s, FALSE, client[c] \in Whole)
      PROVE  Base'
  <2>0. kind # "part" /\ chan[c].inbox \notin Messages
    BY <1>7 DEF Messages, RequestKinds
  <2>1. /\ up' = [up EXCEPT ![c] = s]
        /\ Framed(s, FALSE, client[c] \in Whole)
    BY <1>7
  <2>2. chan' = [chan EXCEPT ![c].inbox = kind, ![c].busy = TRUE]
    BY <1>7 DEF Ready
  <2>3. /\ chan' \in [Conn -> Channel] /\ chan'[c].inbox = kind
        /\ \A d \in Conn \ {c} : chan'[d] = chan[d]
        /\ \A d \in Conn : chan'[d].left = chan[d].left /\ chan'[d].out = chan[d].out
    BY <1>0, <2>0, <2>2 DEF Channel
  <2>4. HeldRight'
    BY <1>0, <2>3 DEF Base, JobInv, HeldRight
  <2>5. \A d \in Conn : StreamFramed(d)'
    <3>1. Framed(s, chan'[c].inbox = "part", client[c] \in Whole)
      BY <2>0, <2>1, <2>3 DEF Framed
    <3> QED
      BY <1>4, <2>1, <2>3, <3>1
  <2>6. CASE jobs' = Append(jobs, c) /\ crash' = crash
    <3>1. JobsOnce' /\ JobsWhole'
      BY <1>0, <2>0, <2>2, <2>6, JobAdded DEF Base, JobInv
    <3>2. /\ jobs' \in Seq(Conn) /\ crash' \in Crashes
          /\ \A i \in DOMAIN jobs' : jobs'[i] = c \/ \E j \in DOMAIN jobs : jobs'[i] = jobs[j]
      BY <1>0, <2>6
    <3>3. TypeOK' /\ LoopStands' /\ KnownOnly' /\ NotYet' /\ MapInv' /\ WatchInv'
      BY <1>1, <2>1, <2>3, <3>2, ReadKeeps
    <3> QED
      BY <2>4, <2>5, <3>1, <3>3 DEF Base, TypeInv, JobInv
  <2>7. CASE jobs' = jobs /\ crash' = "null"
    <3>1. JobsOnce' /\ JobsWhole'
      BY <1>0, <2>7 DEF Base, JobInv, JobsOnce, JobsWhole, Getting
    <3>2. /\ jobs' \in Seq(Conn) /\ crash' \in Crashes
          /\ \A i \in DOMAIN jobs' : jobs'[i] = c \/ \E j \in DOMAIN jobs : jobs'[i] = jobs[j]
      BY <1>0, <2>7 DEF Crashes
    <3>3. TypeOK' /\ LoopStands' /\ KnownOnly' /\ NotYet' /\ MapInv' /\ WatchInv'
      BY <1>1, <2>1, <2>3, <3>2, ReadKeeps
    <3> QED
      BY <2>4, <2>5, <3>1, <3>3 DEF Base, TypeInv, JobInv
  <2>8. Min(loop.reads) \in DOMAIN channels => channels[Min(loop.reads)] = c
    BY <1>1, ReadMoves
  <2> QED
    BY <1>7, <2>6, <2>7, <2>8 DEF Ready
<1>9. ASSUME NEW kind, HasAll(c, kind) PROVE Base'
  <2>1. kind \in Messages /\ chan[c].inbox \in {"none", "part"} /\ Ready(c, kind)
    BY <1>9 DEF HasAll, Messages
  <2>2. PICK s \in Seq(Units) : /\ up' = [up EXCEPT ![c] = s]
                                /\ Framed(s, FALSE, client[c] \in Whole)
    BY <1>2, <1>3, <1>9 DEF HasAll
  <2> QED
    BY <1>7, <2>1, <2>2
<1>10. CASE HasGarbage(c)
  <2>1. "garbage" \in Messages /\ chan[c].inbox \in {"none", "part"} /\ Ready(c, "garbage")
    BY <1>10 DEF HasGarbage, Messages
  <2>2. PICK s \in Seq(Units) : /\ up' = [up EXCEPT ![c] = s]
                                /\ Framed(s, FALSE, client[c] \in Whole)
    <3>1. CASE UNCHANGED up /\ chan[c].inbox = "part"
      <4>1. Framed(up[c], FALSE, client[c] \in Whole)
        BY <1>0, <3>1 DEF Framed
      <4> QED
        BY <1>0, <3>1, <4>1
    <3>2. CASE up[c] # <<>> /\ up' = [up EXCEPT ![c] = Tail(@)]
      BY <1>0, <1>2, <3>2
    <3>3. CASE up' = [up EXCEPT ![c] = <<"badsize">>]
      <4>1. <<"badsize">> \in Seq(Units) /\ Framed(<<"badsize">>, FALSE, client[c] \in Whole)
        BY DEF Framed, Units, RequestKinds
      <4> QED
        BY <1>0, <3>3, <4>1
    <3> QED
      BY <1>10, <3>1, <3>2, <3>3 DEF HasGarbage
  <2> QED
    BY <1>7, <2>1, <2>2
<1>11. CASE IsAstray(c)
  <2>1. PICK s \in Seq(Units) : /\ up' = [up EXCEPT ![c] = s]
                                /\ Framed(s, FALSE, client[c] \in Whole)
    <3>1. CASE UNCHANGED up
      <4>1. Framed(up[c], FALSE, client[c] \in Whole)
        BY <1>0 DEF Framed
      <4> QED
        BY <1>0, <3>1, <4>1
    <3>2. CASE up[c] # <<>> /\ up' = [up EXCEPT ![c] = Tail(@)]
      BY <1>0, <1>2, <3>2
    <3> QED
      BY <1>11, <3>1, <3>2 DEF IsAstray
  <2>2. /\ chan' \in [Conn -> Channel] /\ chan'[c].inbox = "astray"
        /\ \A d \in Conn \ {c} : chan'[d] = chan[d]
        /\ \A d \in Conn : /\ chan'[d].busy = chan[d].busy
                           /\ chan'[d].left = chan[d].left /\ chan'[d].out = chan[d].out
    <3>1. CASE chan[c].inbox = "none" /\ chan' = [chan EXCEPT ![c].inbox = "astray"]
      <4>1. SizeAlone
        BY <1>11 DEF IsAstray
      <4> QED
        BY <1>0, <3>1, <4>1 DEF Channel
    <3>2. CASE chan[c].inbox = "astray" /\ UNCHANGED chan
      BY <1>0, <3>2
    <3> QED
      BY <1>11, <3>1, <3>2 DEF IsAstray
  <2>3. \A d \in Conn : chan'[d].inbox \in Messages <=> chan[d].inbox \in Messages
    BY <1>11, <2>2 DEF IsAstray, Messages, RequestKinds
  <2>4. \A d \in Conn : StreamFramed(d)'
    <3>1. Framed(s, chan'[c].inbox = "part", client[c] \in Whole)
      BY <2>1, <2>2 DEF Framed
    <3> QED
      BY <1>4, <2>1, <2>2, <3>1
  <2>5. UNCHANGED <<jobs, crash>>
    BY <1>11 DEF IsAstray
  <2>6. JobInv'
    BY <1>0, <2>2, <2>3, <2>5, JobsSame DEF Base, JobInv, HeldRight
  <2>7. TypeOK' /\ LoopStands' /\ KnownOnly' /\ NotYet' /\ MapInv' /\ WatchInv'
    BY <1>0, <1>1, <2>1, <2>2, <2>5, ReadKeeps
  <2> QED
    BY <2>4, <2>6, <2>7 DEF Base, TypeInv
<1> QED
  BY <1>5, <1>6, <1>9, <1>10, <1>11

-----------------------------------------------------------------------------
(* Steps of the loop thread: a Channel is closed and dropped *)

LEMMA OwnKept ==
  ASSUME Base, UNCHANGED <<snap, channels, deleted, jobs, stop, executed, crash>>,
         loop' \in LoopType, chan' \in [Conn -> Channel], work' \in [Workers -> WorkType],
         main' \in MainType
  PROVE  OwnTypes'
BY TypeParts DEF Base, TypeInv, OwnTypes

LEMMA ManagerSame ==
  ASSUME Base, UNCHANGED pollVars
  PROVE  Manager!Inv' /\ readSet' = readSet /\ writeSet' \subseteq Fd
BY DEF Base, WatchInv, Manager!Inv, Manager!TypeOK, Manager!Mirrored,
       Manager!HighestCoversSets, pollVars

\* close() of a Channel, by the loop thread or by stop().
LEMMA CloseChanFacts ==
  ASSUME Base, NEW c \in Conn, CloseChan(c), UNCHANGED clientVars
  PROVE  /\ WireTypeOK' /\ chan' \in [Conn -> Channel]
         /\ UNCHANGED <<fdOf, appFd, up, down, client, calls, acked, denied>>
         /\ \A d \in Conn : /\ chan'[d].inbox = chan[d].inbox /\ chan'[d].busy = chan[d].busy
                            /\ chan'[d].left = chan[d].left /\ chan'[d].out = chan[d].out
                            /\ chan'[d].locked = chan[d].locked
<1>1. WireTypeOK' /\ UNCHANGED <<fdOf, appFd, up, down, client, calls, acked, denied>>
  BY Types, CloseFdType DEF CloseChan, CloseFd, clientVars
<1>2. chan \in [Conn -> Channel] /\ chan' = [chan EXCEPT ![c].alive = FALSE]
  BY Types DEF CloseChan
<1> QED
  BY <1>1, <1>2 DEF Channel

\* Before a step: what Settles asks of the parts the step leaves alone.
LEMMA StandStill ==
  ASSUME Base
  PROVE  /\ \A w \in Workers :
              /\ work[w].pc \in {"notify", "handle"} => work[w].held \in Messages
              /\ work[w].pc = "lock" => work[w].held \in Frames
         /\ \A c \in Conn : chan[c].left > 0 => chan[c].out \in Frames
         /\ main.pc = "close" => main.chan \in Conn
         /\ loop.pc \in AtChannel =>
              /\ Known(loop.chan) /\ loop.chan \in Conn /\ loop.chan \notin deleted
              /\ loop.reads # {} /\ Min(loop.reads) \in Fd
              /\ Min(loop.reads) \in DOMAIN channels => channels[Min(loop.reads)] = loop.chan
BY DEF Base, TypeInv, JobInv, HeldRight, KnownOnly, Known, LoopStands, MapInv

LEMMA CloseChannelBase ==
  ASSUME Base, crash = "no", CloseChannel
  PROVE  Base'
<1>1. CASE Min(loop.reads) \notin DOMAIN channels
  BY <1>1, CrashBase DEF CloseChannel, Crashes
<1>2. CASE Min(loop.reads) \in DOMAIN channels
  <2>0. /\ loop.pc = "close" /\ CloseChan(loop.chan) /\ loop' = [loop EXCEPT !.pc = "unwatch"]
        /\ UNCHANGED <<pollVars, snap, channels, deleted, jobs, work, executed, main, stop,
                       crash, clientVars>>
    BY <1>2 DEF CloseChannel, LoopGoes, poolVars, mainVars
  <2>1. loop \in LoopType /\ loop.chan \in Conn /\ work \in [Workers -> WorkType] /\ main \in MainType
    BY <2>0, Types, StandStill DEF AtChannel
  <2>2. /\ loop' \in LoopType /\ loop'.pc = "unwatch" /\ loop'.chan = loop.chan
        /\ loop'.reads = loop.reads /\ loop'.accepted = loop.accepted
    BY <2>0, <2>1 DEF LoopType, LoopPcs
  <2>3. OwnTypes'
    BY <2>0, <2>1, <2>2, CloseChanFacts, OwnKept
  <2>4. LoopStands'
    BY <2>0, <2>2 DEF Base, TypeInv, LoopStands, AtChannel
  <2>5. Manager!Inv' /\ readSet' = readSet /\ writeSet' \subseteq Fd
    BY <2>0, ManagerSame
  <2>6. Settles
    BY <2>0, <2>1, <2>2, <2>3, <2>4, <2>5, StandStill, CloseChanFacts DEF Settles, AtChannel
  <2> QED
    BY <2>6, BaseSettled
<1> QED
  BY <1>1, <1>2

LEMMA UnwatchReadBase ==
  ASSUME Base, crash = "no", UnwatchRead
  PROVE  Base'
<1> DEFINE f == Min(loop.reads)
<1>0. /\ loop.pc = "unwatch" /\ Poll!Unwatch(f, "READ") /\ loop' = [loop EXCEPT !.pc = "drop"]
      /\ UNCHANGED <<wireVars, snap, OwnRest>> /\ f \in Fd /\ loop \in LoopType
  BY Types, StandStill DEF UnwatchRead, LoopGoes, chanVars, poolVars, mainVars, OwnRest, AtChannel
<1>1. /\ loop' \in LoopType /\ loop'.pc = "drop" /\ loop'.chan = loop.chan
      /\ loop'.reads = loop.reads /\ loop'.accepted = loop.accepted
  BY <1>0 DEF LoopType, LoopPcs
<1>2. Manager!Inv' /\ readSet' = readSet \ {f} /\ writeSet' = writeSet
  <2>1. Manager!Inv'
    BY <1>0, Watched DEF Base, WatchInv
  <2> QED
    BY <1>0, <2>1 DEF Poll!Unwatch
<1>3. WatchInv'
  BY <1>0, <1>1, <1>2, FdFacts DEF Base, WatchInv
<1> HIDE DEF f
<1>4. TypeOK'
  <2>1. WireTypeOK' /\ Poll!TypeOK'
    BY <1>0, <1>2, WireSame, WatchedType, Types
  <2>2. OwnTypes'
    BY <1>0, <1>1, OwnKept, Types DEF OwnRest
  <2> QED
    BY <2>1, <2>2, TypeParts
<1>5. LoopStands' /\ KnownOnly' /\ NotYet' /\ MapInv'
  BY <1>0, <1>1 DEF Base, TypeInv, LoopStands, KnownOnly, Known, NotYet, MapInv, OwnRest,
                    wireVars, clientVars, fdVars, AtChannel
<1>6. \A c \in Conn : StreamFramed(c)'
  BY <1>0 DEF Base, TypeInv, StreamFramed, Framed, OwnRest, wireVars, clientVars
<1>7. JobInv'
  BY <1>0, JobsSame DEF Base, JobInv, HeldRight, OwnRest
<1> QED
  BY <1>3, <1>4, <1>5, <1>6, <1>7 DEF Base, TypeInv

LEMMA DropChannelBase ==
  ASSUME Base, crash = "no", DropChannel
  PROVE  Base'
<1> DEFINE f == Min(loop.reads)
<1>0. /\ loop.pc = "drop" /\ Poll!Unwatch(f, "WRITE")
      /\ loop' = [loop EXCEPT !.pc = "reads", !.reads = @ \ {f}]
      /\ UNCHANGED <<wireVars, snap, chan, jobs, work, executed, main, stop, crash>>
      /\ f \in Fd /\ loop \in LoopType
  BY Types, StandStill DEF DropChannel, NextOne, poolVars, mainVars, AtChannel
<1>1. /\ deleted' = deleted \cup {channels[g] : g \in {f} \cap DOMAIN channels}
      /\ channels' = [g \in DOMAIN channels \ {f} |-> channels[g]]
  BY DEF DropChannel
<1>2. /\ DOMAIN channels' = DOMAIN channels \ {f}
      /\ \A g \in DOMAIN channels \ {f} : channels'[g] = channels[g]
      /\ \A c : c \in deleted' <=> c \in deleted \/ (f \in DOMAIN channels /\ c = channels[f])
  BY <1>1
<1>3. /\ loop' \in LoopType /\ loop'.pc = "reads" /\ loop'.accepted = loop.accepted
      /\ loop'.reads = loop.reads \ {f}
  BY <1>0 DEF LoopType, LoopPcs
<1>4. WatchInv'
  <2>1. Manager!Inv'
    BY <1>0, Watched DEF Base, WatchInv
  <2> QED
    BY <1>0, <1>3, <2>1, FdFacts DEF Base, WatchInv, Poll!Unwatch
<1> HIDE DEF f
<1>5. TypeOK'
  <2>1. WireTypeOK' /\ Poll!TypeOK'
    BY <1>0, <1>4, WireSame, WatchedType, Types DEF WatchInv
  <2>2. OwnTypes'
    BY <1>0, <1>2, <1>3, TypeParts DEF Base, TypeInv, OwnTypes
  <2> QED
    BY <2>1, <2>2, TypeParts
<1>6. LoopStands' /\ NotYet'
  BY <1>0, <1>3 DEF Base, TypeInv, LoopStands, NotYet, AtChannel, wireVars, clientVars, fdVars
<1>7. KnownOnly'
  <2>1. \A c : Known(c)' <=> Known(c)
    BY <1>0, <1>3 DEF Known, wireVars, fdVars
  <2>2. loop'.pc \notin AtChannel
    BY <1>3 DEF AtChannel
  <2> QED
    BY <1>0, <1>2, <2>1, <2>2 DEF Base, TypeInv, KnownOnly
<1>8. MapInv'
  <2>1. \A c \in deleted' : c <= loop'.accepted
    BY <1>2, <1>3 DEF Base, MapInv, TypeInv, KnownOnly, Known
  <2>2. \A g \in DOMAIN channels' : channels'[g] \notin deleted'
    BY <1>2 DEF Base, MapInv
  <2>3. \A g, h \in DOMAIN channels' : channels'[g] = channels'[h] => g = h
    BY <1>2 DEF Base, MapInv
  <2> QED
    BY <1>3, <2>1, <2>2, <2>3 DEF MapInv, AtChannel
<1>9. \A c \in Conn : StreamFramed(c)'
  BY <1>0 DEF Base, TypeInv, StreamFramed, Framed, wireVars, clientVars
<1>10. JobInv'
  BY <1>0, JobsSame DEF Base, JobInv, HeldRight
<1> QED
  BY <1>4, <1>5, <1>6, <1>7, <1>8, <1>9, <1>10 DEF Base, TypeInv

-----------------------------------------------------------------------------
(* Steps of the loop thread and of the workers: Channel::write() *)

LEMMA WriteChunkFacts ==
  ASSUME WireTypeOK, chan \in [Conn -> Channel], NEW c \in Conn,
         chan[c].left > 0 => chan[c].out \in Frames, WriteChunk(c), UNCHANGED fdVars
  PROVE  /\ WireTypeOK' /\ chan' \in [Conn -> Channel]
         /\ UNCHANGED <<up, calls, acked, denied>>
         /\ \A d \in Conn : /\ chan'[d].inbox = chan[d].inbox /\ chan'[d].busy = chan[d].busy
                            /\ chan'[d].out = chan[d].out
                            /\ chan'[d].left > 0 => chan[d].left > 0
                            /\ \/ client'[d] = client[d]
                               \/ client[d] = "closed" /\ client'[d] = "reset"
<1>1. /\ chan' = [chan EXCEPT ![c].left = IF LastChunk(c) THEN 0 ELSE @ - 1,
                              ![c].locked = @ /\ ~LastChunk(c)]
      /\ chan[c].left \in 0 .. MaxChunks /\ chan[c].locked \in BOOLEAN
  BY DEF WriteChunk, Channel
<1>2. /\ chan' \in [Conn -> Channel]
      /\ \A d \in Conn : /\ chan'[d].inbox = chan[d].inbox /\ chan'[d].busy = chan[d].busy
                         /\ chan'[d].out = chan[d].out
                         /\ chan'[d].left > 0 => chan[d].left > 0
  <2>1. PICK n : n = IF LastChunk(c) THEN 0 ELSE chan[c].left - 1
    OBVIOUS
  <2>2. PICK b \in BOOLEAN : b <=> chan[c].locked /\ ~LastChunk(c)
    OBVIOUS
  <2>3. n \in 0 .. MaxChunks /\ (n > 0 => chan[c].left > 0)
    BY <1>1, <2>1, PollServerAssumption DEF LastChunk
  <2>4. chan'[c] = [chan[c] EXCEPT !.left = n, !.locked = b]
    BY <1>1, <2>1, <2>2
  <2>5. /\ chan'[c] \in Channel /\ chan'[c].inbox = chan[c].inbox
        /\ chan'[c].busy = chan[c].busy /\ chan'[c].out = chan[c].out /\ chan'[c].left = n
    BY <2>3, <2>4 DEF Channel
  <2>6. \A d \in Conn \ {c} : chan'[d] = chan[d] /\ chan[d] \in Channel
    BY <1>1
  <2>7. chan' \in [Conn -> Channel]
    BY <1>1, <2>5, <2>6
  <2> QED
    BY <2>3, <2>5, <2>6, <2>7
<1>3. CASE UNCHANGED clientVars
  BY <1>2, <1>3, WireSame DEF clientVars, wireVars
<1>4. CASE chan[c].left # 0 /\ Write(c, chan[c].out)
  <2>1. chan[c].out \in Frames
    BY <1>1, <1>4
  <2> QED
    BY <1>2, <1>4, <2>1, WriteType DEF Write, WireTypeOK
<1>5. CASE /\ client' = [client EXCEPT ![c] = IF @ = "closed" THEN "reset" ELSE @]
           /\ UNCHANGED <<up, down, calls, acked, denied>>
  BY <1>2, <1>5 DEF WireTypeOK, ClientStates, fdVars
<1> QED
  BY <1>3, <1>4, <1>5 DEF WriteChunk

LEMMA WriteMoreBase ==
  ASSUME Base, crash = "no", WriteMore
  PROVE  Base'
<1> DEFINE f == Min(loop.writes)
<1>0. /\ loop.pc = "writes" /\ loop.writes # {} /\ loop \in LoopType
      /\ UNCHANGED <<pollVars, snap, channels, deleted, jobs, work, executed, main, stop, fdVars>>
  BY Types DEF WriteMore, poolVars, mainVars
<1> HIDE DEF f
<1>1. CASE UNCHANGED <<loop, chan, clientVars>> /\ crash' \in {"write", "stray"}
  <2>1. Crash(crash')
    BY <1>0, <1>1 DEF Crash, loopVars, chanVars, poolVars, mainVars, wireVars
  <2> QED
    BY <1>1, <2>1, CrashBase DEF Crashes
<1>2. CASE ~(UNCHANGED <<loop, chan, clientVars>> /\ crash' \in {"write", "stray"})
  <2>1. \/ WriteNextOne /\ UNCHANGED <<chan, crash, clientVars>>
        \/ /\ f \in DOMAIN channels /\ WriteChunk(channels[f]) /\ UNCHANGED crash
           /\ LoopGoes("written") \/ WriteNextOne
    BY <1>2 DEF WriteMore, HowItCrashes, f
  <2>2. \A c \in Conn : chan[c].left > 0 => chan[c].out \in Frames
    BY StandStill
  <2>3. /\ WireTypeOK' /\ chan' \in [Conn -> Channel] /\ UNCHANGED up
        /\ \A d \in Conn : /\ chan'[d].inbox = chan[d].inbox /\ chan'[d].busy = chan[d].busy
                           /\ chan'[d].out = chan[d].out
                           /\ chan'[d].left > 0 => chan[d].left > 0
                           /\ \/ client'[d] = client[d]
                              \/ client[d] = "closed" /\ client'[d] = "reset"
    <3>1. CASE UNCHANGED <<chan, clientVars>>
      BY <1>0, <3>1, Types, WireSame DEF wireVars, clientVars
    <3>2. CASE f \in DOMAIN channels /\ WriteChunk(channels[f])
      <4>1. channels[f] \in Conn
        BY <3>2 DEF Base, TypeInv, TypeOK, PollTypeOK
      <4> QED
        BY <1>0, <2>2, <3>2, <4>1, Types, WriteChunkFacts
    <3> QED
      BY <2>1, <3>1, <3>2
  <2>4. /\ loop' \in LoopType /\ loop'.accepted = loop.accepted /\ loop'.reads = loop.reads
        /\ loop'.pc \in {"writes", "written"}
        /\ loop'.pc = "written" => loop'.writes # {}
    <3>1. CASE loop' = [loop EXCEPT !.pc = "written"]
      BY <1>0, <3>1 DEF LoopType, LoopPcs
    <3>2. CASE WriteNextOne
      BY <1>0, <3>2 DEF WriteNextOne, LoopType, LoopPcs
    <3> QED
      BY <2>1, <3>1, <3>2 DEF LoopGoes
  <2>5. OwnTypes'
    BY <1>0, <2>1, <2>3, <2>4, OwnKept, Types
  <2>6. LoopStands'
    BY <2>4 DEF Base, TypeInv, LoopStands, AtChannel
  <2>7. Manager!Inv' /\ readSet' = readSet /\ writeSet' \subseteq Fd
    BY <1>0, ManagerSame
  <2>8. /\ UNCHANGED fdOf
        /\ \A d \in Conn : /\ client'[d] \in Whole => client[d] \in Whole
                           /\ client[d] = "none" => client'[d] = "none"
    BY <1>0, <2>3 DEF fdVars, Whole
  <2>9. Settles
    BY <1>0, <2>2, <2>3, <2>4, <2>5, <2>6, <2>7, <2>8, StandStill DEF Settles, AtChannel
  <2> QED
    BY <2>9, BaseSettled
<1> QED
  BY <1>1, <1>2

LEMMA UnwatchWriteBase ==
  ASSUME Base, crash = "no", UnwatchWrite
  PROVE  Base'
<1> DEFINE f == Min(loop.writes)
<1>0. /\ loop.pc = "written" /\ loop.writes # {} /\ loop \in LoopType
      /\ Poll!Unwatch(f, "WRITE") /\ loop' = [loop EXCEPT !.pc = "writes", !.writes = @ \ {f}]
      /\ UNCHANGED <<wireVars, snap, OwnRest>>
  BY Types DEF UnwatchWrite, Base, TypeInv, LoopStands, chanVars, poolVars, mainVars, OwnRest
<1>1. f \in Fd
  <2>1. f \in loop.writes /\ loop.writes \subseteq Fd
    BY <1>0, MinIn DEF LoopType
  <2> QED
    BY <2>1
<1>2. /\ loop' \in LoopType /\ loop'.pc = "writes" /\ loop'.accepted = loop.accepted
      /\ loop'.reads = loop.reads
  BY <1>0 DEF LoopType, LoopPcs
<1>3. Manager!Inv' /\ readSet' = readSet /\ writeSet' \subseteq Fd
  <2>1. Manager!Inv'
    BY <1>0, <1>1, Watched DEF Base, WatchInv
  <2> QED
    BY <1>0, <2>1 DEF Poll!Unwatch, Base, WatchInv
<1> HIDE DEF f
<1>4. OwnTypes' /\ WireTypeOK'
  BY <1>0, <1>2, OwnKept, Types, WireSame DEF OwnRest
<1>5. LoopStands'
  BY <1>2 DEF Base, TypeInv, LoopStands, AtChannel
<1>6. Settles
  BY <1>0, <1>2, <1>3, <1>4, <1>5, StandStill
     DEF Settles, AtChannel, OwnRest, wireVars, clientVars, fdVars
<1> QED
  BY <1>6, BaseSettled

-----------------------------------------------------------------------------
(* Steps of the workers *)

\* A worker that is not idle has the Channel of a connection in hand.
LEMMA WorkerHas ==
  ASSUME Base, NEW w \in Workers, work[w].pc # "idle"
  PROVE  /\ work \in [Workers -> WorkType] /\ Known(work[w].chan)
         /\ work[w].chan \in Conn /\ fdOf[work[w].chan] \in Fd
BY Types DEF Base, TypeInv, KnownOnly, Known

\* What WorkGoes does.
LEMMA WorkMoves ==
  ASSUME Base, NEW w \in Workers, NEW pc \in WorkPcs,
         NEW held \in {"nothing"} \cup Messages \cup Frames, WorkGoes(w, pc, held)
  PROVE  /\ work' \in [Workers -> WorkType]
         /\ work'[w].pc = pc /\ work'[w].held = held /\ work'[w].chan = work[w].chan
         /\ \A v \in Workers \ {w} : work'[v] = work[v]
<1>1. work \in [Workers -> WorkType]
      /\ work' = [work EXCEPT ![w].pc = pc, ![w].held = held]
  BY Types DEF WorkGoes
<1>2. work'[w] = [work[w] EXCEPT !.pc = pc, !.held = held]
  BY <1>1
<1>3. /\ work'[w] \in WorkType
      /\ work'[w].pc = pc /\ work'[w].held = held /\ work'[w].chan = work[w].chan
  <2>1. PICK r \in WorkType : r = work[w]
    BY <1>1
  <2>2. work'[w] = [r EXCEPT !.pc = pc, !.held = held]
    BY <1>2, <2>1
  <2> QED
    BY <2>1, <2>2 DEF WorkType
<1>4. \A v \in Workers \ {w} : work'[v] = work[v]
  BY <1>1
<1> QED
  BY <1>1, <1>3, <1>4

\* A worker goes on, leaving the sets, the queue and the map as they are.
LEMMA WorkerSettles ==
  ASSUME Base, crash = "no", NEW w \in Workers, NEW pc \in WorkPcs \ {"get"},
         NEW held \in {"nothing"} \cup Messages \cup Frames, WorkGoes(w, pc, held),
         work[w].pc \notin {"idle", "get"},
         pc \in {"notify", "handle"} => held \in Messages, pc = "lock" => held \in Frames,
         WireTypeOK', OwnTypes', Manager!Inv', readSet' = readSet, writeSet' \subseteq Fd,
         UNCHANGED <<fdOf, up, channels, deleted, jobs, main>>,
         loop'.accepted = loop.accepted, loop'.chan = loop.chan, loop'.reads = loop.reads,
         loop'.writes = loop.writes,
         loop'.pc = loop.pc \/ (loop.pc = "waiting" /\ loop'.pc = "check"),
         \A c \in Conn :
           /\ client'[c] = client[c] \/ (client[c] = "closed" /\ client'[c] = "reset")
           /\ chan'[c].inbox = chan[c].inbox /\ chan'[c].busy = chan[c].busy
           /\ chan'[c].left > 0 => chan'[c].out \in Frames
  PROVE  Base'
<1>1. LoopStands'
  BY DEF Base, TypeInv, LoopStands, AtChannel
<1>2. \A v \in Workers :
        /\ work'[v].pc # "idle" => work[v].pc # "idle" /\ work'[v].chan = work[v].chan
        /\ work'[v].pc = "get" <=> work[v].pc = "get"
        /\ work'[v].pc \in {"notify", "handle"} => work'[v].held \in Messages
        /\ work'[v].pc = "lock" => work'[v].held \in Frames
  BY WorkMoves, StandStill
<1>3. \A c \in Conn : /\ client'[c] \in Whole => client[c] \in Whole
                      /\ client[c] = "none" => client'[c] = "none"
  BY DEF Whole
<1>4. /\ loop'.pc \in AtChannel =>
           loop.pc \in AtChannel /\ loop'.chan = loop.chan /\ loop'.reads = loop.reads
      /\ loop'.pc = "drop" => loop.pc = "drop"
  BY DEF AtChannel
<1>5. Settles
  BY <1>1, <1>2, <1>3, <1>4, StandStill DEF Settles
<1> QED
  BY <1>5, BaseSettled

LEMMA NotifyBase ==
  ASSUME Base, crash = "no", NEW w \in Workers, Notify(w)
  PROVE  Base'
<1>1. CASE work[w].chan \in deleted
  BY <1>1, CrashBase DEF Notify, Touches, Crashes
<1>2. CASE work[w].chan \notin deleted
  <2>0. /\ work[w].pc = "notify" /\ WorkGoes(w, "handle", work[w].held)
        /\ loop' = loop \/ (loop.pc = "waiting" /\ loop' = [loop EXCEPT !.pc = "check"])
        /\ UNCHANGED <<pollVars, snap, channels, chan, deleted, jobs, executed, main, stop,
                       crash, wireVars>>
    BY <1>2 DEF Notify, Touches, chanVars, mainVars
  <2>1. work[w].held \in Messages /\ "handle" \in WorkPcs
    BY <2>0, StandStill DEF WorkPcs
  <2>2. work' \in [Workers -> WorkType]
    BY <2>0, <2>1, WorkMoves
  <2>3. /\ loop' \in LoopType /\ loop'.accepted = loop.accepted /\ loop'.chan = loop.chan
        /\ loop'.reads = loop.reads /\ loop'.writes = loop.writes
        /\ loop'.pc = loop.pc \/ (loop.pc = "waiting" /\ loop'.pc = "check")
    BY <2>0, Types DEF LoopType, LoopPcs
  <2>4. OwnTypes' /\ WireTypeOK'
    BY <2>0, <2>2, <2>3, OwnKept, Types, WireSame
  <2>5. Manager!Inv' /\ readSet' = readSet /\ writeSet' \subseteq Fd
    BY <2>0, ManagerSame
  <2>6. UNCHANGED <<fdOf, up, client>>
    BY <2>0 DEF wireVars, clientVars, fdVars
  <2> QED
    BY <2>0, <2>1, <2>3, <2>4, <2>5, <2>6, WorkerSettles, StandStill
<1> QED
  BY <1>1, <1>2

LEMMA HandleBase ==
  ASSUME Base, crash = "no", NEW w \in Workers, Handle(w)
  PROVE  Base'
<1>0. /\ work[w].pc = "handle"
      /\ UNCHANGED <<pollVars, loopVars, chanVars, jobs, mainVars, crash, wireVars>>
  BY DEF Handle
<1>1. work[w].chan \in Conn
  BY <1>0, WorkerHas
<1>2. PICK held \in Frames : WorkGoes(w, "lock", held)
  BY <1>0 DEF Handle, Frames, ErrorCodes, ErrorOf
<1>3. executed' \in [Conn -> Nat]
  <2>1. executed' = executed \/ executed' = [executed EXCEPT ![work[w].chan] = @ + 1]
    BY DEF Handle
  <2> QED
    BY <1>1, <2>1, Types
<1>4. work' \in [Workers -> WorkType]
  BY <1>2, WorkMoves DEF WorkPcs
<1>5. OwnTypes' /\ WireTypeOK'
  BY <1>0, <1>3, <1>4, TypeParts, Types, WireSame
     DEF Base, TypeInv, OwnTypes, loopVars, chanVars, mainVars
<1>6. Manager!Inv' /\ readSet' = readSet /\ writeSet' \subseteq Fd
  BY <1>0, ManagerSame
<1>7. UNCHANGED <<fdOf, up, client, channels, chan, deleted, main, loop>>
  BY <1>0 DEF wireVars, clientVars, fdVars, loopVars, chanVars, mainVars
<1> QED
  BY <1>0, <1>2, <1>5, <1>6, <1>7, WorkerSettles, StandStill DEF WorkPcs

\* The same of a message that is none.
LEMMA HandleGarbageBase ==
  ASSUME Base, crash = "no", NEW w \in Workers, HandleGarbage(w)
  PROVE  Base'
<1>0. /\ work[w].pc = "handle"
      /\ UNCHANGED <<pollVars, loopVars, chanVars, jobs, mainVars, crash, wireVars>>
  BY DEF HandleGarbage
<1>1. work[w].chan \in Conn
  BY <1>0, WorkerHas
<1>2. PICK held \in Frames :
        /\ WorkGoes(w, "lock", held)
        /\ executed' = [executed EXCEPT ![work[w].chan] = IF held = "result" THEN @ + 1 ELSE @]
  BY DEF HandleGarbage, Frames, ErrorCodes, ErrorOf
<1>3. executed' \in [Conn -> Nat]
  BY <1>1, <1>2, Types
<1>4. work' \in [Workers -> WorkType]
  BY <1>2, WorkMoves DEF WorkPcs
<1>5. OwnTypes' /\ WireTypeOK'
  BY <1>0, <1>3, <1>4, TypeParts, Types, WireSame
     DEF Base, TypeInv, OwnTypes, loopVars, chanVars, mainVars
<1>6. Manager!Inv' /\ readSet' = readSet /\ writeSet' \subseteq Fd
  BY <1>0, ManagerSame
<1>7. UNCHANGED <<fdOf, up, client, channels, chan, deleted, main, loop>>
  BY <1>0 DEF wireVars, clientVars, fdVars, loopVars, chanVars, mainVars
<1> QED
  BY <1>0, <1>2, <1>5, <1>6, <1>7, WorkerSettles, StandStill DEF WorkPcs

LEMMA LockBase ==
  ASSUME Base, crash = "no", NEW w \in Workers, Lock(w)
  PROVE  Base'
<1>1. CASE work[w].chan \in deleted
  BY <1>1, CrashBase DEF Lock, Touches, Crashes
<1>2. CASE work[w].chan \notin deleted
  <2> DEFINE c == work[w].chan
  <2>0. /\ work[w].pc = "lock" /\ c \in Conn /\ chan \in [Conn -> Channel]
        /\ work[w].held \in Frames
        /\ UNCHANGED <<pollVars, loopVars, channels, deleted, jobs, executed, mainVars, crash,
                       wireVars>>
    BY <1>2, WorkerHas, Types, StandStill DEF Lock, Touches
  <2>1. \/ /\ WorkGoes(w, "write", "nothing")
           /\ \E n \in 1 .. MaxChunks :
                chan' = [chan EXCEPT ![c].locked = TRUE, ![c].out = work[w].held, ![c].left = n]
        \/ WorkGoes(w, "idle", "nothing") /\ UNCHANGED chan
    BY <1>2 DEF Lock, Touches
  <2>2. PICK pc \in {"write", "idle"} : WorkGoes(w, pc, "nothing")
    BY <2>1
  <2> HIDE DEF c
  <2>3. /\ chan' \in [Conn -> Channel]
        /\ \A d \in Conn : /\ chan'[d].inbox = chan[d].inbox /\ chan'[d].busy = chan[d].busy
                           /\ chan'[d].left > 0 => chan'[d].out \in Frames
    <3>1. CASE UNCHANGED chan
      BY <2>0, <3>1, StandStill
    <3>2. ASSUME NEW n \in 1 .. MaxChunks,
                 chan' = [chan EXCEPT ![c].locked = TRUE, ![c].out = work[w].held, ![c].left = n]
          PROVE  <2>3!1 /\ <2>3!2
      <4>1. chan'[c] = [chan[c] EXCEPT !.locked = TRUE, !.out = work[w].held, !.left = n]
        BY <2>0, <3>2
      <4>5. /\ chan[c] \in Channel /\ work[w].held \in Frames /\ n \in 0 .. MaxChunks
            /\ TRUE \in BOOLEAN
        BY <2>0, PollServerAssumption
      <4>6. PICK held \in Frames : held = work[w].held
        BY <4>5
      <4>7. PICK ch \in Channel : ch = chan[c]
        BY <4>5
      <4>8. chan'[c] = [ch EXCEPT !.locked = TRUE, !.out = held, !.left = n]
        BY <4>1, <4>6, <4>7
      <4>2. /\ chan'[c] \in Channel /\ chan'[c].inbox = chan[c].inbox
            /\ chan'[c].busy = chan[c].busy /\ chan'[c].out \in Frames
        BY <4>5, <4>6, <4>7, <4>8 DEF Channel
      <4>3. \A d \in Conn \ {c} : chan'[d] = chan[d] /\ chan[d] \in Channel
        BY <2>0, <3>2
      <4>4. chan' \in [Conn -> Channel]
        BY <2>0, <3>2, <4>2, <4>3
      <4> QED
        BY <4>2, <4>3, <4>4, StandStill
    <3> QED
      BY <2>1, <3>1, <3>2
  <2>4. work' \in [Workers -> WorkType]
    BY <2>2, WorkMoves DEF WorkPcs
  <2>5. OwnTypes' /\ WireTypeOK'
    BY <2>0, <2>3, <2>4, OwnKept, Types, WireSame DEF loopVars, mainVars
  <2>6. Manager!Inv' /\ readSet' = readSet /\ writeSet' \subseteq Fd
    BY <2>0, ManagerSame
  <2>7. UNCHANGED <<fdOf, up, client, channels, deleted, main, loop>>
    BY <2>0 DEF wireVars, clientVars, fdVars, loopVars, mainVars
  <2> QED
    BY <2>0, <2>2, <2>3, <2>5, <2>6, <2>7, WorkerSettles DEF WorkPcs
<1> QED
  BY <1>1, <1>2

LEMMA WriteFirstBase ==
  ASSUME Base, crash = "no", NEW w \in Workers, WriteFirst(w)
  PROVE  Base'
<1>1. CASE work[w].chan \in deleted \/ WriteCrashes(work[w].chan)
  <2>1. \E how \in Crashes \ {"no"} : Crash(how)
    BY <1>1 DEF WriteFirst, Touches, HowItCrashes, Crashes
  <2> QED
    BY <2>1, CrashBase
<1>2. CASE ~(work[w].chan \in deleted \/ WriteCrashes(work[w].chan))
  <2>0. /\ work[w].pc = "write" /\ work[w].chan \in Conn
        /\ WriteChunk(work[w].chan)
        /\ UNCHANGED <<pollVars, loopVars, channels, deleted, jobs, executed, mainVars, crash,
                       fdVars>>
    BY <1>2, WorkerHas DEF WriteFirst, Touches
  <2>1. PICK pc \in {"unlock", "watch"} : WorkGoes(w, pc, "nothing")
    BY <1>2 DEF WriteFirst, Touches
  <2>2. \A c \in Conn : chan[c].left > 0 => chan[c].out \in Frames
    BY StandStill
  <2>3. /\ WireTypeOK' /\ chan' \in [Conn -> Channel] /\ UNCHANGED up
        /\ \A d \in Conn : /\ chan'[d].inbox = chan[d].inbox /\ chan'[d].busy = chan[d].busy
                           /\ chan'[d].left > 0 => chan'[d].out \in Frames
                           /\ \/ client'[d] = client[d]
                              \/ client[d] = "closed" /\ client'[d] = "reset"
    BY <2>0, <2>2, Types, WriteChunkFacts
  <2>4. work' \in [Workers -> WorkType]
    BY <2>1, WorkMoves DEF WorkPcs
  <2>5. OwnTypes'
    BY <2>0, <2>3, <2>4, OwnKept, Types DEF loopVars, mainVars
  <2>6. Manager!Inv' /\ readSet' = readSet /\ writeSet' \subseteq Fd
    BY <2>0, ManagerSame
  <2>7. UNCHANGED <<fdOf, channels, deleted, main, loop>>
    BY <2>0 DEF fdVars, loopVars, mainVars
  <2> QED
    BY <2>0, <2>1, <2>3, <2>5, <2>6, <2>7, WorkerSettles DEF WorkPcs
<1> QED
  BY <1>1, <1>2

LEMMA WatchWriteBase ==
  ASSUME Base, crash = "no", NEW w \in Workers, WatchWrite(w)
  PROVE  Base'
<1>1. CASE work[w].chan \in deleted
  BY <1>1, CrashBase DEF WatchWrite, Touches, Crashes
<1>2. CASE work[w].chan \notin deleted
  <2>0. /\ work[w].pc = "watch" /\ fdOf[work[w].chan] \in Fd
        /\ Poll!Watch(fdOf[work[w].chan], "WRITE") /\ WorkGoes(w, "idle", "nothing")
        /\ UNCHANGED <<loopVars, chanVars, jobs, executed, mainVars, crash, wireVars>>
    BY <1>2, WorkerHas DEF WatchWrite, Touches
  <2>1. Manager!Inv' /\ readSet' = readSet /\ writeSet' \subseteq Fd
    <3>1. Manager!Inv'
      BY <2>0, Watched DEF Base, WatchInv
    <3> QED
      BY <2>0, <3>1 DEF Poll!Watch, Base, WatchInv
  <2>2. work' \in [Workers -> WorkType]
    BY <2>0, WorkMoves DEF WorkPcs
  <2>3. OwnTypes' /\ WireTypeOK'
    BY <2>0, <2>2, OwnKept, Types, WireSame DEF loopVars, chanVars, mainVars
  <2>4. UNCHANGED <<fdOf, up, client, channels, chan, deleted, main, loop>>
    BY <2>0 DEF wireVars, clientVars, fdVars, loopVars, chanVars, mainVars
  <2> QED
    BY <2>0, <2>1, <2>3, <2>4, WorkerSettles, StandStill DEF WorkPcs
<1> QED
  BY <1>1, <1>2

LEMMA UnlockBase ==
  ASSUME Base, crash = "no", NEW w \in Workers, Unlock(w)
  PROVE  Base'
<1>1. CASE work[w].chan \in deleted
  BY <1>1, CrashBase DEF Unlock, Touches, Crashes
<1>2. CASE work[w].chan \notin deleted
  <2>0. /\ work[w].pc = "unlock" /\ WorkGoes(w, "idle", "nothing")
        /\ chan' = [chan EXCEPT ![work[w].chan].locked = FALSE]
        /\ UNCHANGED <<pollVars, loopVars, channels, deleted, jobs, executed, mainVars, crash,
                       wireVars>>
    BY <1>2 DEF Unlock, Touches
  <2>1. /\ chan' \in [Conn -> Channel]
        /\ \A d \in Conn : /\ chan'[d].inbox = chan[d].inbox /\ chan'[d].busy = chan[d].busy
                           /\ chan'[d].left = chan[d].left /\ chan'[d].out = chan[d].out
    BY <2>0, Types DEF Channel
  <2>2. work' \in [Workers -> WorkType]
    BY <2>0, WorkMoves DEF WorkPcs
  <2>3. OwnTypes' /\ WireTypeOK'
    BY <2>0, <2>1, <2>2, OwnKept, Types, WireSame DEF loopVars, mainVars
  <2>4. Manager!Inv' /\ readSet' = readSet /\ writeSet' \subseteq Fd
    BY <2>0, ManagerSame
  <2>5. UNCHANGED <<fdOf, up, client, channels, deleted, main, loop>>
    BY <2>0 DEF wireVars, clientVars, fdVars, loopVars, mainVars
  <2> QED
    BY <2>0, <2>1, <2>3, <2>4, <2>5, WorkerSettles, StandStill DEF WorkPcs
<1> QED
  BY <1>1, <1>2

\* The first job goes from the queue to a worker.
LEMMA TakeBase ==
  ASSUME Base, crash = "no", NEW w \in Workers, Take(w)
  PROVE  Base'
<1>0. /\ work[w].pc = "idle" /\ jobs # <<>> /\ jobs \in Seq(Conn)
      /\ work \in [Workers -> WorkType] /\ jobs' = Tail(jobs)
      /\ work' = [work EXCEPT ![w] = [pc |-> "get", chan |-> Head(jobs), held |-> "nothing"]]
      /\ UNCHANGED <<pollVars, loopVars, chanVars, executed, mainVars, crash, wireVars>>
  BY Types DEF Take
<1>1. /\ Head(jobs) = jobs[1] /\ 1 \in DOMAIN jobs /\ jobs' \in Seq(Conn)
      /\ \A i \in DOMAIN jobs' : i + 1 \in DOMAIN jobs /\ jobs'[i] = jobs[i + 1] /\ i + 1 # 1
      /\ \A i \in DOMAIN jobs : i # 1 => \E j \in DOMAIN jobs' : jobs'[j] = jobs[i]
      /\ \A i, j \in DOMAIN jobs' : i + 1 = j + 1 => i = j
  <2>1. /\ Len(jobs) \in Nat \ {0} /\ DOMAIN jobs = 1 .. Len(jobs)
        /\ Tail(jobs) \in Seq(Conn) /\ Len(Tail(jobs)) = Len(jobs) - 1
        /\ DOMAIN Tail(jobs) = 1 .. Len(jobs) - 1
        /\ \A i \in 1 .. Len(jobs) - 1 : Tail(jobs)[i] = jobs[i + 1]
        /\ Head(jobs) = jobs[1]
    BY <1>0
  <2>2. \A i \in DOMAIN jobs : i # 1 => i - 1 \in DOMAIN Tail(jobs) /\ Tail(jobs)[i - 1] = jobs[i]
    BY <2>1
  <2>3. \A i \in DOMAIN jobs' : i + 1 \in DOMAIN jobs /\ jobs'[i] = jobs[i + 1] /\ i + 1 # 1
    BY <1>0, <2>1
  <2>4. \A i \in DOMAIN jobs : i # 1 => \E j \in DOMAIN jobs' : jobs'[j] = jobs[i]
    BY <1>0, <2>2
  <2>5. \A i, j \in DOMAIN jobs' : i + 1 = j + 1 => i = j
    BY <1>0, <2>1
  <2>6. Head(jobs) = jobs[1] /\ 1 \in DOMAIN jobs /\ jobs' \in Seq(Conn)
    BY <1>0, <2>1
  <2> QED
    BY <2>3, <2>4, <2>5, <2>6
<1>2. PICK c \in Conn : c = Head(jobs)
  BY <1>0, <1>1
<1>3. /\ work' \in [Workers -> WorkType]
      /\ work'[w].pc = "get" /\ work'[w].chan = c
      /\ \A v \in Workers \ {w} : work'[v] = work[v]
  BY <1>0, <1>2 DEF WorkType, WorkPcs
<1>4. \A v \in Workers : \A d : Getting(v, d)' <=> Getting(v, d) \/ (v = w /\ d = c)
  BY <1>0, <1>3 DEF Getting
<1>5. \A d : HasJob(d)' <=> HasJob(d)
  <2>1. ASSUME NEW d, HasJob(d) PROVE HasJob(d)'
    BY <1>1, <1>2, <1>4, <2>1 DEF HasJob
  <2>2. ASSUME NEW d, HasJob(d)' PROVE HasJob(d)
    BY <1>1, <1>2, <1>4, <2>2 DEF HasJob
  <2> QED
    BY <2>1, <2>2
<1>6. JobsOnce'
  <2>1. \A i, j \in DOMAIN jobs' : jobs'[i] = jobs'[j] => i = j
    BY <1>1 DEF Base, JobInv, JobsOnce
  <2>2. \A i \in DOMAIN jobs' : jobs'[i] # c
    BY <1>1, <1>2 DEF Base, JobInv, JobsOnce
  <2>3. \A v \in Workers : work[v].pc = "get" => work[v].chan # c
    BY <1>1, <1>2 DEF Base, JobInv, JobsOnce
  <2>4. \A v \in Workers : work'[v].pc = "get" => \A i \in DOMAIN jobs' : jobs'[i] # work'[v].chan
    BY <1>1, <1>3, <2>2 DEF Base, JobInv, JobsOnce
  <2>5. \A u, v \in Workers : work'[u].pc = "get" /\ work'[v].pc = "get"
                                /\ work'[v].chan = work'[u].chan => u = v
    BY <1>3, <2>3 DEF Base, JobInv, JobsOnce, Getting
  <2> QED
    BY <2>1, <2>4, <2>5 DEF JobsOnce, Getting
<1>7. JobsWhole'
  BY <1>0, <1>5 DEF Base, JobInv, JobsWhole, chanVars
<1>8. HeldRight'
  BY <1>0, <1>3 DEF Base, JobInv, HeldRight, chanVars
<1>9. TypeOK'
  <2>1. WireTypeOK' /\ Poll!TypeOK'
    BY <1>0, ManagerSame, WireSame, WatchedType, Types
  <2>2. OwnTypes'
    BY <1>0, <1>1, <1>3, TypeParts DEF Base, TypeInv, OwnTypes, loopVars, chanVars, mainVars
  <2> QED
    BY <2>1, <2>2, TypeParts
<1>10. LoopStands' /\ NotYet' /\ MapInv'
  BY <1>0 DEF Base, TypeInv, LoopStands, NotYet, MapInv, loopVars, chanVars, wireVars,
              clientVars, fdVars
<1>11. KnownOnly'
  <2>1. \A d : Known(d)' <=> Known(d)
    BY <1>0 DEF Known, loopVars, wireVars, fdVars
  <2>2. Known(c)
    BY <1>1, <1>2 DEF Base, TypeInv, KnownOnly
  <2> HIDE DEF Known
  <2> QED
    BY <1>0, <1>1, <1>3, <2>1, <2>2 DEF Base, TypeInv, KnownOnly, loopVars, chanVars, mainVars
<1>12. \A d \in Conn : StreamFramed(d)'
  BY <1>0 DEF Base, TypeInv, StreamFramed, Framed, chanVars, wireVars, clientVars
<1>13. WatchInv'
  BY <1>0, ManagerSame DEF Base, WatchInv, loopVars
<1> QED
  BY <1>6, <1>7, <1>8, <1>9, <1>10, <1>11, <1>12, <1>13 DEF Base, TypeInv, JobInv

\* The worker takes the message out of its Channel, and the Channel is free.
LEMMA GetMessageBase ==
  ASSUME Base, crash = "no", NEW w \in Workers, GetMessage(w)
  PROVE  Base'
<1>1. CASE work[w].chan \in deleted
  BY <1>1, CrashBase DEF GetMessage, Touches, Crashes
<1>2. CASE work[w].chan \notin deleted
  <2>0. PICK c \in Conn : c = work[w].chan
    <3>1. work[w].pc = "get"
      BY DEF GetMessage, Touches
    <3> QED
      BY <3>1, WorkerHas
  <2>1. /\ work[w].pc = "get" /\ WorkGoes(w, "notify", chan[c].inbox)
        /\ chan' = [chan EXCEPT ![c].inbox = "none", ![c].busy = FALSE]
        /\ chan \in [Conn -> Channel] /\ work \in [Workers -> WorkType]
        /\ UNCHANGED <<pollVars, loopVars, channels, deleted, jobs, executed, mainVars, crash,
                       wireVars>>
    BY <1>2, <2>0, Types DEF GetMessage, Touches
  <2>2. /\ Getting(w, c) /\ HasJob(c) /\ chan[c].inbox \in Messages
    BY <2>0, <2>1 DEF Getting, HasJob, Base, JobInv, JobsWhole
  <2>3. /\ work' \in [Workers -> WorkType] /\ work'[w].pc = "notify"
        /\ work'[w].held = chan[c].inbox /\ work'[w].chan = c
        /\ \A v \in Workers \ {w} : work'[v] = work[v]
    BY <2>0, <2>1, <2>2, WorkMoves DEF WorkPcs
  <2>4. /\ chan' \in [Conn -> Channel] /\ chan'[c].inbox = "none"
        /\ \A d \in Conn \ {c} : chan'[d] = chan[d]
        /\ \A d \in Conn : chan'[d].left = chan[d].left /\ chan'[d].out = chan[d].out
    BY <2>1 DEF Channel
  <2>5. \A v \in Workers : \A d : Getting(v, d)' <=> Getting(v, d) /\ v # w
    BY <2>3 DEF Getting
  <2>6. \A d : HasJob(d)' <=> HasJob(d) /\ d # c
    <3>1. ~HasJob(c)'
      BY <2>0, <2>1, <2>2, <2>5 DEF HasJob, Getting, Base, JobInv, JobsOnce
    <3>2. \A d : d # c => (HasJob(d)' <=> HasJob(d))
      BY <2>0, <2>1, <2>5 DEF HasJob, Getting
    <3>3. \A d : HasJob(d)' => d # c
      BY <3>1
    <3> QED
      BY <3>2, <3>3
  <2>7. JobsOnce'
    BY <2>1, <2>3, <2>5 DEF Base, JobInv, JobsOnce, Getting
  <2>8. JobsWhole'
    <3>1. chan'[c].inbox \notin Messages
      BY <2>4 DEF Messages, RequestKinds
    <3> QED
      BY <2>4, <2>6, <3>1 DEF Base, JobInv, JobsWhole
  <2>9. HeldRight'
    BY <2>2, <2>3, <2>4 DEF Base, JobInv, HeldRight
  <2>10. TypeOK'
    <3>1. WireTypeOK' /\ Poll!TypeOK'
      BY <2>1, ManagerSame, WireSame, WatchedType, Types
    <3>2. OwnTypes'
      BY <2>1, <2>3, <2>4, OwnKept, Types DEF loopVars, mainVars
    <3> QED
      BY <3>1, <3>2, TypeParts
  <2>11. LoopStands' /\ NotYet' /\ MapInv'
    BY <2>1 DEF Base, TypeInv, LoopStands, NotYet, MapInv, loopVars, wireVars, clientVars, fdVars
  <2>12. KnownOnly'
    <3>1. \A d : Known(d)' <=> Known(d)
      BY <2>1 DEF Known, loopVars, wireVars, fdVars
    <3>2. \A v \in Workers : work'[v].pc # "idle" => work[v].pc # "idle" /\ work'[v].chan = work[v].chan
      BY <2>0, <2>1, <2>3
    <3> HIDE DEF Known
    <3> QED
      BY <2>1, <3>1, <3>2 DEF Base, TypeInv, KnownOnly, loopVars, mainVars
  <2>13. ASSUME NEW d \in Conn PROVE StreamFramed(d)'
    <3>1. chan'[d].inbox = "part" => chan[d].inbox = "part"
      BY <2>4
    <3> QED
      BY <2>1, <3>1, FramedKept DEF Base, TypeInv, wireVars, clientVars
  <2>14. WatchInv'
    BY <2>1, ManagerSame DEF Base, WatchInv, loopVars
  <2> QED
    BY <2>7, <2>8, <2>9, <2>10, <2>11, <2>12, <2>13, <2>14 DEF Base, TypeInv, JobInv
<1> QED
  BY <1>1, <1>2

-----------------------------------------------------------------------------
(* Steps of the owner, and of the clients *)

\* A step of the owner that closes nothing and leaves the map alone.
LEMMA MainGoes ==
  ASSUME Base, crash = "no", main' \in MainType, main'.pc = "close" => main'.chan \in Conn,
         stop' \in BOOLEAN,
         UNCHANGED <<pollVars, loopVars, chanVars, poolVars, crash, wireVars>>
  PROVE  Base'
<1>1. OwnTypes'
  BY TypeParts DEF Base, TypeInv, OwnTypes, loopVars, chanVars, poolVars
<1>2. WireTypeOK' /\ Manager!Inv' /\ readSet' = readSet /\ writeSet' \subseteq Fd
  BY Types, WireSame, ManagerSame
<1>3. LoopStands'
  BY DEF Base, TypeInv, LoopStands, loopVars
<1>4. Settles
  BY <1>1, <1>2, <1>3, StandStill
     DEF Settles, loopVars, chanVars, poolVars, wireVars, clientVars, fdVars
<1> QED
  BY <1>4, BaseSettled

LEMMA StopEachBase ==
  ASSUME Base, crash = "no", StopEach
  PROVE  Base'
<1> DEFINE rest == {f \in DOMAIN channels : f > main.at}
<1>0. UNCHANGED <<pollVars, loopVars, deleted, poolVars, stop, wireVars>>
  BY DEF StopEach
<1>1. CASE main.at # Listen /\ main.at \notin DOMAIN channels
  BY <1>1, CrashBase DEF StopEach, Crashes
<1>2. CASE ~(main.at # Listen /\ main.at \notin DOMAIN channels) /\ rest = {}
  <2>1. /\ channels' = <<>> /\ main' = [main EXCEPT !.pc = "setStop"]
        /\ UNCHANGED <<chan, crash>>
    BY <1>2 DEF StopEach
  <2>2. DOMAIN channels' = {}
    BY <2>1
  <2>3. main' \in MainType /\ main'.pc = "setStop"
    BY <2>1, Types DEF MainType, MainPcs
  <2>4. TypeOK'
    <3>1. OwnTypes'
      BY <1>0, <2>1, <2>2, <2>3, TypeParts DEF Base, TypeInv, OwnTypes, loopVars, poolVars
    <3>2. WireTypeOK' /\ Poll!TypeOK'
      BY <1>0, Types, WireSame, ManagerSame, WatchedType
    <3> QED
      BY <3>1, <3>2, TypeParts
  <2>5. \A c : Known(c)' <=> Known(c)
    BY <1>0 DEF Known, loopVars, wireVars, fdVars
  <2>6. KnownOnly'
    BY <1>0, <2>2, <2>3, <2>5 DEF Base, TypeInv, KnownOnly, loopVars, poolVars
  <2>7. LoopStands' /\ NotYet' /\ MapInv'
    BY <1>0, <2>2 DEF Base, TypeInv, LoopStands, NotYet, MapInv, loopVars, wireVars, clientVars,
                      fdVars
  <2>8. \A c \in Conn : StreamFramed(c)'
    BY <1>0, <2>1 DEF Base, TypeInv, StreamFramed, Framed, wireVars, clientVars
  <2>9. JobInv'
    BY <1>0, <2>1, JobsSame DEF Base, JobInv, HeldRight, poolVars
  <2>10. WatchInv'
    BY <1>0, ManagerSame DEF Base, WatchInv, loopVars
  <2> QED
    BY <2>4, <2>6, <2>7, <2>8, <2>9, <2>10 DEF Base, TypeInv
<1>3. CASE ~(main.at # Listen /\ main.at \notin DOMAIN channels) /\ rest # {}
  <2> DEFINE c == channels[Min(rest)]
  <2>1. /\ main' = [pc |-> IF chan[c].alive THEN "close" ELSE "each",
                    at |-> Min(rest), chan |-> c]
        /\ UNCHANGED <<channels, chan, crash>>
    BY <1>3 DEF StopEach
  <2>2. DOMAIN channels \subseteq Fd /\ rest \in SUBSET (Fd \cup {Listen})
    BY DEF Base, TypeInv, TypeOK, PollTypeOK
  <2>3. Min(rest) \in rest
    BY <1>3, <2>2, MinIn
  <2>4. Min(rest) \in Fd /\ c \in Conn
    BY <2>2, <2>3 DEF Base, TypeInv, TypeOK, PollTypeOK
  <2>5. main' \in MainType /\ main'.chan \in Conn
    BY <2>1, <2>4 DEF MainType, MainPcs
  <2>6. stop' \in BOOLEAN
    BY <1>0 DEF Base, TypeInv, TypeOK, PollTypeOK
  <2> QED
    BY <1>0, <2>1, <2>5, <2>6, MainGoes DEF chanVars
<1> QED
  BY <1>1, <1>2, <1>3

LEMMA StopCloseBase ==
  ASSUME Base, crash = "no", StopClose
  PROVE  Base'
<1>1. CASE main.chan \in deleted
  BY <1>1, CrashBase DEF StopClose, Crashes
<1>2. CASE main.chan \notin deleted
  <2>0. /\ main.pc = "close" /\ CloseChan(main.chan) /\ main' = [main EXCEPT !.pc = "each"]
        /\ UNCHANGED <<pollVars, loopVars, channels, deleted, poolVars, stop, crash, clientVars>>
    BY <1>2 DEF StopClose
  <2>1. /\ loop \in LoopType /\ work \in [Workers -> WorkType] /\ main.chan \in Conn
        /\ main' \in MainType /\ main'.pc = "each"
    BY <2>0, Types, StandStill DEF MainType, MainPcs
  <2>2. OwnTypes'
    BY <2>0, <2>1, CloseChanFacts, OwnKept DEF loopVars, poolVars
  <2>3. LoopStands'
    BY <2>0 DEF Base, TypeInv, LoopStands, loopVars
  <2>4. Manager!Inv' /\ readSet' = readSet /\ writeSet' \subseteq Fd
    BY <2>0, ManagerSame
  <2>5. Settles
    BY <2>0, <2>1, <2>2, <2>3, <2>4, StandStill, CloseChanFacts DEF Settles, loopVars, poolVars
  <2> QED
    BY <2>5, BaseSettled
<1> QED
  BY <1>1, <1>2

LEMMA MainBase ==
  ASSUME Base, crash = "no", MainNext
  PROVE  Base'
<1>0. main \in MainType /\ stop \in BOOLEAN
  BY Types DEF Base, TypeInv, TypeOK, PollTypeOK
<1>1. CASE StopBegin
  <2>1. main' = [main EXCEPT !.pc = "each"]
    BY <1>1 DEF StopBegin
  <2>2. main' \in MainType /\ main'.pc = "each"
    BY <1>0, <2>1 DEF MainType, MainPcs
  <2> QED
    BY <1>0, <1>1, <2>2, MainGoes DEF StopBegin
<1>2. CASE SetStop
  <2>1. main' = [main EXCEPT !.pc = "stopped"] /\ stop' = TRUE
    BY <1>2 DEF SetStop
  <2>2. main' \in MainType /\ main'.pc = "stopped"
    BY <1>0, <2>1 DEF MainType, MainPcs
  <2> QED
    BY <1>2, <2>1, <2>2, MainGoes DEF SetStop
<1> QED
  BY <1>1, <1>2, StopEachBase, StopCloseBase DEF MainNext

LEMMA EnvironmentBase ==
  ASSUME Base, Environment
  PROVE  Base'
<1>0. UNCHANGED <<pollVars, loopVars, chanVars, poolVars, mainVars, crash>>
  BY DEF Environment
<1>1. PICK c \in Conn : ClientNext(c)
  BY DEF Environment
<1>2. client[c] # "none" /\ UNCHANGED fdVars
  BY <1>1, ClientPresent
<1>3. TypeOK'
  <2>1. WireTypeOK'
    BY <1>1, Types, ClientNextType
  <2> QED
    BY <1>0, <2>1 DEF Base, TypeInv, TypeOK, PollTypeOK, Poll!TypeOK, pollVars, loopVars,
                      chanVars, poolVars, mainVars
<1>4. LoopStands' /\ KnownOnly' /\ MapInv'
  BY <1>0, <1>2 DEF Base, TypeInv, LoopStands, KnownOnly, Known, MapInv, loopVars, chanVars,
                    poolVars, mainVars, fdVars
<1>5. NotYet'
  <2>1. \A d \in Conn \ {c} : client'[d] = client[d]
    BY <1>1, Types, ClientOnly
  <2> QED
    BY <1>0, <1>2, <2>1 DEF Base, TypeInv, NotYet, loopVars, fdVars
<1>6. ASSUME NEW d \in Conn PROVE StreamFramed(d)'
  <2> DEFINE inBody == chan[d].inbox = "part"
  <2>1. inBody \in BOOLEAN
    OBVIOUS
  <2>2. Framed(up[d], inBody, client[d] \in Whole)
    BY DEF Base, TypeInv, StreamFramed
  <2>3. inBody' <=> inBody
    BY <1>0 DEF chanVars
  <2> HIDE DEF inBody
  <2>4. Framed(up'[d], inBody, client'[d] \in Whole)
    BY <1>1, <2>1, <2>2, Types, ClientFramed
  <2>5. Framed(up'[d], inBody', client'[d] \in Whole)
    BY <2>3, <2>4 DEF Framed
  <2> QED
    BY <2>5 DEF StreamFramed, inBody
<1>7. JobInv'
  BY <1>0, JobsStay DEF Base, chanVars, poolVars
<1>8. WatchInv'
  BY <1>0, ManagerSame DEF Base, WatchInv, loopVars
<1> QED
  BY <1>3, <1>4, <1>5, <1>6, <1>7, <1>8 DEF Base, TypeInv

-----------------------------------------------------------------------------
(* The invariant holds *)

LEMMA InitBase == Init => Base
<1> SUFFICES ASSUME Init PROVE Base
  OBVIOUS
<1>0. /\ channels = <<>> /\ jobs = <<>> /\ deleted = {} /\ crash = "no"
      /\ main.pc = "running" /\ main.at = Listen /\ main.chan = NoConn
      /\ loop.pc = "top" /\ loop.accepted = 0
      /\ loop.reads = {} /\ \A w \in Workers : work[w].pc = "idle"
      /\ \A c \in Conn : chan[c].inbox = "none" /\ chan[c].left = 0
  BY DEF Init
<1>1. DOMAIN channels = {} /\ DOMAIN jobs = {}
  BY <1>0
<1>2. TypeOK
  <2>1. WireTypeOK
    BY WireInitType DEF Init
  <2>2. Poll!TypeOK
    BY DEF Init, Poll!TypeOK, Listen
  <2>3. OwnTypes
    <3>1. loop \in LoopType
      BY WireAssumption DEF Init, LoopType, LoopPcs
    <3>2. work \in [Workers -> WorkType] /\ main \in MainType
      BY DEF Init, WorkType, WorkPcs, MainType, MainPcs
    <3>3. chan \in [Conn -> Channel]
      BY PollServerAssumption DEF Init, Channel
    <3>4. jobs \in Seq(Conn)
      BY <1>0
    <3> QED
      BY <1>0, <1>1, <3>1, <3>2, <3>3, <3>4 DEF Init, OwnTypes, Crashes
  <2> QED
    BY <2>1, <2>2, <2>3, TypeParts
<1>3. LoopStands /\ KnownOnly /\ NotYet
  BY <1>0, <1>1 DEF Init, WireInit, LoopStands, KnownOnly, NotYet, AtChannel
<1>4. \A c \in Conn : StreamFramed(c)
  BY <1>0 DEF Init, WireInit, StreamFramed, Framed
<1>5. MapInv
  BY <1>0, <1>1 DEF MapInv, AtChannel
<1>6. JobInv
  BY <1>0, <1>1 DEF JobInv, HeldRight, JobsOnce, JobsWhole, HasJob, Getting, Messages,
                      RequestKinds
<1>7. WatchInv
  BY <1>0 DEF Init, WatchInv, Manager!Inv, Manager!TypeOK, Manager!Mirrored,
              Manager!HighestCoversSets, Listen
<1> QED
  BY <1>2, <1>3, <1>4, <1>5, <1>6, <1>7 DEF Base, TypeInv

LEMMA LoopBase ==
  ASSUME Base, crash = "no", LoopNext
  PROVE  Base'
<1>1. CASE LoopOnly
  BY <1>1, LoopOnlyBase
<1>2. CASE Accept \/ CloseChannel \/ UnwatchRead \/ DropChannel \/ WriteMore \/ UnwatchWrite
  BY <1>2, AcceptBase, CloseChannelBase, UnwatchReadBase, DropChannelBase, WriteMoreBase,
     UnwatchWriteBase
<1>3. CASE ReadSize \/ ReadBody \/ ReadAlone \/ ReadAstray
  <2>1. CASE Crash("memcpy")
    BY <2>1, CrashBase DEF Crashes
  <2>2. CASE ~Crash("memcpy")
    <3>1. PICK c : c = loop.chan
      OBVIOUS
    <3>2. CASE ReadSize \/ ReadBody
      BY <2>2, <3>1, <3>2, ReadCases, ReadBase DEF Reads
    <3>3. CASE ReadAlone \/ ReadAstray
      BY <2>2, <3>1, <3>3, ReadAloneCases, ReadBase
    <3> QED
      BY <1>3, <3>2, <3>3
  <2> QED
    BY <2>1, <2>2
<1> QED
  BY <1>1, <1>2, <1>3 DEF LoopNext, LoopOnly

LEMMA WorkBase ==
  ASSUME Base, crash = "no", NEW w \in Workers, WorkNext(w)
  PROVE  Base'
BY TakeBase, GetMessageBase, NotifyBase, HandleBase, HandleGarbageBase, LockBase,
   WriteFirstBase, WatchWriteBase, UnlockBase DEF WorkNext

LEMMA BaseKept == Base /\ [Next]_vars => Base'
<1> SUFFICES ASSUME Base, [Next]_vars PROVE Base'
  OBVIOUS
<1>1. CASE Next
  BY <1>1, LoopBase, WorkBase, MainBase, EnvironmentBase DEF Next
<1>2. CASE UNCHANGED vars
  <2>0. UNCHANGED <<pollVars, loopVars, chanVars, poolVars, mainVars, crash, wireVars>>
    BY <1>2 DEF vars
  <2>1. TypeOK'
    <3>1. WireTypeOK'
      BY <2>0, WireSame, Types
    <3> QED
      BY <2>0, <3>1 DEF Base, TypeInv, TypeOK, PollTypeOK, Poll!TypeOK, pollVars, loopVars,
                        chanVars, poolVars, mainVars
  <2>2. LoopStands' /\ KnownOnly' /\ NotYet' /\ MapInv'
    BY <2>0 DEF Base, TypeInv, LoopStands, KnownOnly, Known, NotYet, MapInv, loopVars, chanVars,
                poolVars, mainVars, wireVars, clientVars, fdVars
  <2>3. \A c \in Conn : StreamFramed(c)'
    BY <2>0 DEF Base, TypeInv, StreamFramed, Framed, chanVars, wireVars, clientVars
  <2>4. JobInv'
    BY <2>0, JobsStay DEF Base, chanVars, poolVars
  <2>5. WatchInv'
    BY <2>0, ManagerSame DEF Base, WatchInv, loopVars
  <2> QED
    BY <2>1, <2>2, <2>3, <2>4, <2>5 DEF Base, TypeInv
<1> QED
  BY <1>1, <1>2

\* The invariant the theorems rest on.
THEOREM BaseHolds == Spec => []Base
BY InitBase, BaseKept, PTL DEF Spec

\* Every variable of the server and of the wire has its type, whatever the
\* loop thread, the workers, stop() and the clients do.
THEOREM TypeCorrect == Spec => []TypeOK
<1>1. Base => TypeOK
  BY DEF Base, TypeInv
<1> QED
  BY <1>1, BaseHolds, PTL

\* PollManager's _highest covers what is watched, with the loop thread and the
\* workers calling watch() and unwatch() in any order: select() leaves nothing
\* out.
THEOREM HighestCovers == Spec => []HighestCoversSets
<1>1. Base => HighestCoversSets
  BY WatchedType DEF Base, WatchInv, HighestCoversSets
<1> QED
  BY <1>1, BaseHolds, PTL

-----------------------------------------------------------------------------
(* Messages *)

\* What JobsOnce says of the two sets of jobs a Channel may have.
LEMMA JobCount ==
  ASSUME JobsOnce, NEW c
  PROVE  Jobs(c) = IF HasJob(c) THEN 1 ELSE 0
<1> DEFINE queued == {i \in DOMAIN jobs : jobs[i] = c}
           taken == {w \in Workers : work[w].pc = "get" /\ work[w].chan = c}
<1>0. Jobs(c) = Cardinality(queued) + Cardinality(taken)
  BY DEF Jobs
<1>4. /\ Cardinality({}) = 0 /\ \A x : Cardinality({x}) = 1
  BY FS_Singleton, FS_EmptySet
<1>1. CASE \E i \in DOMAIN jobs : jobs[i] = c
  <2>1. PICK i \in DOMAIN jobs : jobs[i] = c
    BY <1>1
  <2>2. queued = {i}
    BY <2>1 DEF JobsOnce
  <2>3. taken = {}
    BY <2>1 DEF JobsOnce
  <2> HIDE DEF queued, taken
  <2>4. Jobs(c) = 1
    BY <1>0, <1>4, <2>2, <2>3
  <2> QED
    BY <1>1, <2>4 DEF HasJob
<1>2. CASE ~(\E i \in DOMAIN jobs : jobs[i] = c) /\ \E w \in Workers : Getting(w, c)
  <2>1. PICK w \in Workers : Getting(w, c)
    BY <1>2
  <2>2. taken = {w}
    BY <2>1 DEF JobsOnce, Getting
  <2>3. queued = {}
    BY <1>2
  <2> HIDE DEF queued, taken
  <2>4. Jobs(c) = 1
    BY <1>0, <1>4, <2>2, <2>3
  <2> QED
    BY <1>2, <2>4 DEF HasJob
<1>3. CASE ~HasJob(c)
  <2>1. queued = {} /\ taken = {}
    BY <1>3 DEF HasJob, Getting
  <2> QED
    BY <1>3, <2>1, FS_EmptySet DEF Jobs
<1> QED
  BY <1>1, <1>2, <1>3 DEF HasJob

\* What is handed on as a message, old contents of an array included, is handled
\* once: while it is queued and until a worker takes it out of the Channel, the
\* Channel is busy, holds it and has no second job, however often the loop thread
\* and the workers change places.
THEOREM MessagesOnce == Spec => []QueuedOnce
<1>1. Base => QueuedOnce
  BY JobCount DEF Base, JobInv, JobsWhole, QueuedOnce
<1> QED
  BY <1>1, BaseHolds, PTL

-----------------------------------------------------------------------------
(* The map and the descriptors *)

\* Outside of accept(), unwatch() and the drop, who owns what and what the map
\* holds stand still.
MatchSame ==
  /\ UNCHANGED <<readSet, channels, deleted, fdOf>> /\ Closing' = Closing
  /\ \A f \in DOMAIN channels \ Closing : Holds(channels[f]) => Holds(channels[f])'
  /\ main'.pc = "running" => main.pc = "running"

LEMMA MatchKept ==
  ASSUME ChannelsMatchPoll, MatchSame
  PROVE  ChannelsMatchPoll'
BY DEF ChannelsMatchPoll, MatchSame

\* Most steps touch no descriptor, no Channel of the map and nothing the loop
\* thread watches.
LEMMA QuietMatch ==
  ASSUME ChannelsMatchPoll, UNCHANGED <<readSet, channels, deleted, fdOf, owner>>,
         Closing' = Closing, main'.pc = "running" => main.pc = "running"
  PROVE  ChannelsMatchPoll'
<1>1. \A c : Holds(c)' <=> Holds(c)
  BY DEF Holds
<1> QED
  BY <1>1, MatchKept DEF MatchSame

\* The loop thread leaves Closing alone unless it closes or drops a Channel.
LEMMA ClosingSame ==
  \/ UNCHANGED loop
  \/ loop.pc \notin {"unwatch", "drop"} /\ loop'.pc \notin {"unwatch", "drop"}
  \/ {loop.pc, loop'.pc} \subseteq {"unwatch", "drop"} /\ loop'.reads = loop.reads
  => Closing' = Closing
BY DEF Closing

LEMMA WorkMatch ==
  ASSUME Base, ChannelsMatchPoll, NEW w \in Workers, WorkNext(w)
  PROVE  ChannelsMatchPoll'
<1>0. /\ UNCHANGED <<main, channels, deleted, fdVars>>
      /\ UNCHANGED readSet \/ WatchWrite(w)
      /\ UNCHANGED loop \/ Notify(w)
  BY DEF WorkNext, Take, GetMessage, Notify, Handle, HandleGarbage, Lock, WriteFirst, WatchWrite,
         Unlock,
         Touches, Crash, pollVars, loopVars, chanVars, mainVars, wireVars
<1>1. UNCHANGED readSet
  BY <1>0 DEF WatchWrite, Touches, Crash, pollVars, Poll!Watch
<1>2. Closing' = Closing
  <2>1. CASE Notify(w)
    <3>1. \/ UNCHANGED loop
          \/ loop.pc = "waiting" /\ loop' = [loop EXCEPT !.pc = "check"]
      BY <2>1 DEF Notify, Touches, Crash, loopVars
    <3>2. loop \in LoopType
      BY Types
    <3> QED
      BY <3>1, <3>2, ClosingSame DEF LoopType
  <2> QED
    BY <1>0, <2>1, ClosingSame
<1> QED
  BY <1>0, <1>1, <1>2, QuietMatch DEF fdVars

\* The owner is at work only once stop() has begun.
LEMMA MainLeaves ==
  ASSUME Base, MainNext
  PROVE  main'.pc # "running"
<1>0. main \in MainType
  BY Types
<1>1. CASE StopEach
  <2>1. \/ UNCHANGED main \/ main' = [main EXCEPT !.pc = "setStop"]
        \/ \E pc \in {"close", "each"} : \E at, c : main' = [pc |-> pc, at |-> at, chan |-> c]
    BY <1>1 DEF StopEach, Crash, mainVars
  <2> QED
    BY <1>0, <1>1, <2>1 DEF StopEach, MainType
<1>2. CASE StopClose
  BY <1>0, <1>2 DEF StopClose, Crash, mainVars, MainType
<1>3. CASE StopBegin \/ SetStop
  BY <1>0, <1>3 DEF StopBegin, SetStop, MainType
<1> QED
  BY <1>1, <1>2, <1>3 DEF MainNext

LEMMA MainMatch ==
  ASSUME Base, ChannelsMatchPoll, MainNext
  PROVE  ChannelsMatchPoll'
BY MainLeaves DEF ChannelsMatchPoll

LEMMA QuietLoopMatch ==
  ASSUME Base, ChannelsMatchPoll,
         \/ LoopOnly \/ ReadSize \/ ReadBody \/ ReadAlone \/ ReadAstray
         \/ WriteMore \/ UnwatchWrite
  PROVE  ChannelsMatchPoll'
<1>0. loop \in LoopType
  BY Types
<1>1. UNCHANGED <<main, channels, deleted, fdVars, readSet>>
  BY DEF LoopOnly, LoopTop, Snapshot, Select, ReadsDone, BeginRead, CheckBusy, Wait, WritesDone,
         ReadSize, ReadBody, ReadAlone, ReadAstray, ReadFrame, WriteMore, UnwatchWrite, Crash,
         Poll!Unwatch, pollVars,
         chanVars, mainVars, wireVars
<1>2. loop.pc \notin {"unwatch", "drop"}
  BY DEF LoopOnly, LoopTop, Snapshot, Select, ReadsDone, BeginRead, CheckBusy, Wait, WritesDone,
         ReadSize, ReadBody, ReadAlone, ReadAstray, WriteMore, UnwatchWrite, NextRead
<1>3. loop'.pc \notin {"unwatch", "drop"}
  <2>1. CASE LoopOnly
    BY <2>1, LoopOnlyFacts
  <2>2. CASE UNCHANGED loop
    BY <1>2, <2>2
  <2>3. ASSUME NEW pc \in LoopPcs, pc \notin {"unwatch", "drop"},
               \/ loop' = [loop EXCEPT !.pc = pc]
               \/ loop' = [loop EXCEPT !.pc = pc, !.reads = @ \ {Min(@)}]
               \/ loop' = [loop EXCEPT !.pc = pc, !.writes = @ \ {Min(@)}]
        PROVE  loop'.pc \notin {"unwatch", "drop"}
    BY <1>0, <2>3, LoopMoves
  <2>4. CASE ReadSize
    <3>1. loop' = [loop EXCEPT !.pc = "close"] \/ NextOne
      BY <2>4 DEF ReadSize, LoopGoes, Ready
    <3> QED
      BY <2>3, <3>1 DEF NextOne, LoopPcs
  <2>5. CASE ReadBody \/ ReadAlone \/ ReadAstray
    <3>1. UNCHANGED loop \/ NextOne
      BY <2>5 DEF ReadBody, ReadAlone, ReadAstray, Crash, loopVars, Ready
    <3> QED
      BY <2>2, <2>3, <3>1 DEF NextOne, LoopPcs
  <2>6. CASE WriteMore
    <3>1. \/ UNCHANGED loop \/ loop' = [loop EXCEPT !.pc = "written"]
          \/ loop' = [loop EXCEPT !.pc = loop.pc, !.writes = @ \ {Min(@)}]
      BY <1>0, <2>6 DEF WriteMore, LoopGoes, WriteNextOne, LoopType
    <3>2. loop.pc \in LoopPcs
      BY <1>0 DEF LoopType
    <3> QED
      BY <1>2, <2>2, <2>3, <3>1, <3>2 DEF LoopPcs
  <2>7. CASE UnwatchWrite
    BY <2>3, <2>7 DEF UnwatchWrite, LoopPcs
  <2> QED
    BY <2>1, <2>4, <2>5, <2>6, <2>7
<1>4. Closing' = Closing
  BY <1>2, <1>3, ClosingSame
<1> QED
  BY <1>1, <1>4, QuietMatch DEF fdVars

\* accept() hands out a number no Channel of the map holds.
LEMMA AcceptMatch ==
  ASSUME Base, ChannelsMatchPoll, Accept
  PROVE  ChannelsMatchPoll'
<1>1. CASE FreeFds = {}
  <2>1. UNCHANGED <<loop, main, channels, deleted, fdVars, readSet>>
    BY <1>1 DEF Accept, Crash, pollVars, loopVars, chanVars, mainVars, wireVars
  <2> QED
    BY <2>1, QuietMatch, ClosingSame DEF fdVars
<1>2. CASE FreeFds # {}
  <2>0. PICK c : c = loop.accepted + 1
    OBVIOUS
  <2>1. PICK f \in Fd : Accepts(f, c)
    BY <1>2, <2>0, AcceptFacts
  <2> SUFFICES ASSUME main.pc = "running" PROVE ChannelsMatchPoll'
    BY <2>1 DEF Accepts, ChannelsMatchPoll
  <2>2. /\ Closing = {} /\ Closing' = {} /\ readSet' = readSet \cup {f}
        /\ UNCHANGED deleted /\ c \in Conn /\ loop.accepted \in Nat
        /\ owner' = [owner EXCEPT ![f] = c] /\ fdOf' = [fdOf EXCEPT ![c] = f]
        /\ owner \in [Fd -> Conn \cup {Free, App}] /\ fdOf \in [Conn -> Fd \cup {NoFd}]
        /\ channels' = [g \in DOMAIN channels \cup {f} |-> IF g = f THEN c ELSE channels[g]]
        /\ owner[f] = Free /\ c > loop.accepted
    BY <2>1, Types DEF Accepts, Closing, Poll!Watch, WireTypeOK, LoopType
  <2>3. /\ readSet = {Listen} \cup DOMAIN channels
        /\ \A g \in DOMAIN channels :
             channels[g] \notin deleted /\ fdOf[channels[g]] = g /\ Holds(channels[g])
    BY <2>2 DEF ChannelsMatchPoll
  <2>4. DOMAIN channels \subseteq Fd /\ \A g \in DOMAIN channels : Known(channels[g])
    BY DEF Base, TypeInv, TypeOK, PollTypeOK, KnownOnly
  <2>5. f \notin DOMAIN channels
    BY <2>2, <2>3, <2>4, FdFacts DEF Holds, Known
  <2>6. c \notin deleted /\ \A g \in DOMAIN channels : channels[g] # c
    <3>1. ~(c <= loop.accepted)
      BY <2>2, FdFacts
    <3> QED
      BY <2>4, <3>1 DEF Base, MapInv, Known
  <2>7. DOMAIN channels' = DOMAIN channels \cup {f} /\ channels'[f] = c
        /\ \A g \in DOMAIN channels : channels'[g] = channels[g]
    BY <2>2, <2>5
  <2>8. fdOf'[c] = f /\ owner'[f] = c /\ f # NoFd
    BY <2>2, FdFacts
  <2>9. ASSUME NEW g \in DOMAIN channels
        PROVE  /\ fdOf'[channels[g]] = g /\ owner'[g] = channels[g] /\ g # NoFd
    <3>1. fdOf'[channels[g]] = g /\ owner'[g] = owner[g]
      BY <2>2, <2>3, <2>4, <2>5, <2>6 DEF Known
    <3> QED
      BY <2>3, <2>4, <3>1, FdFacts DEF Holds
  <2>10. \A g \in DOMAIN channels' :
           channels'[g] \notin deleted' /\ fdOf'[channels'[g]] = g /\ owner'[g] = channels'[g]
           /\ g # NoFd
    BY <2>2, <2>3, <2>6, <2>7, <2>8, <2>9
  <2>11. \A g \in DOMAIN channels' : Holds(channels[g])'
    BY <2>10 DEF Holds
  <2>12. readSet' = {Listen} \cup DOMAIN channels'
    BY <2>2, <2>3, <2>7
  <2> QED
    BY <2>2, <2>10, <2>11, <2>12 DEF ChannelsMatchPoll
<1> QED
  BY <1>1, <1>2

\* close() takes the number from the Channel that holds it, and from no other.
LEMMA CloseMatch ==
  ASSUME Base, ChannelsMatchPoll, CloseChannel
  PROVE  ChannelsMatchPoll'
<1> DEFINE f == Min(loop.reads)
<1>1. CASE f \notin DOMAIN channels
  <2>1. UNCHANGED <<loop, main, channels, deleted, fdVars, readSet>>
    BY <1>1 DEF CloseChannel, Crash, pollVars, loopVars, chanVars, mainVars, wireVars
  <2> QED
    BY <2>1, QuietMatch, ClosingSame DEF fdVars
<1>2. CASE f \in DOMAIN channels
  <2>0. /\ loop.pc = "close" /\ CloseChan(loop.chan) /\ loop' = [loop EXCEPT !.pc = "unwatch"]
        /\ UNCHANGED <<readSet, channels, deleted, main>> /\ loop \in LoopType
    BY <1>2, Types DEF CloseChannel, LoopGoes, pollVars, mainVars
  <2>1. loop'.pc = "unwatch" /\ loop'.reads = loop.reads
    BY <2>0 DEF LoopType
  <2>2. Closing = {} /\ Closing' = {f}
    BY <2>0, <2>1 DEF Closing
  <2>3. /\ UNCHANGED fdOf
        /\ owner' = [g \in Fd |-> IF g = fdOf[loop.chan] THEN Free ELSE owner[g]]
    BY <2>0 DEF CloseChan, CloseFd, Close
  <2>4. channels[f] = loop.chan
    BY <1>2, <2>0, StandStill DEF AtChannel
  <2>5. DOMAIN channels \subseteq Fd
    BY DEF Base, TypeInv, TypeOK, PollTypeOK
  <2> HIDE DEF f
  <2> SUFFICES ASSUME main.pc = "running" PROVE ChannelsMatchPoll'
    BY <2>0 DEF ChannelsMatchPoll
  <2>6. /\ readSet = {Listen} \cup DOMAIN channels
        /\ \A g \in DOMAIN channels :
             channels[g] \notin deleted /\ fdOf[channels[g]] = g /\ Holds(channels[g])
    BY <2>2 DEF ChannelsMatchPoll
  <2>7. fdOf[loop.chan] = f
    BY <1>2, <2>4, <2>6
  <2>8. ASSUME NEW g \in DOMAIN channels \ {f} PROVE Holds(channels[g])'
    <3>1. fdOf[channels[g]] = g /\ owner[g] = channels[g] /\ g # NoFd
      BY <2>6 DEF Holds
    <3>2. owner'[g] = channels[g]
      BY <2>3, <2>5, <2>7, <3>1
    <3> QED
      BY <2>0, <2>3, <3>1, <3>2 DEF Holds
  <2> QED
    BY <2>0, <2>2, <2>3, <2>6, <2>8 DEF ChannelsMatchPoll
<1> QED
  BY <1>1, <1>2

LEMMA UnwatchMatch ==
  ASSUME Base, ChannelsMatchPoll, UnwatchRead
  PROVE  ChannelsMatchPoll'
<1> DEFINE f == Min(loop.reads)
<1>0. /\ loop.pc = "unwatch" /\ readSet' = readSet \ {f} /\ loop' = [loop EXCEPT !.pc = "drop"]
      /\ UNCHANGED <<channels, deleted, main, fdOf, owner>> /\ loop \in LoopType
  BY Types DEF UnwatchRead, Poll!Unwatch, LoopGoes, chanVars, mainVars, wireVars, fdVars
<1>1. loop'.pc = "drop" /\ loop'.reads = loop.reads
  BY <1>0 DEF LoopType
<1>2. Closing = {f} /\ Closing' = {f}
  BY <1>0, <1>1 DEF Closing
<1>3. \A c : Holds(c)' <=> Holds(c)
  BY <1>0 DEF Holds
<1> QED
  BY <1>0, <1>2, <1>3 DEF ChannelsMatchPoll

\* What is dropped is watched no longer, and was in the map once.
LEMMA DropMatch ==
  ASSUME Base, ChannelsMatchPoll, DropChannel
  PROVE  ChannelsMatchPoll'
<1> DEFINE f == Min(loop.reads)
<1>0. /\ loop.pc = "drop" /\ readSet' = readSet
      /\ loop' = [loop EXCEPT !.pc = "reads", !.reads = @ \ {f}]
      /\ deleted' = deleted \cup {channels[g] : g \in {f} \cap DOMAIN channels}
      /\ channels' = [g \in DOMAIN channels \ {f} |-> channels[g]]
      /\ UNCHANGED <<main, fdOf, owner>> /\ loop \in LoopType
  BY Types DEF DropChannel, NextOne, Poll!Unwatch, mainVars, wireVars, fdVars
<1>1. f \in Fd /\ f \notin readSet
  BY <1>0, StandStill DEF Base, WatchInv, AtChannel
<1>2. loop'.pc = "reads"
  BY <1>0 DEF LoopType
<1>3. Closing = {f} /\ Closing' = {}
  BY <1>0, <1>2 DEF Closing
<1>4. \A c : Holds(c)' <=> Holds(c)
  BY <1>0 DEF Holds
<1> HIDE DEF f
<1>5. DOMAIN channels' = DOMAIN channels \ {f}
      /\ \A g \in DOMAIN channels \ {f} : channels'[g] = channels[g]
      /\ \A c \in deleted' : c \in deleted \/ (f \in DOMAIN channels /\ c = channels[f])
  BY <1>0
<1> SUFFICES ASSUME main.pc = "running" PROVE ChannelsMatchPoll'
  BY <1>0 DEF ChannelsMatchPoll
<1>6. /\ readSet \ {f} = ({Listen} \cup DOMAIN channels) \ {f}
      /\ \A g \in DOMAIN channels \ {f} :
           channels[g] \notin deleted /\ fdOf[channels[g]] = g /\ Holds(channels[g])
  BY <1>3 DEF ChannelsMatchPoll
<1>7. readSet' = {Listen} \cup DOMAIN channels'
  BY <1>0, <1>1, <1>5, <1>6, FdFacts
<1>8. \A g \in DOMAIN channels \ {f} : channels[g] \notin deleted'
  BY <1>5, <1>6 DEF Base, MapInv
<1> QED
  BY <1>0, <1>3, <1>4, <1>5, <1>6, <1>7, <1>8 DEF ChannelsMatchPoll

LEMMA MatchStep ==
  ASSUME Base, ChannelsMatchPoll, [Next]_vars
  PROVE  ChannelsMatchPoll'
<1>1. CASE LoopNext
  BY <1>1, QuietLoopMatch, AcceptMatch, CloseMatch, UnwatchMatch, DropMatch
     DEF LoopNext, LoopOnly
<1>2. CASE \E w \in Workers : WorkNext(w)
  BY <1>2, WorkMatch
<1>3. CASE MainNext
  BY <1>3, MainMatch
<1>4. CASE Environment \/ UNCHANGED vars
  <2>1. UNCHANGED <<loop, main, channels, deleted, fdVars, readSet>>
    <3>1. CASE Environment
      BY <3>1, ClientPresent DEF Environment, pollVars, loopVars, chanVars, mainVars
    <3>2. CASE UNCHANGED vars
      BY <3>2 DEF vars, pollVars, loopVars, chanVars, mainVars, wireVars
    <3> QED
      BY <1>4, <3>1, <3>2
  <2> QED
    BY <2>1, QuietMatch, ClosingSame DEF fdVars
<1> QED
  BY <1>1, <1>2, <1>3, <1>4 DEF Next

\* Until stop() is called, the map of Channels, the descriptors select() reads
\* from and what the Channels believe they own agree, whatever numbers close()
\* and accept() reuse; all that is out of step is the one being closed.
THEOREM MapMatches == Spec => []ChannelsMatchPoll
<1>1. Init => ChannelsMatchPoll
  <2> SUFFICES ASSUME Init PROVE ChannelsMatchPoll
    OBVIOUS
  <2>1. channels = <<>> /\ readSet = {Listen} /\ Closing = {}
    BY DEF Init, Closing
  <2>2. DOMAIN channels = {}
    BY <2>1
  <2> QED
    BY <2>1, <2>2 DEF ChannelsMatchPoll
<1>2. Base /\ ChannelsMatchPoll /\ [Next]_vars => ChannelsMatchPoll'
  BY MatchStep
<1> QED
  BY <1>1, <1>2, BaseHolds, PTL DEF Spec

-----------------------------------------------------------------------------
(* Who writes to whom, also while stop() closes Channels *)

OwnOrFree(f, c) == owner[f] \in {c, Free}

\* A Channel that is not closed has its descriptor, a locked one is not closed.
\* The descriptors of Channels that may be closed, again perhaps, are their own
\* or nobody's: of those in the map, of the one the loop thread has in hand, and
\* of the one stop() is at, which the loop thread cannot have dropped.
AliveHolds == \A c \in Conn : chan[c].alive /\ fdOf[c] \in Fd => Holds(c)
LockedAlive == \A c \in Conn : chan[c].locked => chan[c].alive /\ fdOf[c] \in Fd
MapOwns == \A f \in DOMAIN channels : fdOf[channels[f]] = f /\ OwnOrFree(f, channels[f])
LoopOwns == loop.pc \in AtChannel =>
              fdOf[loop.chan] = Min(loop.reads) /\ OwnOrFree(Min(loop.reads), loop.chan)
StopOwns == main.pc = "close" /\ main.chan \notin deleted =>
              /\ fdOf[main.chan] \in DOMAIN channels
              /\ channels[fdOf[main.chan]] = main.chan
              /\ \/ chan[main.chan].alive
                 \/ loop.pc \in {"unwatch", "drop"} /\ loop.chan = main.chan

OpenInv == AliveHolds /\ LockedAlive /\ MapOwns /\ LoopOwns /\ StopOwns

\* Steps that close, accept and drop nothing.
OpenStill ==
  /\ UNCHANGED <<fdOf, owner, channels, deleted>>
  /\ \A c \in Conn : /\ chan'[c].alive = chan[c].alive
                     /\ chan'[c].locked =>
                          chan[c].locked \/ (chan[c].alive /\ fdOf[c] \in Fd)
  /\ loop'.pc \in AtChannel =>
       loop.pc \in AtChannel /\ loop'.chan = loop.chan /\ loop'.reads = loop.reads
  /\ loop.pc \in {"unwatch", "drop"} => loop'.pc \in {"unwatch", "drop"}
  /\ main'.pc = "close" => main.pc = "close" /\ main'.chan = main.chan

LEMMA OpenSame ==
  ASSUME Base, OpenInv, OpenStill
  PROVE  OpenInv'
<1>1. AliveHolds' /\ LockedAlive'
  BY DEF OpenInv, OpenStill, AliveHolds, LockedAlive, Holds
<1>2. MapOwns'
  BY DEF OpenInv, OpenStill, MapOwns, OwnOrFree
<1>3. LoopOwns'
  BY DEF OpenInv, OpenStill, LoopOwns, OwnOrFree
<1>4. StopOwns'
  <2>1. main.pc = "close" => main.chan \in Conn
    BY StandStill
  <2> QED
    BY <2>1 DEF OpenInv, OpenStill, StopOwns, AtChannel
<1> QED
  BY <1>1, <1>2, <1>3, <1>4 DEF OpenInv

\* Nothing at all happens to Channels, descriptors, loop thread and owner.
LEMMA OpenQuiet ==
  ASSUME Base, OpenInv, UNCHANGED <<fdVars, channels, deleted, chan, loop, main>>
  PROVE  OpenInv'
BY OpenSame DEF OpenStill, fdVars

LEMMA AcceptOpen ==
  ASSUME Base, OpenInv, Accept
  PROVE  OpenInv'
<1>1. CASE FreeFds = {}
  <2>1. UNCHANGED <<fdVars, channels, deleted, chan, loop, main>>
    BY <1>1 DEF Accept, Crash, loopVars, chanVars, mainVars, wireVars
  <2> QED
    BY <2>1, OpenQuiet
<1>2. CASE FreeFds # {}
  <2>0. PICK c : c = loop.accepted + 1
    OBVIOUS
  <2>1. PICK f \in Fd : Accepts(f, c)
    BY <1>2, <2>0, AcceptFacts
  <2>2. /\ UNCHANGED <<deleted, chan, main>> /\ c \in Conn /\ loop.accepted \in Nat
        /\ owner' = [owner EXCEPT ![f] = c] /\ fdOf' = [fdOf EXCEPT ![c] = f]
        /\ owner \in [Fd -> Conn \cup {Free, App}] /\ fdOf \in [Conn -> Fd \cup {NoFd}]
        /\ channels' = [g \in DOMAIN channels \cup {f} |-> IF g = f THEN c ELSE channels[g]]
        /\ owner[f] = Free /\ c > loop.accepted
        /\ loop.pc = "reads" /\ loop'.pc = "reads"
    BY <2>1, Types DEF Accepts, WireTypeOK, LoopType
  <2>3. fdOf[c] = NoFd /\ NoFd \notin Fd /\ Free \notin Conn
    BY <2>2, FdFacts DEF Base, TypeInv, NotYet
  <2>4. DOMAIN channels \subseteq Fd /\ \A g \in DOMAIN channels : Known(channels[g])
    BY DEF Base, TypeInv, TypeOK, PollTypeOK, KnownOnly
  <2>5. \A g \in DOMAIN channels : channels[g] # c /\ channels[g] \in Conn
    BY <2>3, <2>4 DEF Known
  <2>6. fdOf'[c] = f /\ owner'[f] = c /\ \A d \in Conn \ {c} : fdOf'[d] = fdOf[d]
    BY <2>2
  <2>7. \A g \in Fd \ {f} : owner'[g] = owner[g]
    BY <2>2
  <2>8. AliveHolds'
    <3>1. ASSUME NEW d \in Conn \ {c}, chan[d].alive, fdOf[d] \in Fd PROVE Holds(d)'
      <4>1. Holds(d)
        BY <3>1 DEF OpenInv, AliveHolds
      <4>2. fdOf[d] # f
        BY <2>2, <2>3, <4>1 DEF Holds
      <4> QED
        BY <2>6, <2>7, <3>1, <4>1, <4>2 DEF Holds
    <3>2. Holds(c)'
      BY <2>3, <2>6 DEF Holds
    <3> QED
      BY <2>2, <2>6, <3>1, <3>2 DEF AliveHolds
  <2>9. LockedAlive'
    BY <2>2, <2>3, <2>6 DEF OpenInv, LockedAlive
  <2>10. MapOwns'
    <3>1. ASSUME NEW g \in DOMAIN channels', g # f
          PROVE  fdOf'[channels'[g]] = g /\ owner'[g] \in {channels'[g], Free}
      <4>1. g \in DOMAIN channels /\ channels'[g] = channels[g]
        BY <2>2, <3>1
      <4> QED
        BY <2>4, <2>5, <2>6, <2>7, <3>1, <4>1 DEF OpenInv, MapOwns, OwnOrFree
    <3>2. channels'[f] = c
      BY <2>2
    <3> QED
      BY <2>6, <3>1, <3>2 DEF MapOwns, OwnOrFree
  <2>11. LoopOwns'
    BY <2>2 DEF LoopOwns, AtChannel
  <2>12. StopOwns'
    <3> SUFFICES ASSUME main.pc = "close", main.chan \notin deleted
                 PROVE  /\ fdOf'[main.chan] \in DOMAIN channels'
                        /\ channels'[fdOf'[main.chan]] = main.chan
                        /\ chan[main.chan].alive
      BY <2>2 DEF StopOwns
    <3>1. /\ main.chan \in Conn /\ fdOf[main.chan] \in DOMAIN channels
          /\ channels[fdOf[main.chan]] = main.chan /\ chan[main.chan].alive
      BY <2>2, StandStill DEF OpenInv, StopOwns
    <3>2. main.chan # c
      BY <2>5, <3>1
    <3>3. Holds(main.chan)
      BY <2>4, <3>1 DEF OpenInv, AliveHolds
    <3>4. fdOf[main.chan] # f
      BY <2>2, <2>3, <3>1, <3>3 DEF Holds
    <3> QED
      BY <2>2, <2>6, <3>1, <3>2, <3>4
  <2> QED
    BY <2>8, <2>9, <2>10, <2>11, <2>12 DEF OpenInv
<1> QED
  BY <1>1, <1>2

\* What close() of a Channel does to the others: nothing, if its number is its
\* own or nobody's.
LEMMA CloseOpen ==
  ASSUME Base, OpenInv, NEW c \in Conn, CloseChan(c), OwnOrFree(fdOf[c], c),
         UNCHANGED <<channels, deleted>>
  PROVE  /\ AliveHolds' /\ LockedAlive' /\ MapOwns' /\ UNCHANGED fdOf
         /\ \A d \in Conn \ {c} : chan'[d] = chan[d]
         /\ \A f \in Fd : owner'[f] \in {owner[f], Free}
<1>0. /\ ~chan[c].locked /\ chan' = [chan EXCEPT ![c].alive = FALSE] /\ UNCHANGED fdOf
      /\ owner' = [f \in Fd |-> IF f = fdOf[c] THEN Free ELSE owner[f]]
      /\ chan \in [Conn -> Channel]
  BY Types DEF CloseChan, CloseFd, Close
<1>1. /\ \A d \in Conn \ {c} : chan'[d] = chan[d]
      /\ chan'[c].alive = FALSE /\ chan'[c].locked = chan[c].locked
  BY <1>0 DEF Channel
<1>2. \A f \in Fd : owner'[f] \in {owner[f], Free} /\ (f # fdOf[c] => owner'[f] = owner[f])
  BY <1>0
<1>3. AliveHolds'
  <2> SUFFICES ASSUME NEW d \in Conn, d # c, chan[d].alive, fdOf[d] \in Fd PROVE Holds(d)'
    BY <1>0, <1>1 DEF AliveHolds
  <2>1. owner[fdOf[d]] = d /\ fdOf[d] # NoFd
    BY DEF OpenInv, AliveHolds, Holds
  <2>2. fdOf[d] # fdOf[c]
    BY <2>1, FdFacts DEF OwnOrFree
  <2> QED
    BY <1>0, <1>2, <2>1, <2>2 DEF Holds
<1>4. LockedAlive'
  BY <1>0, <1>1 DEF OpenInv, LockedAlive
<1>5. MapOwns'
  <2>1. DOMAIN channels \subseteq Fd
    BY DEF Base, TypeInv, TypeOK, PollTypeOK
  <2> QED
    BY <1>0, <1>2, <2>1 DEF OpenInv, MapOwns, OwnOrFree
<1> QED
  BY <1>0, <1>1, <1>2, <1>3, <1>4, <1>5

LEMMA CloseChannelOpen ==
  ASSUME Base, OpenInv, CloseChannel
  PROVE  OpenInv'
<1>1. CASE Min(loop.reads) \notin DOMAIN channels
  <2>1. UNCHANGED <<fdVars, channels, deleted, chan, loop, main>>
    BY <1>1 DEF CloseChannel, Crash, loopVars, chanVars, mainVars, wireVars
  <2> QED
    BY <2>1, OpenQuiet
<1>2. CASE Min(loop.reads) \in DOMAIN channels
  <2>0. /\ loop.pc = "close" /\ CloseChan(loop.chan) /\ loop' = [loop EXCEPT !.pc = "unwatch"]
        /\ UNCHANGED <<channels, deleted, main>> /\ loop \in LoopType
    BY <1>2, Types DEF CloseChannel, LoopGoes, mainVars
  <2>1. /\ loop'.pc = "unwatch" /\ loop'.reads = loop.reads /\ loop'.chan = loop.chan
        /\ loop.chan \in Conn /\ Min(loop.reads) \in Fd
    BY <2>0, StandStill DEF LoopType, AtChannel
  <2>2. fdOf[loop.chan] = Min(loop.reads) /\ OwnOrFree(fdOf[loop.chan], loop.chan)
    BY <2>0 DEF OpenInv, LoopOwns, AtChannel
  <2>3. /\ AliveHolds' /\ LockedAlive' /\ MapOwns' /\ UNCHANGED fdOf
        /\ \A d \in Conn \ {loop.chan} : chan'[d] = chan[d]
        /\ \A f \in Fd : owner'[f] \in {owner[f], Free}
    BY <2>0, <2>1, <2>2, CloseOpen
  <2>4. LoopOwns'
    BY <2>1, <2>2, <2>3 DEF LoopOwns, OwnOrFree
  <2>5. StopOwns'
    <3>1. main.pc = "close" => main.chan \in Conn
      BY StandStill
    <3> QED
      BY <2>0, <2>1, <2>3, <3>1 DEF OpenInv, StopOwns
  <2> QED
    BY <2>3, <2>4, <2>5 DEF OpenInv
<1> QED
  BY <1>1, <1>2

LEMMA DropOpen ==
  ASSUME Base, OpenInv, DropChannel
  PROVE  OpenInv'
<1> DEFINE f == Min(loop.reads)
<1>0. /\ loop.pc = "drop" /\ loop' = [loop EXCEPT !.pc = "reads", !.reads = @ \ {f}]
      /\ deleted' = deleted \cup {channels[g] : g \in {f} \cap DOMAIN channels}
      /\ channels' = [g \in DOMAIN channels \ {f} |-> channels[g]]
      /\ UNCHANGED <<main, fdOf, owner, chan>> /\ loop \in LoopType
  BY Types DEF DropChannel, NextOne, mainVars, wireVars, fdVars
<1>1. loop'.pc = "reads"
  BY <1>0 DEF LoopType
<1>2. fdOf[loop.chan] = f
  BY <1>0 DEF OpenInv, LoopOwns, AtChannel
<1> HIDE DEF f
<1>3. /\ DOMAIN channels' = DOMAIN channels \ {f}
      /\ \A g \in DOMAIN channels \ {f} : channels'[g] = channels[g]
      /\ deleted \subseteq deleted' /\ (f \in DOMAIN channels => channels[f] \in deleted')
  BY <1>0
<1>4. AliveHolds' /\ LockedAlive'
  BY <1>0 DEF OpenInv, AliveHolds, LockedAlive, Holds
<1>5. MapOwns'
  BY <1>0, <1>3 DEF OpenInv, MapOwns, OwnOrFree
<1>6. LoopOwns'
  BY <1>1 DEF LoopOwns, AtChannel
<1>7. StopOwns'
  <2> SUFFICES ASSUME main.pc = "close", main.chan \notin deleted'
               PROVE  /\ fdOf[main.chan] \in DOMAIN channels'
                      /\ channels'[fdOf[main.chan]] = main.chan
                      /\ chan[main.chan].alive
    BY <1>0 DEF StopOwns
  <2>1. /\ fdOf[main.chan] \in DOMAIN channels
        /\ channels[fdOf[main.chan]] = main.chan
        /\ chan[main.chan].alive \/ loop.chan = main.chan
    BY <1>3 DEF OpenInv, StopOwns
  <2>2. fdOf[main.chan] # f
    BY <1>3, <2>1
  <2> QED
    BY <1>2, <1>3, <2>1, <2>2
<1> QED
  BY <1>4, <1>5, <1>6, <1>7 DEF OpenInv

\* Writing a chunk may unlock the Channel, and closes nothing.
LEMMA ChunkLocks ==
  ASSUME chan \in [Conn -> Channel], NEW c, WriteChunk(c)
  PROVE  \A d \in Conn : /\ chan'[d].alive = chan[d].alive
                         /\ chan'[d].locked => chan[d].locked
BY DEF WriteChunk, Channel

LEMMA LoopOpen ==
  ASSUME Base, OpenInv,
         \/ LoopOnly \/ ReadSize \/ ReadBody \/ ReadAlone \/ ReadAstray
         \/ UnwatchRead \/ WriteMore \/ UnwatchWrite
  PROVE  OpenInv'
<1>0. loop \in LoopType /\ chan \in [Conn -> Channel]
  BY Types
<1>1. UNCHANGED <<main, channels, deleted, fdOf, owner>>
  BY DEF LoopOnly, LoopTop, Snapshot, Select, ReadsDone, BeginRead, CheckBusy, Wait, WritesDone,
         ReadSize, ReadBody, ReadAlone, ReadAstray, ReadFrame, UnwatchRead, WriteMore,
         UnwatchWrite, Crash, chanVars,
         mainVars, wireVars, fdVars
<1>2. CASE LoopOnly
  <2>1. UNCHANGED chan /\ loop.pc \notin {"unwatch", "drop"}
    BY <1>2 DEF LoopOnly, LoopTop, Snapshot, Select, ReadsDone, BeginRead, CheckBusy, Wait,
                WritesDone, chanVars, NextRead
  <2>2. CASE BeginRead /\ Min(loop.reads) \in DOMAIN channels
    <3>1. /\ loop'.pc = "check" /\ loop'.chan = channels[Min(loop.reads)]
          /\ loop'.reads = loop.reads /\ loop.pc = "reads"
      BY <1>0, <2>2 DEF BeginRead, LoopType, NextRead
    <3>2. LoopOwns'
      BY <1>1, <2>2, <3>1 DEF OpenInv, MapOwns, LoopOwns, OwnOrFree
    <3>3. AliveHolds' /\ LockedAlive' /\ MapOwns'
      BY <1>1, <2>1 DEF OpenInv, AliveHolds, LockedAlive, MapOwns, OwnOrFree, Holds
    <3>4. StopOwns'
      BY <1>1, <2>1, <3>1 DEF OpenInv, StopOwns
    <3> QED
      BY <3>2, <3>3, <3>4 DEF OpenInv
  <2>3. CASE ~(BeginRead /\ Min(loop.reads) \in DOMAIN channels)
    <3>1. /\ loop'.pc \in AtChannel => loop.pc \in AtChannel /\ loop'.chan = loop.chan
                                       /\ loop'.reads = loop.reads
      BY <1>2, <2>3, LoopOnlyFacts
    <3> QED
      BY <1>1, <2>1, <3>1, OpenSame DEF OpenStill
  <2> QED
    BY <2>2, <2>3
<1>3. CASE ReadSize \/ ReadBody \/ ReadAlone \/ ReadAstray
  <2>0. loop.pc = "read"
    BY <1>3 DEF ReadSize, ReadBody, ReadAlone, ReadAstray
  <2>1. \A d \in Conn : chan'[d].alive = chan[d].alive /\ chan'[d].locked = chan[d].locked
    <3>1. \/ UNCHANGED chan
          \/ \E c, what : chan' = [chan EXCEPT ![c].inbox = what]
          \/ \E c : chan' = [chan EXCEPT ![c].busy = TRUE]
          \/ \E c, what : chan' = [chan EXCEPT ![c].inbox = what, ![c].busy = TRUE]
      BY <1>3 DEF ReadSize, ReadBody, ReadAlone, ReadAstray, Ready, Crash, chanVars
    <3>2. ASSUME NEW c, NEW what, chan' = [chan EXCEPT ![c].inbox = what]
          PROVE  \A d \in Conn : chan'[d].alive = chan[d].alive /\ chan'[d].locked = chan[d].locked
      BY <1>0, <3>2 DEF Channel
    <3>3. ASSUME NEW c, chan' = [chan EXCEPT ![c].busy = TRUE]
          PROVE  \A d \in Conn : chan'[d].alive = chan[d].alive /\ chan'[d].locked = chan[d].locked
      BY <1>0, <3>3 DEF Channel
    <3>4. ASSUME NEW c, NEW what, chan' = [chan EXCEPT ![c].inbox = what, ![c].busy = TRUE]
          PROVE  \A d \in Conn : chan'[d].alive = chan[d].alive /\ chan'[d].locked = chan[d].locked
      BY <1>0, <3>4 DEF Channel
    <3> QED
      BY <3>1, <3>2, <3>3, <3>4
  <2>2. /\ loop'.chan = loop.chan /\ loop'.pc \in {"read", "close", "reads"}
        /\ loop'.pc # "reads" => loop'.reads = loop.reads
    <3>1. UNCHANGED loop \/ loop' = [loop EXCEPT !.pc = "close"] \/ NextOne
      BY <1>3 DEF ReadSize, ReadBody, ReadAlone, ReadAstray, Ready, Crash, loopVars, LoopGoes
    <3> QED
      BY <1>0, <2>0, <3>1 DEF LoopType, NextOne
  <2> QED
    BY <1>1, <2>0, <2>1, <2>2, OpenSame DEF OpenStill, AtChannel
<1>4. CASE UnwatchRead
  <2>1. loop.pc = "unwatch" /\ loop' = [loop EXCEPT !.pc = "drop"] /\ UNCHANGED chan
    BY <1>4 DEF UnwatchRead, LoopGoes, chanVars
  <2>2. loop'.pc = "drop" /\ loop'.chan = loop.chan /\ loop'.reads = loop.reads
    BY <1>0, <2>1 DEF LoopType
  <2> QED
    BY <1>1, <2>1, <2>2, OpenSame DEF OpenStill, AtChannel
<1>5. CASE WriteMore \/ UnwatchWrite
  <2>1. \A d \in Conn : /\ chan'[d].alive = chan[d].alive
                        /\ chan'[d].locked => chan[d].locked
    <3>1. UNCHANGED chan \/ \E c : WriteChunk(c)
      BY <1>5 DEF WriteMore, UnwatchWrite, chanVars
    <3> QED
      BY <1>0, <3>1, ChunkLocks
  <2>2. loop.pc \in {"writes", "written"} /\ loop'.pc \in {"writes", "written"}
    <3>1. /\ loop.pc \in {"writes", "written"}
          /\ \/ UNCHANGED loop \/ loop' = [loop EXCEPT !.pc = "written"]
             \/ loop' = [loop EXCEPT !.writes = @ \ {Min(@)}]
             \/ loop' = [loop EXCEPT !.pc = "writes", !.writes = @ \ {Min(@)}]
      BY <1>5 DEF WriteMore, UnwatchWrite, LoopGoes, WriteNextOne
    <3> QED
      BY <1>0, <3>1 DEF LoopType
  <2> QED
    BY <1>1, <2>1, <2>2, OpenSame DEF OpenStill, AtChannel
<1> QED
  BY <1>2, <1>3, <1>4, <1>5

LEMMA WorkOpen ==
  ASSUME Base, OpenInv, NEW w \in Workers, WorkNext(w)
  PROVE  OpenInv'
<1>0. loop \in LoopType /\ chan \in [Conn -> Channel] /\ work \in [Workers -> WorkType]
  BY Types
<1>1. /\ UNCHANGED <<main, channels, deleted, fdVars>>
      /\ UNCHANGED loop \/ Notify(w)
  BY DEF WorkNext, Take, GetMessage, Notify, Handle, HandleGarbage, Lock, WriteFirst, WatchWrite,
         Unlock,
         Touches, Crash, loopVars, chanVars, mainVars, wireVars
<1>2. /\ loop'.pc \in AtChannel => loop.pc \in AtChannel /\ loop'.chan = loop.chan
                                   /\ loop'.reads = loop.reads
      /\ loop.pc \in {"unwatch", "drop"} => loop'.pc \in {"unwatch", "drop"}
  <2>1. CASE Notify(w)
    <3>1. \/ UNCHANGED loop
          \/ loop.pc = "waiting" /\ loop' = [loop EXCEPT !.pc = "check"]
      BY <2>1 DEF Notify, Touches, Crash, loopVars
    <3> QED
      BY <1>0, <3>1 DEF LoopType, AtChannel
  <2> QED
    BY <1>1, <2>1
<1>3. \A d \in Conn : /\ chan'[d].alive = chan[d].alive
                      /\ chan'[d].locked => chan[d].locked \/ (chan[d].alive /\ fdOf[d] \in Fd)
  <2>1. CASE UNCHANGED chan
    BY <2>1
  <2>2. CASE GetMessage(w) \/ Unlock(w)
    <3>1. \/ UNCHANGED chan
          \/ \E c : chan' = [chan EXCEPT ![c].inbox = "none", ![c].busy = FALSE]
          \/ \E c : chan' = [chan EXCEPT ![c].locked = FALSE]
      BY <2>2 DEF GetMessage, Unlock, Touches, Crash, chanVars
    <3>2. ASSUME NEW c, chan' = [chan EXCEPT ![c].inbox = "none", ![c].busy = FALSE]
          PROVE  \A d \in Conn : chan'[d].alive = chan[d].alive /\ chan'[d].locked = chan[d].locked
      BY <1>0, <3>2 DEF Channel
    <3>3. ASSUME NEW c, chan' = [chan EXCEPT ![c].locked = FALSE]
          PROVE  \A d \in Conn : /\ chan'[d].alive = chan[d].alive
                                 /\ chan'[d].locked => chan[d].locked
      BY <1>0, <3>3 DEF Channel
    <3> QED
      BY <2>1, <3>1, <3>2, <3>3
  <2>3. CASE WriteFirst(w)
    <3>1. UNCHANGED chan \/ WriteChunk(work[w].chan)
      BY <2>3 DEF WriteFirst, Touches, Crash, chanVars
    <3> QED
      BY <1>0, <3>1, ChunkLocks
  <2>4. CASE Lock(w)
    <3>1. \/ UNCHANGED chan
          \/ /\ chan[work[w].chan].alive /\ work[w].pc = "lock"
             /\ \E out, n : chan' = [chan EXCEPT ![work[w].chan].locked = TRUE,
                                                 ![work[w].chan].out = out,
                                                 ![work[w].chan].left = n]
      BY <2>4 DEF Lock, Touches, Crash, chanVars
    <3>2. CASE UNCHANGED chan
      BY <3>2
    <3>3. CASE ~UNCHANGED chan
      <4>1. fdOf[work[w].chan] \in Fd /\ chan[work[w].chan].alive
        BY <3>1, <3>3, WorkerHas
      <4>2. PICK out, n : chan' = [chan EXCEPT ![work[w].chan].locked = TRUE,
                                               ![work[w].chan].out = out,
                                               ![work[w].chan].left = n]
        BY <3>1, <3>3
      <4>3. \A d \in Conn : /\ chan'[d].alive = chan[d].alive
                            /\ d # work[w].chan => chan'[d].locked = chan[d].locked
        BY <1>0, <4>2 DEF Channel
      <4> QED
        BY <4>1, <4>3
    <3> QED
      BY <3>2, <3>3
  <2>5. UNCHANGED chan \/ GetMessage(w) \/ Unlock(w) \/ WriteFirst(w) \/ Lock(w)
    BY DEF WorkNext, Take, Notify, Handle, HandleGarbage, WatchWrite, Touches, Crash, chanVars
  <2> QED
    BY <2>1, <2>2, <2>3, <2>4, <2>5
<1> QED
  BY <1>1, <1>2, <1>3, OpenSame DEF OpenStill, fdVars

LEMMA StopOpen ==
  ASSUME Base, OpenInv, MainNext
  PROVE  OpenInv'
<1>0. /\ main \in MainType /\ (main.pc = "close" => main.chan \in Conn)
      /\ DOMAIN channels \subseteq Fd /\ \A f \in DOMAIN channels : channels[f] \in Conn
  BY Types, StandStill DEF Base, TypeInv, TypeOK, PollTypeOK
<1>1. UNCHANGED loop
  BY DEF MainNext, StopBegin, StopEach, StopClose, SetStop, Crash, loopVars
<1>2. CASE UNCHANGED <<fdVars, channels, deleted, chan>> /\ main'.pc # "close"
  BY <1>1, <1>2, OpenSame DEF OpenStill, fdVars
<1>3. CASE UNCHANGED <<fdVars, channels, deleted, chan, main>>
  BY <1>1, <1>3, OpenQuiet
<1>4. CASE StopBegin \/ SetStop
  BY <1>0, <1>2, <1>4 DEF StopBegin, SetStop, MainType, chanVars, wireVars
<1>5. CASE StopEach
  <2> DEFINE rest == {f \in DOMAIN channels : f > main.at}
  <2>0. UNCHANGED <<deleted, fdVars>>
    BY <1>5 DEF StopEach, Crash, chanVars, wireVars
  <2>1. CASE main.at # Listen /\ main.at \notin DOMAIN channels
    <3>1. UNCHANGED <<channels, chan, main>>
      BY <1>5, <2>1 DEF StopEach, Crash, chanVars, mainVars
    <3> QED
      BY <1>3, <2>0, <3>1
  <2>2. CASE ~(main.at # Listen /\ main.at \notin DOMAIN channels) /\ rest = {}
    <3>1. channels' = <<>> /\ main' = [main EXCEPT !.pc = "setStop"] /\ UNCHANGED chan
      BY <1>5, <2>2 DEF StopEach
    <3>2. DOMAIN channels' = {} /\ main'.pc = "setStop"
      BY <1>0, <3>1 DEF MainType
    <3>3. AliveHolds' /\ LockedAlive' /\ MapOwns' /\ LoopOwns' /\ StopOwns'
      BY <1>1, <2>0, <3>1, <3>2
         DEF OpenInv, AliveHolds, LockedAlive, MapOwns, LoopOwns, StopOwns, OwnOrFree, Holds, fdVars
    <3> QED
      BY <3>3 DEF OpenInv
  <2>3. CASE ~(main.at # Listen /\ main.at \notin DOMAIN channels) /\ rest # {}
    <3>1. PICK f : f = Min(rest)
      OBVIOUS
    <3>2. f \in DOMAIN channels
      <4>1. rest \in SUBSET (Fd \cup {Listen})
        BY <1>0
      <4> QED
        BY <2>3, <3>1, <4>1, MinIn
    <3>3. /\ main' = [pc |-> IF chan[channels[f]].alive THEN "close" ELSE "each",
                      at |-> f, chan |-> channels[f]]
          /\ UNCHANGED <<channels, chan>>
      BY <1>5, <2>3, <3>1 DEF StopEach
    <3>4. CASE ~chan[channels[f]].alive
      BY <1>2, <2>0, <3>3, <3>4
    <3>5. CASE chan[channels[f]].alive
      <4>1. main'.chan = channels[f] /\ fdOf[channels[f]] = f
        BY <3>2, <3>3 DEF OpenInv, MapOwns
      <4>2. StopOwns'
        BY <2>0, <3>2, <3>3, <3>5, <4>1 DEF StopOwns, fdVars
      <4>3. AliveHolds' /\ LockedAlive' /\ MapOwns' /\ LoopOwns'
        BY <1>1, <2>0, <3>3
           DEF OpenInv, AliveHolds, LockedAlive, MapOwns, LoopOwns, OwnOrFree, Holds, fdVars
      <4> QED
        BY <4>2, <4>3 DEF OpenInv
    <3> QED
      BY <3>4, <3>5
  <2> QED
    BY <2>1, <2>2, <2>3
<1>6. CASE StopClose
  <2>1. CASE main.chan \in deleted
    <3>1. UNCHANGED <<fdVars, channels, deleted, chan, main>>
      BY <1>6, <2>1 DEF StopClose, Crash, chanVars, mainVars, wireVars
    <3> QED
      BY <1>3, <3>1
  <2>2. CASE main.chan \notin deleted
    <3>1. /\ main.pc = "close" /\ CloseChan(main.chan) /\ main' = [main EXCEPT !.pc = "each"]
          /\ UNCHANGED <<channels, deleted>>
      BY <1>6, <2>2 DEF StopClose
    <3>2. main'.pc = "each"
      BY <1>0, <3>1 DEF MainType
    <3>3. OwnOrFree(fdOf[main.chan], main.chan)
      BY <2>2, <3>1 DEF OpenInv, StopOwns, MapOwns
    <3>4. /\ AliveHolds' /\ LockedAlive' /\ MapOwns' /\ UNCHANGED fdOf
          /\ \A f \in Fd : owner'[f] \in {owner[f], Free}
      BY <1>0, <3>1, <3>3, CloseOpen
    <3>5. LoopOwns'
      BY <1>1, <3>4, StandStill DEF OpenInv, LoopOwns, OwnOrFree
    <3>6. StopOwns'
      BY <3>2 DEF StopOwns
    <3> QED
      BY <3>4, <3>5, <3>6 DEF OpenInv
  <2> QED
    BY <2>1, <2>2
<1> QED
  BY <1>4, <1>5, <1>6 DEF MainNext

LEMMA OpenStep ==
  ASSUME Base, OpenInv, [Next]_vars
  PROVE  OpenInv'
<1>1. CASE LoopNext
  BY <1>1, LoopOpen, AcceptOpen, CloseChannelOpen, DropOpen DEF LoopNext, LoopOnly
<1>2. CASE \E w \in Workers : WorkNext(w)
  BY <1>2, WorkOpen
<1>3. CASE MainNext
  BY <1>3, StopOpen
<1>4. CASE Environment \/ UNCHANGED vars
  <2>1. UNCHANGED <<fdVars, channels, deleted, chan, loop, main>>
    <3>1. CASE Environment
      BY <3>1, ClientPresent DEF Environment, loopVars, chanVars, mainVars
    <3>2. CASE UNCHANGED vars
      BY <3>2 DEF vars, loopVars, chanVars, mainVars, wireVars
    <3> QED
      BY <1>4, <3>1, <3>2
  <2> QED
    BY <2>1, OpenQuiet
<1> QED
  BY <1>1, <1>2, <1>3, <1>4 DEF Next

\* stop() closes Channels from its own thread and takes none out of the map one
\* by one, the loop thread closes and drops them meanwhile, and accept() reuses
\* their numbers: still no close() takes the descriptor of another Channel.
THEOREM NumbersOwned == Spec => []OpenInv
<1>1. Init => OpenInv
  <2> SUFFICES ASSUME Init PROVE OpenInv
    OBVIOUS
  <2>1. /\ channels = <<>> /\ loop.pc = "top" /\ main.pc = "running"
        /\ \A c \in Conn : fdOf[c] = NoFd /\ ~chan[c].locked
    BY DEF Init, WireInit
  <2>2. DOMAIN channels = {} /\ NoFd \notin Fd
    BY <2>1, FdFacts
  <2> QED
    BY <2>1, <2>2 DEF OpenInv, AliveHolds, LockedAlive, MapOwns, LoopOwns, StopOwns, AtChannel
<1>2. Base /\ OpenInv /\ [Next]_vars => OpenInv'
  BY OpenStep
<1> QED
  BY <1>1, <1>2, BaseHolds, PTL DEF Spec

\* While _send_mutex is held for a reply the descriptor is open and its client's,
\* also while stop() runs: close() waits for the mutex, a send that gets it later
\* gives up, and the number is not another connection's meanwhile.
THEOREM LockedOpen == Spec => []LockedIsOpen
<1>1. OpenInv => LockedIsOpen
  BY DEF OpenInv, AliveHolds, LockedAlive, LockedIsOpen
<1> QED
  BY <1>1, NumbersOwned, PTL

-----------------------------------------------------------------------------
(* Who writes to whom, until stop() is called *)

\* A connection that was accepted has its Channel in the map, or has lost it.
OwnMapped ==
  \A c \in Conn : fdOf[c] \in Fd =>
    c \in deleted \/ (fdOf[c] \in DOMAIN channels /\ channels[fdOf[c]] = c)

OwnInv == main.pc = "running" => OwnMapped /\ crash # "stray"

LEMMA OwnSame ==
  ASSUME OwnInv, UNCHANGED <<fdOf, channels, deleted>>,
         main'.pc = "running" => main.pc = "running",
         crash' = "stray" => main.pc # "running" \/ crash = "stray"
  PROVE  OwnInv'
BY DEF OwnInv, OwnMapped

\* What is in the map is its own or nobody's, and so is what has not been deleted.
LEMMA MapNeverStrays ==
  ASSUME OpenInv, NEW f \in DOMAIN channels
  PROVE  ~Strays(channels[f])
BY FdFacts DEF Strays, OpenInv, MapOwns, OwnOrFree

LEMMA QuietLoopOwn ==
  ASSUME Base, OpenInv, OwnInv,
         \/ LoopOnly \/ ReadSize \/ ReadBody \/ ReadAlone \/ ReadAstray
         \/ CloseChannel \/ UnwatchRead \/ WriteMore \/ UnwatchWrite
  PROVE  OwnInv'
<1>1. UNCHANGED <<main, channels, deleted, fdOf>>
  BY DEF LoopOnly, LoopTop, Snapshot, Select, ReadsDone, BeginRead, CheckBusy, Wait, WritesDone,
         ReadSize, ReadBody, ReadAlone, ReadAstray, ReadFrame, CloseChannel, CloseChan, CloseFd,
         UnwatchRead, WriteMore, UnwatchWrite, Crash, chanVars, mainVars, wireVars, fdVars
<1>2. crash' = "stray" => crash = "stray"
  <2>1. CASE WriteMore
    <3>1. \/ UNCHANGED crash
          \/ /\ Min(loop.writes) \in DOMAIN channels
             /\ crash' = HowItCrashes(channels[Min(loop.writes)])
      BY <2>1 DEF WriteMore
    <3> QED
      BY <3>1, MapNeverStrays DEF HowItCrashes
  <2>2. CASE ~WriteMore
    BY <2>2 DEF LoopOnly, LoopTop, Snapshot, Select, ReadsDone, BeginRead, CheckBusy, Wait, WritesDone,
         ReadSize, ReadBody, ReadAlone, ReadAstray, Ready, CloseChannel, UnwatchRead, UnwatchWrite, Crash
  <2> QED
    BY <2>1, <2>2
<1> QED
  BY <1>1, <1>2, OwnSame

\* The number accept() hands out is in nobody's place of the map.
LEMMA AcceptOwn ==
  ASSUME Base, OpenInv, ChannelsMatchPoll, OwnInv, Accept
  PROVE  OwnInv'
<1>1. CASE FreeFds = {}
  <2>1. UNCHANGED <<main, channels, deleted, fdOf>> /\ crash' = "accept"
    BY <1>1 DEF Accept, Crash, chanVars, mainVars, wireVars, fdVars
  <2> QED
    BY <2>1, OwnSame
<1>2. CASE FreeFds # {}
  <2>0. PICK c : c = loop.accepted + 1
    OBVIOUS
  <2>1. PICK f \in Fd : Accepts(f, c)
    BY <1>2, <2>0, AcceptFacts
  <2>2. /\ owner[f] = Free /\ c \in Conn /\ fdOf' = [fdOf EXCEPT ![c] = f]
        /\ UNCHANGED <<main, deleted, crash>> /\ loop.pc = "reads"
        /\ channels' = [g \in DOMAIN channels \cup {f} |-> IF g = f THEN c ELSE channels[g]]
    BY <2>1 DEF Accepts
  <2>3. /\ DOMAIN channels' = DOMAIN channels \cup {f} /\ channels'[f] = c
        /\ \A g \in DOMAIN channels \ {f} : channels'[g] = channels[g]
    BY <2>2
  <2> SUFFICES ASSUME main.pc = "running" PROVE OwnMapped' /\ crash' # "stray"
    BY <2>2 DEF OwnInv
  <2>4. f \notin DOMAIN channels
    <3>1. f \in DOMAIN channels => fdOf[channels[f]] = f /\ Holds(channels[f])
      BY <2>2 DEF ChannelsMatchPoll, Closing
    <3>2. f \in DOMAIN channels => channels[f] \in Conn
      BY DEF Base, TypeInv, TypeOK, PollTypeOK
    <3> QED
      BY <2>2, <3>1, <3>2, FdFacts DEF Holds
  <2>5. ASSUME NEW d \in Conn, fdOf'[d] \in Fd
        PROVE  d \in deleted \/ (fdOf'[d] \in DOMAIN channels' /\ channels'[fdOf'[d]] = d)
    <3>0. fdOf \in [Conn -> Fd \cup {NoFd}]
      BY Types DEF WireTypeOK
    <3>1. CASE d = c
      BY <2>2, <2>3, <3>0, <3>1
    <3>2. CASE d # c
      <4>1. fdOf'[d] = fdOf[d]
        BY <2>2, <3>0, <3>2
      <4> QED
        BY <2>3, <2>4, <2>5, <4>1 DEF OwnInv, OwnMapped
    <3> QED
      BY <3>1, <3>2
  <2> QED
    BY <2>2, <2>5 DEF OwnInv, OwnMapped
<1> QED
  BY <1>1, <1>2

\* What leaves the map is deleted.
LEMMA DropOwn ==
  ASSUME Base, OwnInv, DropChannel
  PROVE  OwnInv'
<1> DEFINE f == Min(loop.reads)
<1>1. /\ deleted' = deleted \cup {channels[g] : g \in {f} \cap DOMAIN channels}
      /\ channels' = [g \in DOMAIN channels \ {f} |-> channels[g]]
      /\ UNCHANGED <<main, fdOf, crash>>
  BY DEF DropChannel, mainVars, wireVars, fdVars
<1> HIDE DEF f
<1>2. /\ DOMAIN channels' = DOMAIN channels \ {f} /\ deleted \subseteq deleted'
      /\ \A g \in DOMAIN channels \ {f} : channels'[g] = channels[g]
      /\ f \in DOMAIN channels => channels[f] \in deleted'
  BY <1>1
<1> QED
  BY <1>1, <1>2 DEF OwnInv, OwnMapped

\* A worker writes to a Channel only while it has not been deleted.
LEMMA WorkOwn ==
  ASSUME Base, OpenInv, OwnInv, NEW w \in Workers, WorkNext(w)
  PROVE  OwnInv'
<1>1. UNCHANGED <<main, channels, deleted, fdOf>>
  BY DEF WorkNext, Take, GetMessage, Notify, Handle, HandleGarbage, Lock, WriteFirst, WatchWrite,
         Unlock, Touches, Crash, chanVars, mainVars, wireVars, fdVars
<1>2. \/ UNCHANGED crash \/ crash' = "freed"
      \/ /\ work[w].pc = "write" /\ work[w].chan \notin deleted
         /\ crash' = HowItCrashes(work[w].chan)
  BY DEF WorkNext, Take, GetMessage, Notify, Handle, HandleGarbage, Lock, WriteFirst, WatchWrite,
         Unlock, Touches, Crash
<1>3. ASSUME main.pc = "running", work[w].pc = "write", work[w].chan \notin deleted
      PROVE  ~Strays(work[w].chan)
  <2>1. work[w].chan \in Conn
    BY <1>3, WorkerHas
  <2> QED
    BY <1>3, <2>1, MapNeverStrays DEF OwnInv, OwnMapped, Strays
<1>4. crash' = "stray" => main.pc # "running" \/ crash = "stray"
  BY <1>2, <1>3 DEF HowItCrashes
<1> QED
  BY <1>1, <1>4, OwnSame

LEMMA OwnStep ==
  ASSUME Base, OpenInv, ChannelsMatchPoll, OwnInv, [Next]_vars
  PROVE  OwnInv'
<1>1. CASE LoopNext
  BY <1>1, QuietLoopOwn, AcceptOwn, DropOwn DEF LoopNext, LoopOnly
<1>2. CASE \E w \in Workers : WorkNext(w)
  BY <1>2, WorkOwn
<1>3. CASE MainNext
  BY <1>3, MainLeaves DEF OwnInv
<1>4. CASE Environment \/ UNCHANGED vars
  <2>1. UNCHANGED <<main, channels, deleted, fdOf, crash>>
    <3>1. CASE Environment
      BY <3>1, ClientPresent DEF Environment, chanVars, mainVars, fdVars
    <3>2. CASE UNCHANGED vars
      BY <3>2 DEF vars, chanVars, mainVars, wireVars, fdVars
    <3> QED
      BY <1>4, <3>1, <3>2
  <2> QED
    BY <2>1, OwnSame
<1> QED
  BY <1>1, <1>2, <1>3, <1>4 DEF Next

\* Until stop() is called, a Channel that has not been deleted writes to its own
\* connection or to a closed number, never to the connection that has got the
\* number since: the loop thread drops a Channel before it accepts again, and a
\* worker that comes later finds the Channel deleted.
THEOREM OwnStreams == Spec => []WritesReachOwn
<1>1. Init => OwnInv
  <2> SUFFICES ASSUME Init PROVE OwnInv
    OBVIOUS
  <2>1. crash = "no" /\ \A c \in Conn : fdOf[c] = NoFd
    BY DEF Init, WireInit
  <2> QED
    BY <2>1, FdFacts DEF OwnInv, OwnMapped
<1>2. Base /\ OpenInv /\ ChannelsMatchPoll /\ OwnInv /\ [Next]_vars => OwnInv'
  BY OwnStep
<1>3. OwnInv => WritesReachOwn
  BY DEF OwnInv, WritesReachOwn
<1> QED
  BY <1>1, <1>2, <1>3, BaseHolds, NumbersOwned, MapMatches, PTL DEF Spec
=============================================================================
