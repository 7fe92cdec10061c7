------------------------------ MODULE PollServer ------------------------------
(***************************************************************************)
(* PollServer: a loop thread select()s over the listening socket and one   *)
(* Channel per connection, reads requests, and hands each to a thread      *)
(* pool; a worker runs it and writes the first chunk of the reply, and the *)
(* loop thread the chunks after that.  The thread that owns the server may *)
(* call stop().                                                            *)
(*                                                                         *)
(* A Channel is named by the connection it was made for.  Its _busy and    *)
(* its _write_buffer are shared with workers without a lock; _send_mutex   *)
(* is a boolean, because the code unlocks it from other threads than the   *)
(* one that locked it.                                                     *)
(*                                                                         *)
(* Definitions marked "Mutant" are not part of the specification.          *)
(***************************************************************************)
EXTENDS Wire, FiniteSetsExt

CONSTANTS
  Workers,    \* the threads of the ThreadPool
  MaxChunks,  \* chunks a reply takes at most
  StopCalls,  \* may stop() be called?
  SizeAlone   \* may the four bytes of a size arrive before the text behind it?

ASSUME PollServerAssumption ==
  /\ MaxChunks \in Nat \ {0}
  /\ StopCalls \in BOOLEAN
  /\ SizeAlone \in BOOLEAN

Listen == 0   \* the number of the listening socket, the lowest there is

VARIABLES
  readSet, writeSet, watchedRead, watchedWrite, highest,  \* PollManager
  snap,      \* poll()'s copy of it: [reads, writes, highest]
  loop,      \* the loop thread: [pc, reads, writes, chan, accepted]
  channels,  \* _channels, from descriptors to Channels
  chan,      \* each Channel: [busy, inbox, out, left, locked, alive]
  deleted,   \* Channels that were deleted
  jobs,      \* the queue of the thread pool
  work,      \* each worker: [pc, chan, held]
  main,      \* the owner: [pc, at, chan]
  stop,      \* _stop
  executed,  \* service methods run for the connection
  crash      \* how the process died, or met undefined behaviour

Poll == INSTANCE PollManager WITH Number <- Fd \cup {Listen}

pollVars == <<readSet, writeSet, watchedRead, watchedWrite, highest>>
loopVars == <<snap, loop>>
chanVars == <<channels, chan, deleted>>
poolVars == <<jobs, work, executed>>
mainVars == <<main, stop>>
vars == <<pollVars, loopVars, chanVars, poolVars, mainVars, crash, wireVars>>

NoConn == 0
Nobody == 0

LoopPcs == {"top", "poll", "select", "reads", "check", "wait", "waiting",
            "read", "close", "unwatch", "drop", "writes", "written", "done"}
WorkPcs == {"idle", "get", "notify", "handle", "lock", "write", "watch", "unlock"}
MainPcs == {"running", "each", "close", "setStop", "stopped"}
Crashes == {"no", "write", "stray", "memcpy", "freed", "null", "accept"}

\* What is handed on as a message: a request, or what an array held before
\* anything was read into it.
Messages == RequestKinds \cup IF SizeAlone THEN {"garbage"} ELSE {}

\* _write_buffer: none, part of a message, a message, or one as large as the
\* text says that was read in the place of a size; _read_buffer: the reply and
\* how many of its chunks are still to be written.
Channel == [busy : BOOLEAN,
            inbox : {"none", "part"} \cup Messages \cup IF SizeAlone THEN {"astray"} ELSE {},
            out : {"none"} \cup Frames, left : 0 .. MaxChunks,
            locked : BOOLEAN, alive : BOOLEAN]

PollTypeOK ==
  /\ Poll!TypeOK
  /\ snap \in [reads : SUBSET (Fd \cup {Listen}), writes : SUBSET Fd,
               highest : Fd \cup {Listen}]
  /\ loop \in [pc : LoopPcs, reads : SUBSET (Fd \cup {Listen}), writes : SUBSET Fd,
               chan : Conn \cup {NoConn}, accepted : 0 .. MaxConns]
  /\ DOMAIN channels \subseteq Fd /\ \A f \in DOMAIN channels : channels[f] \in Conn
  /\ chan \in [Conn -> Channel]
  /\ deleted \subseteq Conn
  /\ jobs \in Seq(Conn)
  /\ work \in [Workers -> [pc : WorkPcs, chan : Conn \cup {NoConn},
                           held : {"nothing"} \cup Messages \cup Frames]]
  /\ main \in [pc : MainPcs, at : Fd \cup {Listen}, chan : Conn \cup {NoConn}]
  /\ stop \in BOOLEAN
  /\ executed \in [Conn -> Nat]
  /\ crash \in Crashes

\* Every variable of the server and of the wire has its type.
TypeOK == WireTypeOK /\ PollTypeOK

\* start() has run: the listening socket is watched, the loop at its top.
Init ==
  /\ WireInit
  /\ readSet = {Listen} /\ writeSet = {}
  /\ watchedRead = {Listen} /\ watchedWrite = {}
  /\ highest = Listen
  /\ snap = [reads |-> {}, writes |-> {}, highest |-> Listen]
  /\ loop = [pc |-> "top", reads |-> {}, writes |-> {}, chan |-> NoConn,
             accepted |-> 0]
  /\ channels = <<>>
  /\ chan = [c \in Conn |-> [busy |-> FALSE, inbox |-> "none", out |-> "none",
                             left |-> 0, locked |-> FALSE, alive |-> TRUE]]
  /\ deleted = {}
  /\ jobs = <<>>
  /\ work = [w \in Workers |-> [pc |-> "idle", chan |-> NoConn, held |-> "nothing"]]
  /\ main = [pc |-> "running", at |-> Listen, chan |-> NoConn]
  /\ stop = FALSE
  /\ executed = [c \in Conn |-> 0]
  /\ crash = "no"

Crash(how) ==
  /\ crash' = how
  /\ UNCHANGED <<pollVars, loopVars, chanVars, poolVars, mainVars, wireVars>>

-----------------------------------------------------------------------------
(* Channel *)

\* Mutant: _send_mutex is not taken.
CloseChanUnlocked(c) ==
  /\ chan' = [chan EXCEPT ![c].alive = FALSE]
  /\ CloseFd(c)

\* Channel::close(), once it has _send_mutex.
CloseChan(c) ==
  /\ ~chan[c].locked
  /\ chan' = [chan EXCEPT ![c].alive = FALSE]
  /\ CloseFd(c)

\* Channel::write(): the next chunk of the reply, if any is left.  The result
\* of ::write() is not looked at, so that a closed descriptor goes unnoticed; a
\* number that another connection has got meanwhile takes the chunk into that
\* connection's stream, where the model ends.  _send_mutex is unlocked once
\* nothing is left.
LastChunk(c) == chan[c].left <= 1
Strays(c) == chan[c].left > 0 /\ fdOf[c] \in Fd /\ owner[fdOf[c]] \in Conn \ {c}
WriteCrashes(c) == Strays(c) \/ (chan[c].left > 0 /\ Holds(c) /\ WriteKills(c))
HowItCrashes(c) == IF Strays(c) THEN "stray" ELSE "write"

\* Mutant: nobody unlocks _send_mutex after the last chunk.
WriteChunkLocked(c) ==
  /\ chan' = [chan EXCEPT ![c].left = IF LastChunk(c) THEN 0 ELSE @ - 1]
  /\ IF chan[c].left = 0 \/ ~Holds(c) THEN UNCHANGED clientVars
     ELSE IF LastChunk(c) THEN Write(c, chan[c].out)
     ELSE /\ client' = [client EXCEPT ![c] = IF @ = "closed" THEN "reset" ELSE @]
          /\ UNCHANGED <<up, down, calls, acked, denied>>

WriteChunk(c) ==
  /\ chan' = [chan EXCEPT ![c].left = IF LastChunk(c) THEN 0 ELSE @ - 1,
                          ![c].locked = @ /\ ~LastChunk(c)]
  /\ IF chan[c].left = 0 \/ ~Holds(c) THEN UNCHANGED clientVars
     ELSE IF LastChunk(c) THEN Write(c, chan[c].out)
     ELSE /\ client' = [client EXCEPT ![c] = IF @ = "closed" THEN "reset" ELSE @]
          /\ UNCHANGED <<up, down, calls, acked, denied>>

-----------------------------------------------------------------------------
(* The loop thread: poll() *)

LoopGoes(pc) == loop' = [loop EXCEPT !.pc = pc]

LoopTop ==
  /\ loop.pc = "top"
  /\ LoopGoes(IF stop THEN "done" ELSE "poll")
  /\ UNCHANGED <<pollVars, snap, chanVars, poolVars, mainVars, crash, wireVars>>

\* The sets are copied under PollManager::_mutex.
Snapshot ==
  /\ loop.pc = "poll"
  /\ snap' = [reads |-> readSet, writes |-> writeSet, highest |-> highest]
  /\ LoopGoes("select")
  /\ UNCHANGED <<pollVars, chanVars, poolVars, mainVars, crash, wireVars>>

UpTo(S) == {f \in S : f <= snap.highest}
HasInput(f) == owner[f] \in Conn /\ (up[owner[f]] # <<>> \/ client[owner[f]] \in Gone)

\* Mutant: select() without a timeout waits until the copy has something.
SelectForever ==
  /\ loop.pc = "select"
  /\ \E ready \in {{f \in UpTo(snap.reads) \ {Listen} : HasInput(f)},
                   {Listen} \cup {f \in UpTo(snap.reads) \ {Listen} : HasInput(f)}} :
       /\ Listen \in ready => loop.accepted < MaxConns
       /\ ready \cup UpTo(snap.writes) # {}
       /\ loop' = [loop EXCEPT !.pc = "reads", !.reads = ready,
                               !.writes = UpTo(snap.writes)]
  /\ UNCHANGED <<pollVars, snap, chanVars, poolVars, mainVars, crash, wireVars>>

\* select() over the copy.  A descriptor that is closed makes it fail, and
\* poll() return; nothing ready within the timeout makes poll() copy the sets
\* again.  A peer that wants to connect may come at any time; there is always
\* room to write.
Select ==
  /\ loop.pc = "select"
  /\ LET fds == UpTo(snap.reads \cup snap.writes) \ {Listen}
         input == {f \in UpTo(snap.reads) \ {Listen} : HasInput(f)}
     IN IF \E f \in fds : owner[f] = Free
          THEN loop' = [loop EXCEPT !.pc = "top", !.reads = {}, !.writes = {}]
          ELSE \E ready \in {input, input \cup {Listen}} :
                 /\ Listen \in ready => loop.accepted < MaxConns
                 /\ loop' = [loop EXCEPT
                      !.pc = IF ready \cup UpTo(snap.writes) = {} THEN "poll"
                                                                  ELSE "reads",
                      !.reads = ready, !.writes = UpTo(snap.writes)]
  /\ UNCHANGED <<pollVars, snap, chanVars, poolVars, mainVars, crash, wireVars>>

-----------------------------------------------------------------------------
(* The loop thread: what is ready for reading, in the order of poll() *)

NextRead == loop.pc = "reads" /\ loop.reads # {}

ReadsDone ==
  /\ loop.pc = "reads" /\ loop.reads = {}
  /\ LoopGoes("writes")
  /\ UNCHANGED <<pollVars, snap, chanVars, poolVars, mainVars, crash, wireVars>>

\* A new connection; accept() failing is fatal.
Accept ==
  /\ NextRead /\ Min(loop.reads) = Listen
  /\ IF FreeFds = {}
       THEN Crash("accept")
       ELSE LET c == loop.accepted + 1 IN
            /\ AcceptFd(c)
            /\ Poll!Watch(fdOf'[c], "READ")
            /\ channels' = [f \in DOMAIN channels \cup {fdOf'[c]} |->
                              IF f = fdOf'[c] THEN c ELSE channels[f]]
            /\ loop' = [loop EXCEPT !.accepted = c, !.reads = @ \ {Listen}]
            /\ UNCHANGED <<snap, chan, deleted, poolVars, mainVars, crash>>

\* Nothing is known of the descriptor, or its Channel is read.
BeginRead ==
  /\ NextRead /\ Min(loop.reads) # Listen
  /\ LET f == Min(loop.reads) IN
       loop' = IF f \in DOMAIN channels
                 THEN [loop EXCEPT !.pc = "check", !.chan = channels[f]]
                 ELSE [loop EXCEPT !.reads = @ \ {f}]
  /\ UNCHANGED <<pollVars, snap, chanVars, poolVars, mainVars, crash, wireVars>>

\* while (_busy): without a lock, so that the worker may clear it and notify
\* before the loop thread waits.
CheckBusy ==
  /\ loop.pc = "check"
  /\ LoopGoes(IF chan[loop.chan].busy THEN "wait" ELSE "read")
  /\ UNCHANGED <<pollVars, snap, chanVars, poolVars, mainVars, crash, wireVars>>

Wait ==
  /\ loop.pc = "wait"
  /\ LoopGoes("waiting")
  /\ UNCHANGED <<pollVars, snap, chanVars, poolVars, mainVars, crash, wireVars>>

ReadFrame == UNCHANGED <<pollVars, snap, channels, deleted, work, executed, mainVars,
                         down, client, calls, acked, denied, fdVars>>

NextOne == loop' = [loop EXCEPT !.pc = "reads", !.reads = @ \ {Min(@)}]
ReadFails(c) == ~Holds(c) \/ client[c] = "reset"

\* Mutant: _busy is not set.
ReadyNotBusy(c, kind) ==
  /\ chan' = [chan EXCEPT ![c].inbox = kind]
  /\ jobs' = Append(jobs, c)
  /\ NextOne /\ UNCHANGED crash

\* The message is complete: _busy is set and the job queued, for whatever
\* Channel _channels holds by now.
Ready(c, kind) ==
  /\ chan' = [chan EXCEPT ![c].inbox = kind, ![c].busy = TRUE]
  /\ IF Min(loop.reads) \in DOMAIN channels
       THEN jobs' = Append(jobs, channels[Min(loop.reads)]) /\ UNCHANGED crash
       ELSE crash' = "null" /\ UNCHANGED jobs
  /\ NextOne

\* Channel::read() of a size, and of what came with it.
ReadSize ==
  LET c == loop.chan IN
  /\ loop.pc = "read" /\ chan[c].inbox = "none"
  /\ \/ /\ ReadFails(c) \/ (up[c] = <<>> /\ client[c] # "closed")
        /\ chan' = [chan EXCEPT ![c].busy = TRUE]
        /\ LoopGoes("close")
        /\ UNCHANGED <<up, jobs, crash>>
     \/ /\ ~ReadFails(c) /\ up[c] = <<>> /\ client[c] = "closed"
        /\ LoopGoes("close")
        /\ UNCHANGED <<up, chan, jobs, crash>>
     \/ /\ ~ReadFails(c) /\ up[c] # <<>> /\ Head(up[c]) # "size"
        /\ up' = [up EXCEPT ![c] = Tail(@)]
        /\ chan' = [chan EXCEPT ![c].busy = TRUE]
        /\ LoopGoes("close")
        /\ UNCHANGED <<jobs, crash>>
     \/ /\ ~ReadFails(c) /\ Len(up[c]) = 1 /\ Head(up[c]) = "size"
        /\ up' = [up EXCEPT ![c] = <<>>]
        /\ chan' = [chan EXCEPT ![c].inbox = "part"]
        /\ NextOne
        /\ UNCHANGED <<jobs, crash>>
     \/ /\ ~ReadFails(c) /\ Len(up[c]) > 1 /\ Head(up[c]) = "size"
        /\ up' = [up EXCEPT ![c] = Tail(Tail(@))]
        /\ Ready(c, up[c][2])
  /\ ReadFrame

\* Channel::read() of the rest.  read() returning 0 changes nothing; -1 makes
\* SizedWRONBuffer::write copy SIZE_MAX bytes.
ReadBody ==
  LET c == loop.chan IN
  /\ loop.pc = "read" /\ chan[c].inbox = "part"
  /\ IF ReadFails(c) \/ (up[c] = <<>> /\ client[c] # "closed")
       THEN Crash("memcpy")
       ELSE /\ IF up[c] = <<>>
                 THEN NextOne /\ UNCHANGED <<up, chan, jobs, crash>>
                 ELSE up' = [up EXCEPT ![c] = Tail(@)] /\ Ready(c, Head(up[c]))
            /\ ReadFrame

\* The size has arrived without the text written behind it: the second read()
\* of the call is -1, which SizedWRONBuffer::write takes for more than it has
\* room for, and an empty buffer is full at once.  The text stays behind, here
\* as "badsize", for the next call to read four bytes of it as a size: of a
\* buffer so large that nothing fills it.  Copying more than chunk holds may
\* also end the process.
ReadAlone ==
  LET c == loop.chan IN
  /\ SizeAlone /\ loop.pc = "read"
  /\ \/ /\ chan[c].inbox = "none" /\ ~ReadFails(c) /\ up[c] # <<>> /\ Head(up[c]) = "size"
        /\ Len(up[c]) > 1 \/ client[c] # "closed"
        /\ up' = [up EXCEPT ![c] = IF Len(@) = 1 THEN <<"badsize">> ELSE Tail(@)]
        /\ Ready(c, "garbage")
     \/ /\ chan[c].inbox = "part" /\ ReadFails(c)
        /\ Ready(c, "garbage")
        /\ UNCHANGED up
     \/ /\ chan[c].inbox = "none" /\ ~ReadFails(c) /\ up[c] # <<>> /\ Head(up[c]) # "size"
        /\ up' = [up EXCEPT ![c] = Tail(@)]
        /\ chan' = [chan EXCEPT ![c].inbox = "astray"]
        /\ NextOne
        /\ UNCHANGED <<jobs, crash>>
     \/ /\ chan[c].inbox = "none" /\ ~ReadFails(c) /\ up[c] # <<>>
        /\ Crash("memcpy")
  /\ ReadFrame

\* Channel::read() into a buffer that is never full.
ReadAstray ==
  LET c == loop.chan IN
  /\ loop.pc = "read" /\ chan[c].inbox = "astray"
  /\ IF ReadFails(c) \/ (up[c] = <<>> /\ client[c] # "closed")
       THEN Crash("memcpy")
       ELSE /\ up' = [up EXCEPT ![c] = IF @ = <<>> THEN @ ELSE Tail(@)]
            /\ NextOne
            /\ UNCHANGED <<chan, jobs, crash>>
            /\ ReadFrame

\* CLOSED or BROKEN: _channels[*it]->close(), which waits for _send_mutex.
CloseChannel ==
  /\ loop.pc = "close"
  /\ IF Min(loop.reads) \notin DOMAIN channels
       THEN Crash("null")
       ELSE /\ CloseChan(loop.chan)
            /\ LoopGoes("unwatch")
            /\ UNCHANGED <<pollVars, snap, channels, deleted, poolVars, mainVars,
                           crash, clientVars>>

UnwatchRead ==
  /\ loop.pc = "unwatch"
  /\ Poll!Unwatch(Min(loop.reads), "READ")
  /\ LoopGoes("drop")
  /\ UNCHANGED <<snap, chanVars, poolVars, mainVars, crash, wireVars>>

\* Mutant: the Channel is deleted and stays in the map.
DropChannelKept ==
  /\ loop.pc = "drop"
  /\ Poll!Unwatch(Min(loop.reads), "WRITE")
  /\ deleted' = deleted \cup {loop.chan}
  /\ NextOne
  /\ UNCHANGED <<snap, channels, chan, poolVars, mainVars, crash, wireVars>>

\* Mutant: the Channel is not deleted, for a worker may still have it.
DropChannelLeaked ==
  /\ loop.pc = "drop"
  /\ Poll!Unwatch(Min(loop.reads), "WRITE")
  /\ channels' = [g \in DOMAIN channels \ {Min(loop.reads)} |-> channels[g]]
  /\ NextOne
  /\ UNCHANGED <<snap, chan, deleted, poolVars, mainVars, crash, wireVars>>

\* unwatch() for writing, delete, erase.
DropChannel ==
  /\ loop.pc = "drop"
  /\ LET f == Min(loop.reads) IN
       /\ Poll!Unwatch(f, "WRITE")
       /\ deleted' = deleted \cup {channels[g] : g \in {f} \cap DOMAIN channels}
       /\ channels' = [g \in DOMAIN channels \ {f} |-> channels[g]]
  /\ NextOne
  /\ UNCHANGED <<snap, chan, poolVars, mainVars, crash, wireVars>>

-----------------------------------------------------------------------------
(* The loop thread: what is ready for writing *)

WritesDone ==
  /\ loop.pc = "writes" /\ loop.writes = {}
  /\ LoopGoes("top")
  /\ UNCHANGED <<pollVars, snap, chanVars, poolVars, mainVars, crash, wireVars>>

WriteNextOne == loop' = [loop EXCEPT !.writes = @ \ {Min(@)}]

WriteMore ==
  /\ loop.pc = "writes" /\ loop.writes # {}
  /\ LET f == Min(loop.writes)
         c == channels[f]
     IN IF f \notin DOMAIN channels \/ chan[c].out = "none"
          THEN WriteNextOne /\ UNCHANGED <<chan, crash, clientVars>>
        ELSE IF WriteCrashes(c)
          THEN crash' = HowItCrashes(c) /\ UNCHANGED <<loop, chan, clientVars>>
        ELSE /\ WriteChunk(c)
             /\ IF LastChunk(c) THEN LoopGoes("written") ELSE WriteNextOne
             /\ UNCHANGED crash
  /\ UNCHANGED <<pollVars, snap, channels, deleted, poolVars, mainVars, fdVars>>

\* Mutant: a reply that is complete stays watched.
UnwatchWriteForgotten ==
  /\ loop.pc = "written"
  /\ loop' = [loop EXCEPT !.pc = "writes", !.writes = @ \ {Min(@)}]
  /\ UNCHANGED <<pollVars, snap, chanVars, poolVars, mainVars, crash, wireVars>>

UnwatchWrite ==
  /\ loop.pc = "written"
  /\ Poll!Unwatch(Min(loop.writes), "WRITE")
  /\ loop' = [loop EXCEPT !.pc = "writes", !.writes = @ \ {Min(@)}]
  /\ UNCHANGED <<snap, chanVars, poolVars, mainVars, crash, wireVars>>

LoopNext ==
  \/ LoopTop \/ Snapshot \/ Select
  \/ ReadsDone \/ Accept \/ BeginRead \/ CheckBusy \/ Wait
  \/ ReadSize \/ ReadBody \/ ReadAlone \/ ReadAstray
  \/ CloseChannel \/ UnwatchRead \/ DropChannel
  \/ WritesDone \/ WriteMore \/ UnwatchWrite

-----------------------------------------------------------------------------
(* A worker of the thread pool: _handle_request(chan) *)

WorkGoes(w, pc, held) == work' = [work EXCEPT ![w].pc = pc, ![w].held = held]

\* Every step that touches the Channel goes wrong when it has been deleted.
Touches(w, pc, step) ==
  /\ work[w].pc = pc
  /\ IF work[w].chan \in deleted THEN Crash("freed") ELSE step

Take(w) ==
  /\ work[w].pc = "idle" /\ jobs # <<>>
  /\ jobs' = Tail(jobs)
  /\ work' = [work EXCEPT ![w] = [pc |-> "get", chan |-> Head(jobs), held |-> "nothing"]]
  /\ UNCHANGED <<pollVars, loopVars, chanVars, executed, mainVars, crash, wireVars>>

\* get_msg(), and clear_msg() up to _busy = false.
GetMessage(w) == Touches(w, "get",
  LET c == work[w].chan IN
  /\ WorkGoes(w, "notify", chan[c].inbox)
  /\ chan' = [chan EXCEPT ![c].inbox = "none", ![c].busy = FALSE]
  /\ UNCHANGED <<pollVars, loopVars, channels, deleted, jobs, executed, mainVars,
                 crash, wireVars>>)

\* _read_cond.notify_all() wakes the loop thread only if it waits by now.
Notify(w) == Touches(w, "notify",
  /\ loop' = IF loop.pc = "waiting" /\ loop.chan = work[w].chan
               THEN [loop EXCEPT !.pc = "check"] ELSE loop
  /\ WorkGoes(w, "handle", work[w].held)
  /\ UNCHANGED <<pollVars, snap, chanVars, jobs, executed, mainVars, crash, wireVars>>)

\* Mutant: the result of on_request is read the wrong way round.
HandleInverted(w) ==
  /\ work[w].pc = "handle"
  /\ IF work[w].held = "ok"
       THEN /\ executed' = [executed EXCEPT ![work[w].chan] = @ + 1]
            /\ WorkGoes(w, "lock", "METHOD_NOT_FOUND")
       ELSE /\ WorkGoes(w, "lock", ErrorOf(work[w].held))
            /\ UNCHANGED executed
  /\ UNCHANGED <<pollVars, loopVars, chanVars, jobs, mainVars, crash, wireVars>>

\* Proto::build_request and on_request; the Channel is not touched.
Handle(w) ==
  /\ work[w].pc = "handle" /\ work[w].held \in RequestKinds
  /\ IF work[w].held = "ok"
       THEN /\ executed' = [executed EXCEPT ![work[w].chan] = @ + 1]
            /\ WorkGoes(w, "lock", "result")
       ELSE /\ WorkGoes(w, "lock", ErrorOf(work[w].held))
            /\ UNCHANGED executed
  /\ UNCHANGED <<pollVars, loopVars, chanVars, jobs, mainVars, crash, wireVars>>

\* The same of an array's old contents, which may be nothing, no JSON, or a
\* request that was read before.
HandleGarbage(w) ==
  /\ work[w].pc = "handle" /\ work[w].held = "garbage"
  /\ \E frame \in {"result"} \cup {ErrorOf(kind) : kind \in Kinds \cup {"notjson", "badsize"}} :
       /\ WorkGoes(w, "lock", frame)
       /\ executed' = [executed EXCEPT ![work[w].chan] = IF frame = "result" THEN @ + 1 ELSE @]
  /\ UNCHANGED <<pollVars, loopVars, chanVars, jobs, mainVars, crash, wireVars>>

\* Mutant: the size in front of a reply is not counted in its length.
LockOneMore(w) == Touches(w, "lock",
  LET c == work[w].chan IN
  /\ ~chan[c].locked /\ chan[c].alive
  /\ \E n \in 1 .. MaxChunks :
       chan' = [chan EXCEPT ![c].locked = TRUE,
                            ![c].out = work[w].held, ![c].left = n + 1]
  /\ WorkGoes(w, "write", "nothing")
  /\ UNCHANGED <<pollVars, loopVars, channels, deleted, jobs, executed, mainVars,
                 crash, wireVars>>)

\* Channel::send() takes _send_mutex and makes the reply its _read_buffer, or
\* gives up because the Channel was closed.
Lock(w) == Touches(w, "lock",
  LET c == work[w].chan IN
  /\ ~chan[c].locked
  /\ IF chan[c].alive
       THEN /\ \E n \in 1 .. MaxChunks :
                 chan' = [chan EXCEPT ![c].locked = TRUE,
                                      ![c].out = work[w].held, ![c].left = n]
            /\ WorkGoes(w, "write", "nothing")
       ELSE WorkGoes(w, "idle", "nothing") /\ UNCHANGED chan
  /\ UNCHANGED <<pollVars, loopVars, channels, deleted, jobs, executed, mainVars,
                 crash, wireVars>>)

\* Channel::write() of the first chunk; when it is the only one, write() has
\* unlocked _send_mutex before send() unlocks it again.
WriteFirst(w) == Touches(w, "write",
  LET c == work[w].chan IN
  IF WriteCrashes(c)
    THEN Crash(HowItCrashes(c))
    ELSE /\ WriteChunk(c)
         /\ WorkGoes(w, IF LastChunk(c) THEN "unlock" ELSE "watch", "nothing")
         /\ UNCHANGED <<pollVars, loopVars, channels, deleted, jobs, executed,
                        mainVars, crash, fdVars>>)

WatchWrite(w) == Touches(w, "watch",
  /\ Poll!Watch(fdOf[work[w].chan], "WRITE")
  /\ WorkGoes(w, "idle", "nothing")
  /\ UNCHANGED <<loopVars, chanVars, jobs, executed, mainVars, crash, wireVars>>)

Unlock(w) == Touches(w, "unlock",
  /\ chan' = [chan EXCEPT ![work[w].chan].locked = FALSE]
  /\ WorkGoes(w, "idle", "nothing")
  /\ UNCHANGED <<pollVars, loopVars, channels, deleted, jobs, executed, mainVars,
                 crash, wireVars>>)

WorkNext(w) ==
  Take(w) \/ GetMessage(w) \/ Notify(w) \/ Handle(w) \/ HandleGarbage(w) \/ Lock(w)
  \/ WriteFirst(w) \/ WatchWrite(w) \/ Unlock(w)

-----------------------------------------------------------------------------
(* The owner: stop() *)

StopBegin ==
  /\ StopCalls /\ main.pc = "running"
  /\ main' = [main EXCEPT !.pc = "each"]
  /\ UNCHANGED <<pollVars, loopVars, chanVars, poolVars, stop, crash, wireVars>>

\* _close_channels goes from one element of the map to the next, and clears
\* the map at the end; the loop thread may erase the one it stands on.
StopEach ==
  /\ main.pc = "each"
  /\ LET rest == {f \in DOMAIN channels : f > main.at} IN
     IF main.at # Listen /\ main.at \notin DOMAIN channels
       THEN Crash("freed")
     ELSE IF rest = {}
       THEN /\ channels' = <<>>
            /\ main' = [main EXCEPT !.pc = "setStop"]
            /\ UNCHANGED <<chan, crash>>
     ELSE LET c == channels[Min(rest)] IN
          /\ main' = [pc |-> IF chan[c].alive THEN "close" ELSE "each",
                      at |-> Min(rest), chan |-> c]
          /\ UNCHANGED <<channels, chan, crash>>
  /\ UNCHANGED <<pollVars, loopVars, deleted, poolVars, stop, wireVars>>

StopClose ==
  /\ main.pc = "close"
  /\ IF main.chan \in deleted
       THEN Crash("freed")
       ELSE /\ CloseChan(main.chan)
            /\ main' = [main EXCEPT !.pc = "each"]
            /\ UNCHANGED <<pollVars, loopVars, channels, deleted, poolVars, stop,
                           crash, clientVars>>

SetStop ==
  /\ main.pc = "setStop"
  /\ stop' = TRUE
  /\ main' = [main EXCEPT !.pc = "stopped"]
  /\ UNCHANGED <<pollVars, loopVars, chanVars, poolVars, crash, wireVars>>

MainNext == StopBegin \/ StopEach \/ StopClose \/ SetStop

-----------------------------------------------------------------------------
Environment ==
  /\ UNCHANGED <<pollVars, loopVars, chanVars, poolVars, mainVars, crash>>
  /\ \E c \in Conn : ClientNext(c)

Next ==
  /\ crash = "no"
  /\ \/ LoopNext
     \/ \E w \in Workers : WorkNext(w)
     \/ MainNext
     \/ Environment

Spec == Init /\ [][Next]_vars

\* The loop thread and the workers are scheduled, stop() once called goes on,
\* a client that has begun a request writes all of it and reads its reply.
\* Nothing makes a client connect, begin a call or leave.
Running(A) == crash = "no" /\ A

Fairness ==
  /\ WF_vars(Running(LoopNext))
  /\ \A w \in Workers : WF_vars(Running(WorkNext(w)))
  /\ WF_vars(Running(StopEach \/ StopClose \/ SetStop))
  /\ \A c \in Conn :
       /\ WF_vars(Running(ClientSendRest(c) /\ Environment))
       /\ WF_vars(Running(ClientReads(c) /\ Environment))

LiveSpec == Spec /\ Fairness

-----------------------------------------------------------------------------
(* Properties *)

Jobs(c) == Cardinality({i \in DOMAIN jobs : jobs[i] = c})
           + Cardinality({w \in Workers : work[w].pc = "get" /\ work[w].chan = c})

\* What is handed on as a message is handled once: from the moment it is queued
\* until a worker takes it out of the Channel, the Channel is busy, holds what
\* was queued, and has no second job; a Channel without a job holds nothing that
\* counts as complete.
QueuedOnce ==
  crash = "no" => \A c \in Conn \ deleted :
    /\ Jobs(c) <= 1
    /\ Jobs(c) = 1 <=> chan[c].inbox \in Messages
    /\ Jobs(c) = 1 => chan[c].busy

\* The descriptor the loop thread is closing: out of step until it is dropped.
Closing == IF loop.pc \in {"unwatch", "drop"} THEN {Min(loop.reads)} ELSE {}

\* The map of Channels, the descriptors select() reads from, and what the
\* Channels believe they own agree, whatever numbers close() and accept() reuse.
ChannelsMatchPoll ==
  main.pc = "running" =>
    /\ readSet \ Closing = ({Listen} \cup DOMAIN channels) \ Closing
    /\ \A f \in DOMAIN channels \ Closing :
         /\ channels[f] \notin deleted
         /\ fdOf[channels[f]] = f /\ Holds(channels[f])

\* poll() waits on every descriptor it was told to, whoever watches and
\* unwatches in between.
HighestCoversSets == Poll!HighestCoversSets

\* Descriptors are watched for writing exactly as long as a reply has chunks
\* left that no worker is writing: one more and the loop thread spins, one
\* less and the client waits for ever.
WriteWatchExact ==
  \A c \in Conn \ deleted :
    chan[c].alive /\ fdOf[c] \in Fd =>
      LET sending == \E w \in Workers : work[w].chan = c /\ work[w].pc \in {"write", "watch"}
          unwatching == loop.pc = "written" /\ Min(loop.writes) = fdOf[c]
      IN /\ chan[c].left > 0 => sending \/ fdOf[c] \in writeSet
         /\ fdOf[c] \in writeSet => chan[c].left > 0 \/ unwatching

\* A connection keeps the contract of CallContract.
CallPhase == [c \in Conn |-> PhaseOf(c, executed[c])]

Contract == INSTANCE CallContract WITH
  Client <- Conn, phase <- CallPhase, begun <- calls, executed <- executed,
  returned <- acked

\* The server implements the contract: every step of a connection is one the
\* caller was promised, or no step for the caller at all.
KeepsContract == Contract!Spec

\* A client that waits for a reply gets one, or sees the connection closed,
\* unless stop() is called meanwhile.
WaitEnds ==
  \A c \in Conn :
    client[c] = "waiting" ~> client[c] # "waiting" \/ main.pc # "running"

\* A reply of which a worker has written a part, and the loop thread not the rest.
Unfinished == \E c \in Conn : chan[c].locked /\ chan[c].left > 0

\* stop() returns, unless the process is gone or a reply is left unfinished for
\* ever: its Channel is locked, and select() fails on what stop() has closed.
StopEnds ==
  main.pc = "each" ~> main.pc = "stopped" \/ crash # "no" \/ []Unfinished

\* While _send_mutex is held for a reply the descriptor is open and its
\* client's: close() waits for the mutex, and a send that gets it later gives up.
LockedIsOpen == \A c \in Conn : chan[c].locked => chan[c].alive /\ Holds(c)

\* Until stop() is called, no Channel that has not been deleted writes to a
\* connection other than its own, whatever close() and accept() do with its
\* number while a worker is about to write to it.
WritesReachOwn == main.pc = "running" => crash # "stray"

\* Until a worker is done with a message, its Channel is not deleted: being
\* busy, the Channel blocks the read that would notice the client leave.
JobKeepsChannel ==
  \A w \in Workers : work[w].pc # "idle" => work[w].chan \notin deleted

\* "when client closes socket": the Channel of a client that has closed its
\* end is closed.
ClientCloseNoticed == \A c \in Conn : client[c] = "closed" ~> ~Holds(c)
=============================================================================
