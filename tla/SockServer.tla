------------------------------- MODULE SockServer -------------------------------
(***************************************************************************)
(* SockServer: a loop thread accepts connections, one ConnectionThread per *)
(* connection serves them, and the thread that owns the server may stop    *)
(* it.  _connections is a pool of at most PoolSize connections; when it is *)
(* full, accepting one more shuts the oldest down first.                   *)
(*                                                                         *)
(* Critical sections that block on nothing are one action each; _mutex is  *)
(* a variable because _close_connections joins threads while holding it.   *)
(*                                                                         *)
(* Definitions marked "Mutant" are not part of the specification: each is  *)
(* a plausible mistake in the definition after it, and a property below    *)
(* that a run checks is violated when it takes that definition's place.    *)
(***************************************************************************)
EXTENDS Wire, SequencesExt

CONSTANTS
  PoolSize,       \* _pool_size
  MaxStops,       \* runs of the stop sequence: 1 = stop(), 2 = ~SockServer too
  AcceptMayFail   \* may accept() return -1 although a descriptor is free?

ASSUME SockServerAssumption ==
  /\ PoolSize \in Nat \ {0}
  /\ MaxStops \in Nat
  /\ AcceptMayFail \in BOOLEAN

VARIABLES
  connections,  \* _connections, oldest first
  stop,         \* _stop
  mutex,        \* who holds _mutex: "main" or "nobody"
  loop,         \* the loop thread: [pc, old, new]
  main,         \* the owner: [pc, conn, stops]
  connected,    \* Connection::_connected
  deleted,      \* Connections that were deleted
  rdshut,       \* has the read side of the socket been shut down?
  thr,          \* where each ConnectionThread stands
  held,         \* what it holds there: the request read, or an error code
  executed,     \* service methods run for the connection
  crash         \* how the process died, or met undefined behaviour

poolVars == <<connections, stop, mutex>>
connVars == <<connected, deleted, rdshut>>
thrVars == <<thr, held, executed>>
vars == <<poolVars, loop, main, connVars, thrVars, crash, wireVars>>

NoConn == 0

LoopPcs == {"top", "accept", "evict", "evictJoin", "evictPop", "evictDelete",
            "push", "start", "done"}
MainPcs == {"running", "each", "join", "setStop", "joinLoop", "stopped"}
ThreadPcs == {"new", "check", "recv", "body", "handle", "respond", "after",
              "catch", "done"}
Crashes == {"no", "write", "badalloc", "doublejoin", "freed", "empty"}

SockTypeOK ==
  /\ connections \in Seq(Conn)
  /\ stop \in BOOLEAN
  /\ mutex \in {"nobody", "main"}
  /\ loop \in [pc : LoopPcs, old : Conn \cup {NoConn}, new : 0 .. MaxConns]
  /\ main \in [pc : MainPcs, conn : Conn \cup {NoConn}, stops : Nat]
  /\ connected \in [Conn -> BOOLEAN]
  /\ deleted \in SUBSET Conn
  /\ rdshut \in [Conn -> BOOLEAN]
  /\ thr \in [Conn -> ThreadPcs]
  /\ held \in [Conn -> {"nothing"} \cup RequestKinds \cup ErrorCodes]
  /\ executed \in [Conn -> Nat]
  /\ crash \in Crashes

\* Every variable of the server and of the wire has its type.
TypeOK == WireTypeOK /\ SockTypeOK

\* start() has run: the socket listens and the loop thread is at its top.
Init ==
  /\ WireInit
  /\ connections = <<>> /\ stop = FALSE /\ mutex = "nobody"
  /\ loop = [pc |-> "top", old |-> NoConn, new |-> 0]
  /\ main = [pc |-> "running", conn |-> NoConn, stops |-> 0]
  /\ connected = [c \in Conn |-> TRUE]
  /\ deleted = {}
  /\ rdshut = [c \in Conn |-> FALSE]
  /\ thr = [c \in Conn |-> "new"]
  /\ held = [c \in Conn |-> "nothing"]
  /\ executed = [c \in Conn |-> 0]
  /\ crash = "no"

-----------------------------------------------------------------------------
(* Connection *)

\* Thread::is_active(): started and its run() has not returned.
Active(c) == thr[c] \notin {"new", "done"}

\* Mutant: no SHUT_RD, so that a thread in read() is not woken.
ShutdownFlagOnly(c) ==
  /\ connected' = [connected EXCEPT ![c] = FALSE]
  /\ UNCHANGED rdshut

\* The critical section of Connection::shutdown().  SHUT_RD reaches whichever
\* socket the number stands for by now.
ShutdownRead(c) ==
  /\ connected' = [connected EXCEPT ![c] = FALSE]
  /\ rdshut' = [d \in Conn |-> rdshut[d] \/ (Holds(d) /\ fdOf[d] = fdOf[c])]

Crash(how) ==
  /\ crash' = how
  /\ UNCHANGED <<poolVars, loop, main, connVars, thrVars, wireVars>>

LoopGoes(pc) == loop' = [loop EXCEPT !.pc = pc]

-----------------------------------------------------------------------------
(* The loop thread *)

LoopTop ==
  /\ loop.pc = "top"
  /\ LoopGoes(IF stop THEN "done" ELSE "accept")
  /\ UNCHANGED <<poolVars, main, connVars, thrVars, crash, wireVars>>

\* accept() returns; _connections.size() is read without _mutex.  The result
\* is not examined, so that a failed accept() goes the same way.
Accept ==
  /\ loop.pc = "accept" /\ loop.new < MaxConns
  /\ loop' = [loop EXCEPT !.new = @ + 1,
                          !.pc = IF Len(connections) >= PoolSize
                                   THEN "evict" ELSE "push"]
  /\ \/ AcceptFd(loop.new + 1)
     \/ /\ AcceptMayFail \/ FreeFds = {}
        /\ UNCHANGED wireVars
  /\ UNCHANGED <<poolVars, main, connVars, thrVars, crash>>

\* oldconn = front(), and the first half of oldconn->shutdown().
EvictBegin ==
  /\ loop.pc = "evict"
  /\ IF connections = <<>>
       THEN Crash("empty")
       ELSE LET c == Head(connections) IN
            /\ loop' = [loop EXCEPT !.pc = "evictJoin", !.old = c]
            /\ ShutdownRead(c)
            /\ crash' = IF main.pc = "join" /\ main.conn = c /\ Active(c)
                          THEN "doublejoin" ELSE crash
            /\ UNCHANGED <<poolVars, main, deleted, thrVars, wireVars>>

\* Mutant: the descriptor is closed without waiting for the thread.
EvictJoinUnjoined ==
  /\ loop.pc = "evictJoin"
  /\ CloseFd(loop.old)
  /\ LoopGoes("evictPop")
  /\ UNCHANGED <<poolVars, main, connVars, thrVars, crash, clientVars>>

\* The rest of oldconn->shutdown(): join, then close().
EvictJoin ==
  /\ loop.pc = "evictJoin" /\ ~Active(loop.old)
  /\ CloseFd(loop.old)
  /\ LoopGoes("evictPop")
  /\ UNCHANGED <<poolVars, main, connVars, thrVars, crash, clientVars>>

EvictPop ==
  /\ loop.pc = "evictPop"
  /\ IF connections = <<>>
       THEN Crash("empty")
       ELSE /\ connections' = Tail(connections)
            /\ LoopGoes("evictDelete")
            /\ UNCHANGED <<stop, mutex, main, connVars, thrVars, crash, wireVars>>

\* delete oldconn: ~Connection runs shutdown() once more.
EvictDelete ==
  /\ loop.pc = "evictDelete"
  /\ ShutdownRead(loop.old)
  /\ CloseFd(loop.old)
  /\ deleted' = deleted \cup {loop.old}
  /\ LoopGoes("push")
  /\ UNCHANGED <<poolVars, main, thrVars, crash, clientVars>>

\* Mutant: the evicted connection is pushed.
PushOld ==
  /\ loop.pc = "push" /\ mutex = "nobody"
  /\ connections' = Append(connections, loop.old)
  /\ LoopGoes("start")
  /\ UNCHANGED <<stop, mutex, main, connVars, thrVars, crash, wireVars>>

Push ==
  /\ loop.pc = "push" /\ mutex = "nobody"
  /\ connections' = Append(connections, loop.new)
  /\ LoopGoes("start")
  /\ UNCHANGED <<stop, mutex, main, connVars, thrVars, crash, wireVars>>

\* Mutant: the thread is not started.
StartForgotten ==
  /\ loop.pc = "start"
  /\ LoopGoes("top")
  /\ UNCHANGED <<poolVars, main, connVars, thrVars, crash, wireVars>>

Start ==
  /\ loop.pc = "start"
  /\ thr' = [thr EXCEPT ![loop.new] = "check"]
  /\ LoopGoes("top")
  /\ UNCHANGED <<poolVars, main, connVars, held, executed, crash, wireVars>>

LoopServes == EvictBegin \/ EvictJoin \/ EvictPop \/ EvictDelete \/ Push \/ Start

-----------------------------------------------------------------------------
(* ConnectionThread::run() *)

ThreadGoes(c, pc, what) ==
  /\ thr' = [thr EXCEPT ![c] = pc]
  /\ held' = [held EXCEPT ![c] = what]

ThreadFrame == UNCHANGED <<poolVars, loop, main, deleted, rdshut>>

\* while (_connected)
While(c) ==
  /\ thr[c] = "check"
  /\ ThreadGoes(c, IF connected[c] THEN "recv" ELSE "done", "nothing")
  /\ UNCHANGED <<connected, executed, crash, wireVars>>
  /\ ThreadFrame

\* Mutant: read() does not wait, as on the socket of a Channel, and returns -1.
ReadSizeNow(c) ==
  /\ thr[c] = "recv"
  /\ LET fails == ~Holds(c) \/ client[c] = "reset"
         ended == rdshut[c] \/ client[c] = "closed"
     IN \/ /\ fails \/ (up[c] = <<>> /\ ~ended)
           /\ ThreadGoes(c, "catch", "BAD_MESSAGE")
           /\ UNCHANGED up
        \/ /\ ~fails /\ up[c] # <<>>
           /\ up' = [up EXCEPT ![c] = Tail(@)]
           /\ IF Head(up[c]) = "size" THEN ThreadGoes(c, "body", "nothing")
                                      ELSE ThreadGoes(c, "catch", "BAD_MESSAGE")
        \/ /\ ~fails /\ up[c] = <<>> /\ ended
           /\ ThreadGoes(c, "catch", "SOCKET_CLOSED")
           /\ UNCHANGED up
  /\ UNCHANGED <<connected, executed, crash, down, client, calls, acked, denied, fdVars>>
  /\ ThreadFrame

\* _recv() reads the size.  Nothing left and no more to come throws
\* ServerCloseSocketException; an error, or a bad size, returns "" and so
\* throws ServerBadMessageException.
ReadSize(c) ==
  /\ thr[c] = "recv"
  /\ LET fails == ~Holds(c) \/ client[c] = "reset"
         ended == rdshut[c] \/ client[c] = "closed"
     IN \/ /\ fails
           /\ ThreadGoes(c, "catch", "BAD_MESSAGE")
           /\ UNCHANGED up
        \/ /\ ~fails /\ up[c] # <<>>
           /\ up' = [up EXCEPT ![c] = Tail(@)]
           /\ IF Head(up[c]) = "size" THEN ThreadGoes(c, "body", "nothing")
                                      ELSE ThreadGoes(c, "catch", "BAD_MESSAGE")
        \/ /\ ~fails /\ up[c] = <<>> /\ ended
           /\ ThreadGoes(c, "catch", "SOCKET_CLOSED")
           /\ UNCHANGED up
  /\ UNCHANGED <<connected, executed, crash, down, client, calls, acked, denied, fdVars>>
  /\ ThreadFrame

\* _recv() reads until it has as many bytes as the size says.  A read() of 0
\* leaves it in the loop; one of -1 asks WRONBuffer::write to append SIZE_MAX
\* bytes.
ReadBody(c) ==
  /\ thr[c] = "body"
  /\ IF ~Holds(c) \/ client[c] = "reset"
       THEN Crash("badalloc")
       ELSE /\ up[c] # <<>>
            /\ up' = [up EXCEPT ![c] = Tail(@)]
            /\ ThreadGoes(c, "handle", Head(up[c]))
            /\ UNCHANGED <<connected, executed, crash,
                           down, client, calls, acked, denied, fdVars>>
            /\ ThreadFrame

\* Proto::build_request and on_request.
Handle(c) ==
  /\ thr[c] = "handle"
  /\ IF held[c] = "ok"
       THEN /\ executed' = [executed EXCEPT ![c] = @ + 1]
            /\ ThreadGoes(c, "respond", "nothing")
       ELSE /\ ThreadGoes(c, "catch", ErrorOf(held[c]))
            /\ UNCHANGED executed
  /\ UNCHANGED <<connected, crash, wireVars>>
  /\ ThreadFrame

\* write() of a frame ends the process: SIGPIPE, or LOG(FATAL) on an error.  A write
\* through a number that is no longer the connection's own, closed or given to
\* another, ends the behaviour too: nothing is said of what follows it.
WriteFails(c) == ~Holds(c) \/ WriteKills(c)

\* Mutant: `if (!_connected) throw` comes before the response is written.
RespondLate(c) ==
  /\ thr[c] = "respond"
  /\ IF ~connected[c]
       THEN ThreadGoes(c, "catch", "SOCKET_CLOSED") /\ UNCHANGED clientVars
       ELSE Write(c, "result") /\ ThreadGoes(c, "after", "nothing")
  /\ UNCHANGED <<connected, executed, crash, fdVars>>
  /\ ThreadFrame

Respond(c) ==
  /\ thr[c] = "respond"
  /\ IF WriteFails(c)
       THEN Crash("write")
       ELSE /\ Write(c, "result")
            /\ ThreadGoes(c, "after", "nothing")
            /\ UNCHANGED <<connected, executed, crash, fdVars>>
            /\ ThreadFrame

\* if (!_connected) throw ServerCloseSocketException();
After(c) ==
  /\ thr[c] = "after"
  /\ IF connected[c] THEN ThreadGoes(c, "check", "nothing")
                     ELSE ThreadGoes(c, "catch", "SOCKET_CLOSED")
  /\ UNCHANGED <<connected, executed, crash, wireVars>>
  /\ ThreadFrame

\* The catch block, under Connection::_mutex, and the break that ends run().
Catch(c) ==
  /\ thr[c] = "catch"
  /\ IF connected[c] /\ held[c] = "SOCKET_CLOSED"
       THEN /\ connected' = [connected EXCEPT ![c] = FALSE]
            /\ ThreadGoes(c, "done", held[c])
            /\ UNCHANGED <<executed, crash, wireVars>>
            /\ ThreadFrame
       ELSE IF WriteFails(c)
       THEN Crash("write")
       ELSE /\ Write(c, held[c])
            /\ ThreadGoes(c, "done", held[c])
            /\ UNCHANGED <<connected, executed, crash, fdVars>>
            /\ ThreadFrame

ThreadNext(c) ==
  While(c) \/ ReadSize(c) \/ ReadBody(c) \/ Handle(c) \/ Respond(c) \/ After(c)
  \/ Catch(c)

-----------------------------------------------------------------------------
(* The owner: stop(), and then ~SockServer, which does the same once more. *)

MainGoes(pc, c) == main' = [main EXCEPT !.pc = pc, !.conn = c]
MainFrame == UNCHANGED <<thrVars, clientVars>>

\* The element the iterator reaches after c (the first one after NoConn).
NextAfter(c) ==
  LET i == IF c = NoConn THEN 1 ELSE 1 + CHOOSE j \in DOMAIN connections :
                                            connections[j] = c
  IN IF i > Len(connections) THEN NoConn ELSE connections[i]

\* _close_connections takes _mutex.
StopBegin ==
  /\ main.pc \in {"running", "stopped"} /\ main.stops < MaxStops
  /\ mutex = "nobody"
  /\ mutex' = "main"
  /\ main' = [pc |-> "each", conn |-> NoConn, stops |-> main.stops + 1]
  /\ UNCHANGED <<connections, stop, loop, connVars, crash, fdVars>>
  /\ MainFrame

\* The iterator goes on: shutdown() of the next connection, or clear() and
\* unlock at the end.  The loop thread pops without the lock, so the element
\* under the iterator may be gone.
StopEach ==
  /\ main.pc = "each"
  /\ IF main.conn # NoConn /\ main.conn \notin ToSet(connections)
       THEN Crash("freed")
       ELSE LET c == NextAfter(main.conn) IN
            IF c = NoConn
              THEN /\ connections' = <<>>
                   /\ mutex' = "nobody"
                   /\ MainGoes("setStop", NoConn)
                   /\ UNCHANGED <<stop, loop, connVars, crash, fdVars>>
                   /\ MainFrame
              ELSE /\ MainGoes("join", c)
                   /\ ShutdownRead(c)
                   /\ crash' = IF loop.pc = "evictJoin" /\ loop.old = c /\ Active(c)
                                 THEN "doublejoin" ELSE crash
                   /\ UNCHANGED <<poolVars, loop, deleted, fdVars>>
                   /\ MainFrame

\* Mutant: the thread is joined and the descriptor stays open.
StopJoinOpen ==
  /\ main.pc = "join" /\ ~Active(main.conn)
  /\ MainGoes("each", main.conn)
  /\ UNCHANGED <<poolVars, loop, connVars, crash, fdVars>>
  /\ MainFrame

StopJoin ==
  /\ main.pc = "join"
  /\ IF main.conn \in deleted
       THEN Crash("freed")
       ELSE /\ ~Active(main.conn)
            /\ CloseFd(main.conn)
            /\ MainGoes("each", main.conn)
            /\ UNCHANGED <<poolVars, loop, connVars, crash>>
            /\ MainFrame

SetStop ==
  /\ main.pc = "setStop"
  /\ stop' = TRUE
  /\ MainGoes("joinLoop", NoConn)
  /\ UNCHANGED <<connections, mutex, loop, connVars, crash, fdVars>>
  /\ MainFrame

\* if (_thread.is_active()) _thread.join();
JoinLoop ==
  /\ main.pc = "joinLoop" /\ loop.pc = "done"
  /\ MainGoes("stopped", NoConn)
  /\ UNCHANGED <<poolVars, loop, connVars, crash, fdVars>>
  /\ MainFrame

MainNext == StopBegin \/ StopEach \/ StopJoin \/ SetStop \/ JoinLoop

-----------------------------------------------------------------------------
Environment ==
  /\ UNCHANGED <<poolVars, loop, main, connVars, thrVars, crash>>
  /\ (\E c \in Conn : ClientNext(c)) \/ AppOpen \/ AppClose

Next ==
  /\ crash = "no"
  /\ \/ LoopTop \/ Accept \/ LoopServes
     \/ \E c \in Conn : ThreadNext(c)
     \/ MainNext
     \/ Environment

Spec == Init /\ [][Next]_vars

\* Threads are scheduled: each takes its next step when it can.  New
\* connections, calls and stop() need never come.
Running(A) == crash = "no" /\ A

Fairness ==
  /\ WF_vars(Running(LoopTop \/ LoopServes))
  /\ \A c \in Conn : WF_vars(Running(ThreadNext(c)))
  /\ WF_vars(Running(StopEach \/ StopJoin \/ SetStop \/ JoinLoop))
  /\ \A c \in Conn :
       /\ WF_vars(Running(ClientSendRest(c) /\ Environment))
       /\ WF_vars(Running(ClientReads(c) /\ Environment))

LiveSpec == Spec /\ Fairness

-----------------------------------------------------------------------------
(* Properties *)

\* _pool_size bounds what the server has running, not only the list: until
\* stop() is called no more than PoolSize connection threads run, because the
\* oldest is joined before the newest starts.
LiveThreadsBounded ==
  /\ Len(connections) <= PoolSize
  /\ main.stops = 0 => Cardinality({c \in Conn : Active(c)}) <= PoolSize

\* Until stop() is called, a connection thread that runs has its own socket
\* open: shutdown() closes a descriptor only after the join, and no close()
\* (the second one of `delete oldconn` included) hits another's number.
ThreadOwnsSocket ==
  main.stops = 0 => \A c \in Conn : Active(c) /\ fdOf[c] # NoFd => Holds(c)

\* A call that ends without its result (SOCKET_CLOSED, or end of file) was
\* not executed, so that AbstractClient::call may send it again.
UnansweredNotExecuted ==
  \A c \in Conn : client[c] \in {"refused", "failed"} => executed[c] = acked[c]

\* A connection keeps the contract of CallContract.
CallPhase == [c \in Conn |-> PhaseOf(c, executed[c])]

Contract == INSTANCE CallContract WITH
  Client <- Conn, phase <- CallPhase, begun <- calls, executed <- executed,
  returned <- acked

\* The server implements the contract until stop() is called: every step of a
\* connection is one the caller was promised, or no step for the caller at all.
KeepsContract ==
  /\ Contract!Init
  /\ [][main'.stops = 0 => Contract!Next]_(Contract!vars)

\* Clients that leave between calls never bring the server down, whatever
\* they leave unread and however their leaving meets an eviction.
NoCrash == crash = "no"

\* An accepted connection is served: the eviction that makes room for it
\* ends, whatever the thread of the oldest connection is doing.
EvictionEnds == loop.pc = "evict" ~> loop.pc = "top"

\* A client that waits for a reply gets one or sees the connection closed, but
\* for two: one whose read took the answer and the SOCKET_CLOSED behind it for
\* one frame, and one that calls again after an error reply, which ended its thread.
WaitEnds ==
  \A c \in Conn :
    client[c] = "waiting" ~>
      \/ client[c] \in {"idle", "refused", "failed"} \cup Gone
      \/ client[c] = "stuck"
      \/ client[c] = "waiting" /\ thr[c] = "done" /\ denied[c] > 0

\* Only an eviction makes a client read too much, and only one whose call was
\* executed: nothing else is ever written behind a result that has not been read.
StuckOnlyByEviction ==
  \A c \in Conn : client[c] = "stuck" => ~connected[c] /\ executed[c] = acked[c] + 1

\* After stop() and ~SockServer no socket of a connection is open, and the
\* only connection thread that can still run is one started after its
\* connection was shut down, which does nothing but leave.
DestroyedQuiet ==
  main.pc = "stopped" /\ main.stops = 2 =>
    \A c \in Conn : ~Holds(c) /\ (Active(c) => thr[c] = "check" /\ ~connected[c])

\* "detects client closes the connection": a client's leaving, which ends its
\* thread when it is seen by a read, does not end the server otherwise.
ClientCloseDetected == crash # "write"

\* "server close connection": after an error reply the thread is gone, and so
\* a client that calls again must see the connection closed.
ErrorEndsConnection ==
  \A c \in Conn : client[c] = "waiting" /\ thr[c] = "done" ~> client[c] # "waiting"
=============================================================================
