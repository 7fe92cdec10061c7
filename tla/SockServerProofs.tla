---------------------------- MODULE SockServerProofs ----------------------------
(***************************************************************************)
(* Theorems about SockServer, for any number of connections, calls and     *)
(* descriptors, any size of the pool and any clients.                      *)
(*                                                                         *)
(* The inductive invariant has four parts, proved one after the other:     *)
(* TypeInv (types, and the streams the types depend on), PoolInv (the list *)
(* of connections against the threads), FdInv (the list against the        *)
(* descriptors) and StopInv (what stop() leaves behind).                   *)
(***************************************************************************)
EXTENDS SockServer, WireProofs, FiniteSetTheorems, SequenceTheorems

-----------------------------------------------------------------------------
(* The invariant *)

\* The loop thread has the old connection in hand, and the new one.
Evicting == {"evictJoin", "evictPop", "evictDelete"}
Accepted == Evicting \cup {"evict", "push", "start"}

LoopHasConns ==
  /\ loop.pc \in Evicting => loop.old \in Conn
  /\ loop.pc \in Accepted => loop.new \in Conn

\* Connections to come have no client, no descriptor and no thread yet.
NotYet ==
  \A c \in Conn : c > loop.new =>
    client[c] = "none" /\ fdOf[c] = NoFd /\ thr[c] = "new"

\* A thread in the body of a message has taken its size.
StreamFramed(c) == Framed(up[c], thr[c] = "body", client[c] \in Whole)

TypeInv ==
  TypeOK /\ LoopHasConns /\ NotYet /\ \A c \in Conn : StreamFramed(c)

\* What a thread is about to answer with is an error code.
Caught == \A c \in Conn : thr[c] = "catch" => held[c] \in ErrorCodes

\* There is room for what is pushed.
Room ==
  /\ Len(connections) <= PoolSize
  /\ loop.pc \in {"evictDelete", "push"} => Len(connections) < PoolSize

\* Connections are listed in the order of accept(), the one in hand is the
\* last or not yet in the list.
Ordered ==
  /\ \A i, j \in DOMAIN connections : i < j => connections[i] < connections[j]
  /\ \A i \in DOMAIN connections : connections[i] <= loop.new
  /\ loop.pc \in Accepted \ {"start"} =>
       \A i \in DOMAIN connections : connections[i] < loop.new

\* Every running thread is the thread of a connection in the list, and the
\* thread of the one about to leave the list has left before it.
ThreadsPooled ==
  /\ \A c \in Conn : Active(c) => c \in ToSet(connections)
  /\ loop.pc \in {"evictJoin", "evictPop"} =>
       connections # <<>> /\ loop.old = Head(connections)
  /\ loop.pc = "evictPop" => ~Active(loop.old)
  /\ loop.pc = "start" => loop.new \in ToSet(connections)

\* Before stop() the owner is at rest.
Unstopped == main.stops = 0 => main.pc = "running"

PoolInv ==
  /\ Room /\ Unstopped
  /\ main.stops = 0 => Ordered /\ ThreadsPooled

\* The connections whose descriptor is open: those in the list, but for the
\* one between its first close() and its pop_front(), and the one in hand.
Pooled ==
  (ToSet(connections) \ (IF loop.pc = "evictPop" THEN {loop.old} ELSE {}))
    \cup (IF loop.pc \in Accepted \ {"start"} THEN {loop.new} ELSE {})

FdsOpen ==
  /\ \A c \in Pooled : fdOf[c] = NoFd \/ Holds(c)
  /\ loop.pc \in {"evictPop", "evictDelete"} =>
       fdOf[loop.old] = NoFd \/ owner[fdOf[loop.old]] = Free

\* Where the rest of the process opens no descriptors:
FdInv ==
  /\ appFd = NoFd
  /\ main.stops = 0 => FdsOpen

-----------------------------------------------------------------------------
(* Types *)

\* Streams nobody touches stay framed, unless a reader or a client is moved
\* into the middle of a message.
LEMMA FramedKept ==
  ASSUME TypeInv, UNCHANGED up,
         \A c \in Conn : /\ thr'[c] = "body" => thr[c] = "body"
                         /\ client'[c] \in Whole => client[c] \in Whole
  PROVE  \A c \in Conn : StreamFramed(c)'
<1> SUFFICES ASSUME NEW c \in Conn PROVE StreamFramed(c)'
  OBVIOUS
<1>1. Framed(up[c], thr[c] = "body", client[c] \in Whole)
  BY DEF TypeInv, StreamFramed
<1>2. Framed(up[c], thr'[c] = "body", client'[c] \in Whole)
  BY <1>1 DEF Framed
<1> QED
  BY <1>2 DEF StreamFramed

\* A step is left with its types to check, if it takes nobody into the middle
\* of a message and begins nothing for a connection to come.
LEMMA StepType ==
  ASSUME TypeInv, TypeOK', LoopHasConns', UNCHANGED <<up, fdOf>>,
         loop'.new = loop.new,
         \A c \in Conn :
           /\ thr'[c] = "body" => thr[c] = "body"
           /\ client'[c] \in Whole => client[c] \in Whole
           /\ client[c] = "none" => client'[c] = "none"
           /\ c > loop.new /\ thr[c] = "new" => thr'[c] = "new"
  PROVE  TypeInv'
<1>1. \A c \in Conn : StreamFramed(c)'
  BY FramedKept
<1>2. NotYet'
  BY DEF TypeInv, NotYet
<1> QED
  BY <1>1, <1>2 DEF TypeInv

LEMMA InitType == Init => TypeInv
<1> SUFFICES ASSUME Init PROVE TypeInv
  OBVIOUS
<1>1. WireTypeOK
  BY WireInitType DEF Init
<1>2. SockTypeOK
  <2>1. loop \in [pc : LoopPcs, old : Conn \cup {NoConn}, new : 0 .. MaxConns]
    BY WireAssumption DEF Init, LoopPcs
  <2>2. main \in [pc : MainPcs, conn : Conn \cup {NoConn}, stops : Nat]
    BY DEF Init, MainPcs
  <2>3. connections \in Seq(Conn)
    BY DEF Init
  <2>4. /\ thr \in [Conn -> ThreadPcs]
        /\ held \in [Conn -> {"nothing"} \cup RequestKinds \cup ErrorCodes]
        /\ connected \in [Conn -> BOOLEAN] /\ rdshut \in [Conn -> BOOLEAN]
        /\ executed \in [Conn -> Nat] /\ deleted \in SUBSET Conn
    BY DEF Init, ThreadPcs
  <2> QED
    BY <2>1, <2>2, <2>3, <2>4 DEF Init, SockTypeOK, Crashes
<1>3. LoopHasConns /\ NotYet
  BY DEF Init, WireInit, LoopHasConns, NotYet, Evicting, Accepted
<1>4. \A c \in Conn : StreamFramed(c)
  BY DEF Init, WireInit, StreamFramed, Framed
<1> QED
  BY <1>1, <1>2, <1>3, <1>4 DEF TypeInv, TypeOK

\* Steps of the loop thread.
LEMMA LoopTopType ==
  ASSUME TypeInv, LoopTop
  PROVE  TypeInv'
<1>1. WireTypeOK'
  BY WireSame DEF LoopTop, TypeInv, TypeOK
<1>2. SockTypeOK'
  BY DEF LoopTop, LoopGoes, TypeInv, TypeOK, SockTypeOK, LoopPcs, poolVars,
         connVars, thrVars
<1>3. LoopHasConns'
  BY DEF LoopTop, LoopGoes, LoopHasConns, Evicting, Accepted, TypeInv, TypeOK, SockTypeOK
<1>4. loop'.new = loop.new /\ UNCHANGED <<up, fdOf, thr, client>>
  BY DEF LoopTop, LoopGoes, TypeInv, TypeOK, SockTypeOK, thrVars, wireVars,
         clientVars, fdVars
<1> QED
  BY <1>1, <1>2, <1>3, <1>4, StepType DEF TypeOK

LEMMA AcceptType ==
  ASSUME TypeInv, Accept
  PROVE  TypeInv'
<1> DEFINE c == loop.new + 1
<1>1. c \in Conn /\ c > loop.new
  BY WireAssumption DEF Accept, TypeInv, TypeOK, SockTypeOK, Conn
<1>2. client[c] = "none" /\ fdOf[c] = NoFd /\ thr[c] = "new"
  BY <1>1 DEF TypeInv, NotYet
<1>3. AcceptFd(c) \/ UNCHANGED wireVars
  BY DEF Accept
<1>4. WireTypeOK'
  BY <1>1, <1>3, AcceptFdType, WireSame DEF TypeInv, TypeOK
<1>5. /\ loop' = [loop EXCEPT !.new = c, !.pc = IF Len(connections) >= PoolSize
                                                 THEN "evict" ELSE "push"]
      /\ UNCHANGED <<poolVars, main, connVars, thrVars, crash>>
  BY DEF Accept
<1>6. SockTypeOK'
  <2>1. c \in 0 .. MaxConns
    BY <1>1, WireAssumption DEF Conn
  <2>2. loop' \in [pc : LoopPcs, old : Conn \cup {NoConn}, new : 0 .. MaxConns]
    BY <1>5, <2>1 DEF TypeInv, TypeOK, SockTypeOK, LoopPcs
  <2> QED
    BY <1>5, <2>2 DEF TypeInv, TypeOK, SockTypeOK, poolVars, connVars, thrVars
<1>7. LoopHasConns'
  BY <1>1, <1>5 DEF LoopHasConns, Evicting, Accepted, TypeInv, TypeOK, SockTypeOK
<1>8. NotYet'
  <2> SUFFICES ASSUME NEW d \in Conn, d > loop'.new
               PROVE  client'[d] = "none" /\ fdOf'[d] = NoFd /\ thr'[d] = "new"
    BY DEF NotYet
  <2>1. loop'.new = loop.new + 1 /\ loop.new \in Nat /\ d \in Nat
    BY <1>5 DEF TypeInv, TypeOK, SockTypeOK, Conn
  <2>2. d > loop.new /\ d # c
    BY <2>1
  <2>3. client'[d] = client[d] /\ fdOf'[d] = fdOf[d] /\ thr'[d] = thr[d]
    BY <1>3, <1>5, <2>2 DEF AcceptFd, wireVars, clientVars, fdVars, thrVars,
                            TypeInv, TypeOK, WireTypeOK
  <2> QED
    BY <2>2, <2>3 DEF TypeInv, NotYet
<1>9. \A d \in Conn : StreamFramed(d)'
  <2>1. UNCHANGED <<up, thr>>
    BY <1>3, <1>5 DEF AcceptFd, wireVars, clientVars, thrVars
  <2>2. \A d \in Conn : client'[d] \in Whole => client[d] \in Whole
    BY <1>2, <1>3 DEF Whole, AcceptFd, wireVars, clientVars, TypeInv, TypeOK, WireTypeOK
  <2> QED
    BY <2>1, <2>2, FramedKept
<1> QED
  BY <1>4, <1>6, <1>7, <1>8, <1>9 DEF TypeInv, TypeOK

\* Where the process ends nothing else changes.
LEMMA CrashType ==
  ASSUME TypeInv, NEW how \in Crashes, Crash(how)
  PROVE  TypeInv'
<1>1. WireTypeOK'
  BY WireSame DEF Crash, TypeInv, TypeOK
<1>2. SockTypeOK'
  BY DEF Crash, TypeInv, TypeOK, SockTypeOK, poolVars, connVars, thrVars
<1>3. UNCHANGED <<loop, up, fdOf, thr, client>>
  BY DEF Crash, thrVars, wireVars, clientVars, fdVars
<1>4. LoopHasConns'
  BY <1>3 DEF LoopHasConns, TypeInv
<1> QED
  BY <1>1, <1>2, <1>3, <1>4, StepType DEF TypeOK

LEMMA EvictBeginType ==
  ASSUME TypeInv, EvictBegin
  PROVE  TypeInv'
<1>1. WireTypeOK'
  BY WireSame DEF EvictBegin, Crash, TypeInv, TypeOK
<1>2. CASE connections = <<>>
  BY <1>2, CrashType DEF EvictBegin, Crashes
<1>3. CASE connections # <<>>
  <2> DEFINE c == Head(connections)
  <2>1. c \in Conn
    BY <1>3 DEF TypeInv, TypeOK, SockTypeOK
  <2>2. loop' = [loop EXCEPT !.pc = "evictJoin", !.old = c]
    BY <1>3 DEF EvictBegin
  <2>3. loop' \in [pc : LoopPcs, old : Conn \cup {NoConn}, new : 0 .. MaxConns]
    BY <2>1, <2>2 DEF TypeInv, TypeOK, SockTypeOK, LoopPcs
  <2>4. connected' \in [Conn -> BOOLEAN] /\ rdshut' \in [Conn -> BOOLEAN]
    BY <1>3 DEF EvictBegin, ShutdownRead, Holds, TypeInv, TypeOK, SockTypeOK
  <2>5. crash' \in Crashes
    BY <1>3 DEF EvictBegin, Crashes, TypeInv, TypeOK, SockTypeOK
  <2>6. SockTypeOK'
    BY <1>3, <2>3, <2>4, <2>5
       DEF EvictBegin, TypeInv, TypeOK, SockTypeOK, poolVars, thrVars
  <2>7. LoopHasConns'
    BY <1>3, <2>1, <2>2 DEF EvictBegin, LoopHasConns, Evicting, Accepted, TypeInv,
                            TypeOK, SockTypeOK
  <2>8. loop'.new = loop.new
    BY <2>2 DEF TypeInv, TypeOK, SockTypeOK
  <2>9. UNCHANGED <<up, fdOf, thr, client>>
    BY <1>3 DEF EvictBegin, thrVars, wireVars, clientVars, fdVars
  <2> QED
    BY <1>1, <2>6, <2>7, <2>8, <2>9, StepType DEF TypeOK
<1> QED
  BY <1>2, <1>3

LEMMA EvictJoinType ==
  ASSUME TypeInv, EvictJoin
  PROVE  TypeInv'
<1>1. loop.old \in Conn
  BY DEF EvictJoin, TypeInv, LoopHasConns, Evicting
<1>2. WireTypeOK'
  BY <1>1, CloseFdType DEF EvictJoin, TypeInv, TypeOK
<1>3. SockTypeOK'
  BY DEF EvictJoin, LoopGoes, TypeInv, TypeOK, SockTypeOK, LoopPcs, poolVars,
         connVars, thrVars
<1>4. LoopHasConns'
  BY DEF EvictJoin, LoopGoes, LoopHasConns, Evicting, Accepted, TypeInv, TypeOK, SockTypeOK
<1>5. loop'.new = loop.new /\ UNCHANGED <<up, fdOf, thr, client>>
  BY DEF EvictJoin, LoopGoes, CloseFd, TypeInv, TypeOK, SockTypeOK, thrVars, clientVars
<1> QED
  BY <1>2, <1>3, <1>4, <1>5, StepType DEF TypeOK

LEMMA EvictPopType ==
  ASSUME TypeInv, EvictPop
  PROVE  TypeInv'
<1>1. WireTypeOK'
  BY WireSame DEF EvictPop, Crash, TypeInv, TypeOK
<1>2. connections' \in Seq(Conn)
  <2>1. connections \in Seq(Conn)
    BY DEF TypeInv, TypeOK, SockTypeOK
  <2>2. connections # <<>> => Tail(connections) \in Seq(Conn)
    BY <2>1
  <2> QED
    BY <2>1, <2>2 DEF EvictPop, Crash, poolVars
<1>3. SockTypeOK'
  BY <1>2 DEF EvictPop, Crash, LoopGoes, TypeInv, TypeOK, SockTypeOK, LoopPcs, Crashes,
              poolVars, connVars, thrVars
<1>4. LoopHasConns'
  BY DEF EvictPop, Crash, LoopGoes, LoopHasConns, Evicting, Accepted, TypeInv, TypeOK,
         SockTypeOK
<1>5. loop'.new = loop.new /\ UNCHANGED <<up, fdOf, thr, client>>
  BY DEF EvictPop, Crash, LoopGoes, TypeInv, TypeOK, SockTypeOK, thrVars, wireVars,
         clientVars, fdVars
<1> QED
  BY <1>1, <1>3, <1>4, <1>5, StepType DEF TypeOK

LEMMA EvictDeleteType ==
  ASSUME TypeInv, EvictDelete
  PROVE  TypeInv'
<1>1. loop.old \in Conn
  BY DEF EvictDelete, TypeInv, LoopHasConns, Evicting
<1>2. WireTypeOK'
  BY <1>1, CloseFdType DEF EvictDelete, TypeInv, TypeOK
<1>3. connected' \in [Conn -> BOOLEAN] /\ rdshut' \in [Conn -> BOOLEAN]
  BY DEF EvictDelete, ShutdownRead, Holds, TypeInv, TypeOK, SockTypeOK
<1>4. SockTypeOK'
  BY <1>1, <1>3 DEF EvictDelete, LoopGoes, TypeInv, TypeOK, SockTypeOK, LoopPcs,
                    poolVars, thrVars
<1>5. LoopHasConns'
  BY DEF EvictDelete, LoopGoes, LoopHasConns, Evicting, Accepted, TypeInv, TypeOK,
         SockTypeOK
<1>6. loop'.new = loop.new /\ UNCHANGED <<up, fdOf, thr, client>>
  BY DEF EvictDelete, LoopGoes, CloseFd, TypeInv, TypeOK, SockTypeOK, thrVars, clientVars
<1> QED
  BY <1>2, <1>4, <1>5, <1>6, StepType DEF TypeOK

LEMMA PushType ==
  ASSUME TypeInv, Push
  PROVE  TypeInv'
<1>1. WireTypeOK'
  BY WireSame DEF Push, TypeInv, TypeOK
<1>2. connections' \in Seq(Conn)
  BY DEF Push, TypeInv, TypeOK, SockTypeOK, LoopHasConns, Accepted
<1>3. SockTypeOK'
  BY <1>2 DEF Push, LoopGoes, TypeInv, TypeOK, SockTypeOK, LoopPcs, connVars, thrVars
<1>4. LoopHasConns'
  BY DEF Push, LoopGoes, LoopHasConns, Evicting, Accepted, TypeInv, TypeOK, SockTypeOK
<1>5. loop'.new = loop.new /\ UNCHANGED <<up, fdOf, thr, client>>
  BY DEF Push, LoopGoes, TypeInv, TypeOK, SockTypeOK, thrVars, wireVars, clientVars, fdVars
<1> QED
  BY <1>1, <1>3, <1>4, <1>5, StepType DEF TypeOK

LEMMA StartType ==
  ASSUME TypeInv, Start
  PROVE  TypeInv'
<1>1. WireTypeOK'
  BY WireSame DEF Start, TypeInv, TypeOK
<1>2. SockTypeOK'
  BY DEF Start, LoopGoes, TypeInv, TypeOK, SockTypeOK, LoopPcs, ThreadPcs, poolVars, connVars
<1>3. LoopHasConns'
  BY DEF Start, LoopGoes, LoopHasConns, Evicting, Accepted, TypeInv, TypeOK, SockTypeOK
<1>4. loop'.new = loop.new /\ UNCHANGED <<up, fdOf, client>>
  BY DEF Start, LoopGoes, TypeInv, TypeOK, SockTypeOK, wireVars, clientVars, fdVars
<1>5. \A c \in Conn : /\ thr'[c] = "body" => thr[c] = "body"
                      /\ c > loop.new => thr'[c] = thr[c]
  BY DEF Start, TypeInv, TypeOK, SockTypeOK, Conn
<1> QED
  BY <1>1, <1>2, <1>3, <1>4, <1>5, StepType DEF TypeOK

\* Steps of a connection thread.
Holdable == {"nothing"} \cup RequestKinds \cup ErrorCodes

\* Anywhere but into a body: what is left to check is the rest of the state.
LEMMA ThreadStepType ==
  ASSUME TypeInv, NEW c \in Conn, thr[c] # "new",
         NEW pc \in ThreadPcs \ {"body", "new"}, NEW what \in Holdable,
         ThreadGoes(c, pc, what), ThreadFrame, UNCHANGED <<crash, up, fdOf>>,
         WireTypeOK', connected' \in [Conn -> BOOLEAN], executed' \in [Conn -> Nat],
         \A d \in Conn : /\ client'[d] \in Whole => client[d] \in Whole
                         /\ client[d] = "none" => client'[d] = "none"
  PROVE  TypeInv'
<1>1. SockTypeOK'
  BY DEF ThreadGoes, ThreadFrame, Holdable, TypeInv, TypeOK, SockTypeOK, poolVars
<1>2. loop' = loop /\ \A d \in Conn : /\ thr'[d] = "body" => thr[d] = "body"
                                      /\ thr[d] = "new" => thr'[d] = "new"
  BY DEF ThreadGoes, ThreadFrame, TypeInv, TypeOK, SockTypeOK
<1>3. LoopHasConns'
  BY <1>2 DEF LoopHasConns, TypeInv
<1> QED
  BY <1>1, <1>2, <1>3, StepType DEF TypeOK

\* A write moves no client but one that has gone.
LEMMA WriteClient ==
  ASSUME TypeInv, NEW c \in Conn, NEW frame \in Frames, Write(c, frame)
  PROVE  /\ UNCHANGED up
         /\ \A d \in Conn : /\ client'[d] \in Whole => client[d] \in Whole
                            /\ client[d] = "none" => client'[d] = "none"
BY DEF Write, Whole, TypeInv, TypeOK, WireTypeOK

LEMMA WhileType ==
  ASSUME TypeInv, NEW c \in Conn, While(c)
  PROVE  TypeInv'
<1>1. WireTypeOK' /\ UNCHANGED <<crash, up, fdOf, client, connected, executed>>
  BY WireSame DEF While, TypeInv, TypeOK, wireVars, clientVars, fdVars
<1>2. \E pc \in {"recv", "done"} : ThreadGoes(c, pc, "nothing")
  BY DEF While
<1> QED
  BY <1>1, <1>2, ThreadStepType
     DEF While, ThreadPcs, Holdable, TypeInv, TypeOK, SockTypeOK

LEMMA HandleType ==
  ASSUME TypeInv, NEW c \in Conn, Handle(c)
  PROVE  TypeInv'
<1>1. WireTypeOK' /\ UNCHANGED <<crash, up, fdOf, client, connected>>
  BY WireSame DEF Handle, TypeInv, TypeOK, wireVars, clientVars, fdVars
<1>2. executed' \in [Conn -> Nat]
  <2>1. executed' = executed \/ executed' = [executed EXCEPT ![c] = @ + 1]
    BY DEF Handle
  <2>2. executed \in [Conn -> Nat]
    BY DEF TypeInv, TypeOK, SockTypeOK
  <2> QED BY <2>1, <2>2
<1>3. ErrorOf(held[c]) \in ErrorCodes
  BY DEF ErrorOf, ErrorCodes
<1>4. \E pc \in {"respond", "catch"}, what \in Holdable : ThreadGoes(c, pc, what)
  BY <1>3 DEF Handle, Holdable
<1> QED
  BY <1>1, <1>2, <1>4, ThreadStepType DEF Handle, ThreadPcs, TypeInv, TypeOK, SockTypeOK

LEMMA RespondType ==
  ASSUME TypeInv, NEW c \in Conn, Respond(c)
  PROVE  TypeInv'
<1>1. CASE WriteFails(c)
  BY <1>1, CrashType DEF Respond, Crashes
<1>2. CASE ~WriteFails(c)
  <2>1. Write(c, "result") /\ UNCHANGED fdVars
    BY <1>2 DEF Respond
  <2>2. WireTypeOK'
    BY <2>1, WriteType DEF Frames, TypeInv, TypeOK
  <2>3. ThreadGoes(c, "after", "nothing") /\ UNCHANGED <<crash, fdOf, connected, executed>>
    BY <1>2 DEF Respond, fdVars
  <2> QED
    BY <1>2, <2>1, <2>2, <2>3, WriteClient, ThreadStepType
       DEF Respond, Frames, ThreadPcs, Holdable, TypeInv, TypeOK, SockTypeOK
<1> QED
  BY <1>1, <1>2

LEMMA AfterType ==
  ASSUME TypeInv, NEW c \in Conn, After(c)
  PROVE  TypeInv'
<1>1. WireTypeOK' /\ UNCHANGED <<crash, up, fdOf, client, connected, executed>>
  BY WireSame DEF After, TypeInv, TypeOK, wireVars, clientVars, fdVars
<1>2. \E pc \in {"check", "catch"}, what \in Holdable : ThreadGoes(c, pc, what)
  BY DEF After, Holdable, ErrorCodes
<1> QED
  BY <1>1, <1>2, ThreadStepType DEF After, ThreadPcs, TypeInv, TypeOK, SockTypeOK

LEMMA CatchType ==
  ASSUME TypeInv, Caught, NEW c \in Conn, Catch(c)
  PROVE  TypeInv'
<1>1. held[c] \in ErrorCodes
  BY DEF Catch, Caught
<1>2. CASE connected[c] /\ held[c] = "SOCKET_CLOSED"
  <2>1. WireTypeOK' /\ UNCHANGED <<crash, up, fdOf, client, executed>>
    BY <1>2, WireSame DEF Catch, TypeInv, TypeOK, wireVars, clientVars, fdVars
  <2>2. connected' \in [Conn -> BOOLEAN]
    BY <1>2 DEF Catch, TypeInv, TypeOK, SockTypeOK
  <2> QED
    BY <1>1, <1>2, <2>1, <2>2, ThreadStepType
       DEF Catch, ThreadPcs, Holdable, TypeInv, TypeOK, SockTypeOK
<1>3. CASE ~(connected[c] /\ held[c] = "SOCKET_CLOSED") /\ WriteFails(c)
  BY <1>3, CrashType DEF Catch, Crashes
<1>4. CASE ~(connected[c] /\ held[c] = "SOCKET_CLOSED") /\ ~WriteFails(c)
  <2>1. Write(c, held[c]) /\ UNCHANGED fdVars
    BY <1>4 DEF Catch
  <2>2. WireTypeOK'
    BY <1>1, <2>1, WriteType DEF Frames, TypeInv, TypeOK
  <2>3. ThreadGoes(c, "done", held[c]) /\ UNCHANGED <<crash, fdOf, connected, executed>>
    BY <1>4 DEF Catch, fdVars
  <2> QED
    BY <1>1, <1>4, <2>1, <2>2, <2>3, WriteClient, ThreadStepType
       DEF Catch, Frames, ThreadPcs, Holdable, TypeInv, TypeOK, SockTypeOK
<1> QED
  BY <1>2, <1>3, <1>4

\* A unit is taken: the thread is in a body afterwards only if it was a size.
LEMMA TakeType ==
  ASSUME TypeInv, NEW c \in Conn, thr[c] \in {"recv", "body"}, up[c] # <<>>,
         up' = [up EXCEPT ![c] = Tail(@)],
         NEW pc \in {"body", "handle", "catch"}, NEW what \in Holdable,
         pc = "body" => Head(up[c]) = "size",
         ThreadGoes(c, pc, what), ThreadFrame,
         UNCHANGED <<connected, executed, crash, down, client, calls, acked, denied, fdVars>>
  PROVE  TypeInv'
<1>1. up[c] \in Seq(Units) /\ Tail(up[c]) \in Seq(Units)
  BY DEF TypeInv, TypeOK, WireTypeOK
<1>2. WireTypeOK'
  BY <1>1 DEF TypeInv, TypeOK, WireTypeOK, fdVars
<1>3. SockTypeOK'
  BY DEF ThreadGoes, ThreadFrame, Holdable, ThreadPcs, TypeInv, TypeOK, SockTypeOK, poolVars
<1>4. LoopHasConns'
  BY DEF ThreadFrame, LoopHasConns, TypeInv
<1>5. NotYet'
  BY DEF ThreadGoes, ThreadFrame, NotYet, TypeInv, TypeOK, SockTypeOK, fdVars
<1>6. ASSUME NEW d \in Conn, d # c PROVE StreamFramed(d)'
  <2>1. up'[d] = up[d] /\ thr'[d] = thr[d] /\ client'[d] = client[d]
    BY <1>6 DEF ThreadGoes, TypeInv, TypeOK, WireTypeOK, SockTypeOK
  <2> QED
    BY <2>1 DEF StreamFramed, TypeInv
<1>7. StreamFramed(c)'
  <2> DEFINE inBody == thr[c] = "body"
             whole == client[c] \in Whole
  <2>1. Framed(up[c], inBody, whole)
    BY DEF TypeInv, StreamFramed
  <2>2. inBody \in BOOLEAN /\ whole \in BOOLEAN
    OBVIOUS
  <2>3. /\ Framed(Tail(up[c]), FALSE, whole)
        /\ Head(up[c]) = "size" => Framed(Tail(up[c]), TRUE, whole)
    BY <1>1, <2>1, <2>2, FramedTake
  <2>4. Framed(Tail(up[c]), pc = "body", whole)
    BY <2>3 DEF Framed
  <2>5. up'[c] = Tail(up[c]) /\ thr'[c] = pc /\ client'[c] = client[c]
    BY DEF ThreadGoes, TypeInv, TypeOK, WireTypeOK, SockTypeOK
  <2> QED
    BY <2>4, <2>5 DEF StreamFramed
<1> QED
  BY <1>2, <1>3, <1>4, <1>5, <1>6, <1>7 DEF TypeInv, TypeOK

LEMMA ReadSizeType ==
  ASSUME TypeInv, NEW c \in Conn, ReadSize(c)
  PROVE  TypeInv'
<1>1. CASE up[c] # <<>> /\ up' = [up EXCEPT ![c] = Tail(@)]
  <2>1. \/ Head(up[c]) = "size" /\ ThreadGoes(c, "body", "nothing")
        \/ ThreadGoes(c, "catch", "BAD_MESSAGE")
    BY <1>1 DEF ReadSize
  <2> QED
    BY <1>1, <2>1, TakeType DEF ReadSize, Holdable, ErrorCodes
<1>2. CASE ~(up[c] # <<>> /\ up' = [up EXCEPT ![c] = Tail(@)])
  <2>1. UNCHANGED wireVars
    BY <1>2 DEF ReadSize, wireVars, clientVars
  <2>2. \E what \in Holdable : ThreadGoes(c, "catch", what)
    <3>1. \/ ThreadGoes(c, "catch", "BAD_MESSAGE")
          \/ ThreadGoes(c, "catch", "SOCKET_CLOSED")
      BY <1>2 DEF ReadSize
    <3> QED
      BY <3>1 DEF Holdable, ErrorCodes
  <2> QED
    BY <2>1, <2>2, WireSame, ThreadStepType
       DEF ReadSize, ThreadPcs, TypeInv, TypeOK, SockTypeOK, wireVars, clientVars, fdVars
<1> QED
  BY <1>1, <1>2 DEF ReadSize

LEMMA ReadBodyType ==
  ASSUME TypeInv, NEW c \in Conn, ReadBody(c)
  PROVE  TypeInv'
<1>1. CASE ~Holds(c) \/ client[c] = "reset"
  BY <1>1, CrashType DEF ReadBody, Crashes
<1>2. CASE ~(~Holds(c) \/ client[c] = "reset")
  <2>1. up[c] # <<>> /\ thr[c] = "body" /\ up[c] \in Seq(Units)
    BY <1>2 DEF ReadBody, TypeInv, TypeOK, WireTypeOK
  <2>2. up[c][1] # "size"
    BY <2>1 DEF TypeInv, StreamFramed, Framed
  <2>3. Head(up[c]) \in Holdable
    BY <2>1, <2>2 DEF Units, Holdable
  <2> QED
    BY <1>2, <2>1, <2>3, TakeType DEF ReadBody
<1> QED
  BY <1>1, <1>2

LEMMA ThreadNextType ==
  ASSUME TypeInv, Caught, NEW c \in Conn, ThreadNext(c)
  PROVE  TypeInv'
BY WhileType, ReadSizeType, ReadBodyType, HandleType, RespondType, AfterType, CatchType
   DEF ThreadNext

\* Steps of the owner.
LEMMA NextAfterType ==
  ASSUME TypeInv, NEW c \in Conn \cup {NoConn},
         c # NoConn => c \in ToSet(connections)
  PROVE  NextAfter(c) \in Conn \cup {NoConn}
<1> DEFINE j == CHOOSE j \in DOMAIN connections : connections[j] = c
           i == IF c = NoConn THEN 1 ELSE 1 + j
<1>1. connections \in Seq(Conn)
  BY DEF TypeInv, TypeOK, SockTypeOK
<1>2. c # NoConn => j \in DOMAIN connections
  BY DEF ToSet
<1>3. i \in Nat \ {0}
  BY <1>1, <1>2
<1>4. i <= Len(connections) => connections[i] \in Conn
  BY <1>1, <1>3
<1>5. NextAfter(c) = IF i > Len(connections) THEN NoConn ELSE connections[i]
  BY DEF NextAfter
<1> QED
  BY <1>1, <1>3, <1>4, <1>5

LEMMA MainStepType ==
  ASSUME TypeInv, MainNext
  PROVE  TypeInv'
<1> DEFINE MainType == [pc : MainPcs, conn : Conn \cup {NoConn}, stops : Nat]
<1>0. main \in MainType
  BY DEF TypeInv, TypeOK, SockTypeOK
\* What the owner's steps have in common.
<1>1. ASSUME WireTypeOK', connections' \in Seq(Conn), stop' \in BOOLEAN,
             mutex' \in {"nobody", "main"}, main' \in MainType,
             connected' \in [Conn -> BOOLEAN], rdshut' \in [Conn -> BOOLEAN],
             crash' \in Crashes, UNCHANGED <<loop, deleted, thrVars, clientVars, fdOf>>
      PROVE  TypeInv'
  <2>1. SockTypeOK'
    BY <1>1 DEF TypeInv, TypeOK, SockTypeOK, thrVars
  <2>2. LoopHasConns'
    BY <1>1 DEF TypeInv, LoopHasConns
  <2>3. UNCHANGED <<loop, up, fdOf, thr, client>>
    BY <1>1 DEF thrVars, clientVars
  <2> QED
    BY <1>1, <2>1, <2>2, <2>3, StepType DEF TypeOK
<1>2. CASE StopBegin
  <2>1. main' \in MainType
    BY <1>0, <1>2 DEF StopBegin, MainPcs
  <2> QED
    BY <1>1, <1>2, <2>1, WireSame
       DEF StopBegin, MainFrame, TypeInv, TypeOK, SockTypeOK, wireVars, fdVars, connVars
<1>3. CASE StopEach
  <2>1. CASE main.conn # NoConn /\ main.conn \notin ToSet(connections)
    BY <1>3, <2>1, CrashType DEF StopEach, Crashes
  <2>2. CASE ~(main.conn # NoConn /\ main.conn \notin ToSet(connections))
    <3> DEFINE c == NextAfter(main.conn)
    <3>1. c \in Conn \cup {NoConn}
      BY <1>0, <2>2, NextAfterType
    <3>2. UNCHANGED <<loop, deleted, thrVars, wireVars, stop>>
      BY <1>3, <2>2 DEF StopEach, MainFrame, connVars, wireVars, poolVars
    <3>3. WireTypeOK'
      BY <3>2, WireSame DEF TypeInv, TypeOK
    <3>4. CASE c = NoConn
      <4>1. main' \in MainType
        BY <1>0, <1>3, <2>2, <3>4 DEF StopEach, MainGoes, MainPcs
      <4>2. connections' = <<>> /\ mutex' = "nobody" /\ UNCHANGED <<connVars, crash>>
        BY <1>3, <2>2, <3>4 DEF StopEach
      <4>3. connections' \in Seq(Conn)
        BY <4>2
      <4>4. UNCHANGED <<clientVars, fdOf>>
        BY <3>2 DEF wireVars, fdVars
      <4>5. /\ stop' \in BOOLEAN /\ crash' \in Crashes
            /\ connected' \in [Conn -> BOOLEAN] /\ rdshut' \in [Conn -> BOOLEAN]
        BY <3>2, <4>2 DEF TypeInv, TypeOK, SockTypeOK, connVars
      <4> QED
        BY <1>1, <3>2, <3>3, <4>1, <4>2, <4>3, <4>4, <4>5
    <3>5. CASE c # NoConn
      <4>1. main' \in MainType
        BY <1>0, <1>3, <2>2, <3>1, <3>5 DEF StopEach, MainGoes, MainPcs
      <4>2. connected' \in [Conn -> BOOLEAN] /\ rdshut' \in [Conn -> BOOLEAN]
        BY <1>3, <2>2, <3>5 DEF StopEach, ShutdownRead, Holds, TypeInv, TypeOK, SockTypeOK
      <4>3. crash' \in Crashes
        BY <1>3, <2>2, <3>5 DEF StopEach, Crashes, TypeInv, TypeOK, SockTypeOK
      <4> QED
        BY <1>1, <1>3, <2>2, <3>2, <3>3, <3>5, <4>1, <4>2, <4>3
           DEF StopEach, TypeInv, TypeOK, SockTypeOK, poolVars, wireVars, fdVars
    <3> QED
      BY <3>4, <3>5
  <2> QED
    BY <2>1, <2>2
<1>4. CASE StopJoin
  <2>1. CASE main.conn \in deleted
    BY <1>4, <2>1, CrashType DEF StopJoin, Crashes
  <2>2. CASE main.conn \notin deleted
    <3>1. /\ CloseFd(main.conn) /\ MainGoes("each", main.conn)
          /\ UNCHANGED <<poolVars, loop, connVars, crash, thrVars, clientVars>>
      BY <1>4, <2>2 DEF StopJoin, MainFrame
    <3>2. WireTypeOK'
      BY <3>1 DEF CloseFd, Close, WireTypeOK, clientVars, TypeInv, TypeOK
    <3>3. main' \in MainType
      BY <1>0, <3>1 DEF MainGoes, MainPcs
    <3> QED
      BY <1>1, <3>1, <3>2, <3>3
         DEF CloseFd, TypeInv, TypeOK, SockTypeOK, poolVars, connVars
  <2> QED
    BY <2>1, <2>2
<1>5. CASE SetStop \/ JoinLoop
  <2>1. main' \in MainType
    BY <1>0, <1>5 DEF SetStop, JoinLoop, MainGoes, MainPcs, NoConn
  <2>2. UNCHANGED wireVars
    BY <1>5 DEF SetStop, JoinLoop, MainFrame, wireVars
  <2> QED
    BY <1>1, <1>5, <2>1, <2>2, WireSame
       DEF SetStop, JoinLoop, MainFrame, TypeInv, TypeOK, SockTypeOK, poolVars, connVars,
           wireVars, fdVars
<1> QED
  BY <1>2, <1>3, <1>4, <1>5 DEF MainNext

\* Steps of the clients and of the rest of the process.
LEMMA EnvironmentType ==
  ASSUME TypeInv, Environment
  PROVE  TypeInv'
<1>1. UNCHANGED <<poolVars, loop, main, connVars, thrVars, crash>>
  BY DEF Environment
<1>2. SockTypeOK'
  BY <1>1 DEF TypeInv, TypeOK, SockTypeOK, poolVars, connVars, thrVars
<1>3. LoopHasConns' /\ UNCHANGED thr
  BY <1>1 DEF TypeInv, LoopHasConns, thrVars
<1>4. CASE AppOpen \/ AppClose
  <2>1. WireTypeOK'
    BY <1>4, AppType DEF TypeInv, TypeOK
  <2>2. UNCHANGED <<loop, up, fdOf, thr, client>>
    BY <1>1, <1>4 DEF AppOpen, AppClose, clientVars, thrVars
  <2> QED
    BY <1>2, <1>3, <2>1, <2>2, StepType DEF TypeOK
<1>5. CASE \E c \in Conn : ClientNext(c)
  <2>1. PICK c \in Conn : ClientNext(c)
    BY <1>5
  <2>2. WireTypeOK'
    BY <2>1, ClientNextType DEF TypeInv, TypeOK
  <2>3. \A d \in Conn : StreamFramed(d)'
    BY <1>3, <2>1, ClientFramed DEF TypeInv, TypeOK, StreamFramed
  <2>4. client[c] # "none" /\ UNCHANGED fdVars
    BY <2>1, ClientPresent
  <2>5. \A d \in Conn \ {c} : client'[d] = client[d]
    BY <2>1, ClientOnly DEF TypeInv, TypeOK
  <2>6. NotYet'
    BY <1>1, <2>4, <2>5 DEF NotYet, TypeInv, fdVars, thrVars
  <2> QED
    BY <1>2, <1>3, <2>2, <2>3, <2>6 DEF TypeInv, TypeOK
<1> QED
  BY <1>4, <1>5 DEF Environment

LEMMA CaughtKept ==
  ASSUME TypeInv, Caught, [Next]_vars
  PROVE  Caught'
<1> SUFFICES ASSUME NEW d \in Conn, thr'[d] = "catch" PROVE held'[d] \in ErrorCodes
  BY DEF Caught
<1>1. thr \in [Conn -> ThreadPcs] /\ held \in [Conn -> Holdable]
  BY DEF TypeInv, TypeOK, SockTypeOK, Holdable
<1>2. CASE UNCHANGED <<thr, held>>
  BY <1>2 DEF Caught
<1>3. CASE Start
  BY <1>1, <1>3 DEF Start, Caught
<1>4. ASSUME NEW c \in Conn, NEW pc, NEW what, ThreadGoes(c, pc, what),
             pc = "catch" => what \in ErrorCodes
      PROVE  held'[d] \in ErrorCodes
  BY <1>1, <1>4 DEF ThreadGoes, Caught
<1>5. ASSUME NEW c \in Conn, ThreadNext(c) PROVE held'[d] \in ErrorCodes
  <2>1. CASE While(c) \/ Respond(c) \/ ReadBody(c)
    BY <1>2, <1>4, <2>1 DEF While, Respond, ReadBody, Crash, thrVars
  <2>2. CASE ReadSize(c)
    BY <1>4, <2>2 DEF ReadSize, ErrorCodes
  <2>3. CASE Handle(c)
    BY <1>4, <2>3 DEF Handle, ErrorOf, ErrorCodes
  <2>4. CASE After(c)
    BY <1>4, <2>4 DEF After, ErrorCodes
  <2>5. CASE Catch(c)
    BY <1>2, <1>4, <2>5 DEF Catch, Crash, thrVars
  <2> QED
    BY <1>5, <2>1, <2>2, <2>3, <2>4, <2>5 DEF ThreadNext
<1>6. CASE LoopTop \/ Accept \/ EvictBegin \/ EvictJoin \/ EvictPop \/ EvictDelete \/ Push
  BY <1>2, <1>6 DEF LoopTop, Accept, EvictBegin, EvictJoin, EvictPop, EvictDelete, Push,
                    Crash, thrVars
<1>7. CASE MainNext \/ Environment
  BY <1>2, <1>7 DEF MainNext, StopBegin, StopEach, StopJoin, SetStop, JoinLoop, MainFrame,
                    Crash, Environment, thrVars
<1>8. CASE UNCHANGED vars
  BY <1>2, <1>8 DEF vars, thrVars
<1> QED
  BY <1>3, <1>5, <1>6, <1>7, <1>8 DEF Next, LoopServes

LEMMA TypeInvKept ==
  ASSUME TypeInv, Caught, [Next]_vars
  PROVE  TypeInv'
<1>1. CASE UNCHANGED vars
  <2>1. WireTypeOK'
    BY <1>1, WireSame DEF vars, TypeInv, TypeOK
  <2>2. SockTypeOK'
    BY <1>1 DEF vars, TypeInv, TypeOK, SockTypeOK, poolVars, connVars, thrVars
  <2>3. UNCHANGED <<loop, up, fdOf, thr, client>>
    BY <1>1 DEF vars, thrVars, wireVars, clientVars, fdVars
  <2>4. LoopHasConns'
    BY <2>3 DEF TypeInv, LoopHasConns
  <2> QED
    BY <2>1, <2>2, <2>3, <2>4, StepType DEF TypeOK
<1>2. CASE Next
  BY <1>2, LoopTopType, AcceptType, EvictBeginType, EvictJoinType, EvictPopType,
     EvictDeleteType, PushType, StartType, ThreadNextType, MainStepType, EnvironmentType
     DEF Next, LoopServes
<1> QED
  BY <1>1, <1>2

\* Every variable keeps its type: no thread handles half a message, none
\* answers with anything but an error code or a result.
THEOREM TypeCorrect == Spec => [](TypeInv /\ Caught)
<1>1. Init => TypeInv /\ Caught
  BY InitType DEF Init, Caught
<1>2. TypeInv /\ Caught /\ [Next]_vars => TypeInv' /\ Caught'
  BY TypeInvKept, CaughtKept
<1> QED
  BY <1>1, <1>2, PTL DEF Spec

\* TypeOK is an invariant.
THEOREM TypesHold == Spec => []TypeOK
<1>1. TypeInv => TypeOK
  BY DEF TypeInv
<1> QED
  BY <1>1, TypeCorrect, PTL

-----------------------------------------------------------------------------
(* The list of connections and the threads *)

LEMMA ListStep ==
  ASSUME NEW s \in Seq(Conn), NEW c \in Conn
  PROVE  /\ Len(Append(s, c)) = Len(s) + 1
         /\ ToSet(Append(s, c)) = ToSet(s) \cup {c}
         /\ s # <<>> => /\ Len(Tail(s)) = Len(s) - 1
                        /\ ToSet(s) = ToSet(Tail(s)) \cup {Head(s)}
<1>1. ToSet(Append(s, c)) = ToSet(s) \cup {c}
  <2>1. /\ Len(s) \in Nat /\ Len(Append(s, c)) = Len(s) + 1
        /\ Append(s, c)[Len(s) + 1] = c
        /\ \A i \in 1 .. Len(s) : Append(s, c)[i] = s[i]
        /\ DOMAIN s = 1 .. Len(s) /\ DOMAIN Append(s, c) = 1 .. Len(s) + 1
    OBVIOUS
  <2>3. ASSUME NEW x PROVE x \in ToSet(Append(s, c)) <=> x \in ToSet(s) \cup {c}
    <3>1. x \in ToSet(s) <=> \E i \in 1 .. Len(s) : s[i] = x
      BY <2>1 DEF ToSet
    <3>2. x \in ToSet(Append(s, c)) <=> \E i \in 1 .. Len(s) + 1 : Append(s, c)[i] = x
      BY <2>1 DEF ToSet
    <3>3. \A i \in 1 .. Len(s) : i \in 1 .. Len(s) + 1
      BY <2>1
    <3>4. \A i \in 1 .. Len(s) + 1 : i \in 1 .. Len(s) \/ i = Len(s) + 1
      BY <2>1
    <3>5. Len(s) + 1 \in 1 .. Len(s) + 1
      BY <2>1
    <3> QED
      BY ONLY <2>1, <3>1, <3>2, <3>3, <3>4, <3>5
  <2> QED
    BY <2>3
<1>2. ASSUME s # <<>>
      PROVE  ToSet(s) = ToSet(Tail(s)) \cup {Head(s)}
  <2>1. /\ Len(s) \in Nat \ {0} /\ Len(Tail(s)) = Len(s) - 1
        /\ \A i \in 1 .. Len(Tail(s)) : Tail(s)[i] = s[i + 1]
        /\ DOMAIN Tail(s) = 1 .. Len(s) - 1 /\ DOMAIN s = 1 .. Len(s)
        /\ Head(s) = s[1]
    BY <1>2
  <2>2. ASSUME NEW i \in 1 .. Len(s) PROVE s[i] \in ToSet(Tail(s)) \cup {Head(s)}
    <3>1. CASE i = 1
      BY <2>1, <3>1
    <3>2. CASE i # 1
      <4>1. i - 1 \in 1 .. Len(Tail(s)) /\ Tail(s)[i - 1] = s[i]
        BY <2>1, <3>2
      <4> QED
        BY <2>1, <4>1 DEF ToSet
    <3> QED
      BY <3>1, <3>2
  <2>3. ASSUME NEW i \in 1 .. Len(s) - 1 PROVE Tail(s)[i] \in ToSet(s)
    BY <2>1 DEF ToSet
  <2>4. Head(s) \in ToSet(s)
    BY <2>1 DEF ToSet
  <2> QED
    BY <2>1, <2>2, <2>3, <2>4 DEF ToSet
<1> QED
  BY <1>1, <1>2

\* A list has no more members than places.
LEMMA ListCardinality ==
  ASSUME NEW s \in Seq(Conn)
  PROVE  IsFiniteSet(ToSet(s)) /\ Cardinality(ToSet(s)) <= Len(s)
<1>1. Len(s) \in Nat /\ s \in [1 .. Len(s) -> ToSet(s)]
  BY DEF ToSet
<1>2. s \in Surjection(1 .. Len(s), ToSet(s))
  BY <1>1 DEF Surjection, ToSet
<1>3. IsFiniteSet(1 .. Len(s)) /\ Cardinality(1 .. Len(s)) = Len(s)
  BY <1>1, FS_Interval
<1> QED
  BY <1>2, <1>3, FS_Surjection

\* The steps that touch neither the list nor the loop thread.
Elsewhere ==
  \/ \E c \in Conn : ThreadNext(c)
  \/ StopBegin \/ StopJoin \/ SetStop \/ JoinLoop
  \/ Environment
  \/ UNCHANGED vars

LEMMA ElsewhereKeeps ==
  ASSUME Elsewhere
  PROVE  UNCHANGED <<connections, loop>>
BY DEF Elsewhere, ThreadNext, While, ReadSize, ReadBody, Handle, Respond, After, Catch,
       ThreadFrame, Crash, StopBegin, StopJoin, SetStop, JoinLoop, Environment, vars, poolVars

LEMMA NextCases ==
  ASSUME [Next]_vars
  PROVE  \/ LoopTop \/ Accept \/ EvictBegin \/ EvictJoin \/ EvictPop \/ EvictDelete
         \/ Push \/ Start \/ StopEach \/ Elsewhere
BY DEF Next, LoopServes, MainNext, Elsewhere

LEMMA RoomKept ==
  ASSUME TypeInv, Room, [Next]_vars
  PROVE  Room'
<1>0. /\ connections \in Seq(Conn) /\ Len(connections) \in Nat /\ PoolSize \in Nat \ {0}
      /\ loop \in [pc : LoopPcs, old : Conn \cup {NoConn}, new : 0 .. MaxConns]
  BY SockServerAssumption DEF TypeInv, TypeOK, SockTypeOK
<1>1. CASE LoopTop
  BY <1>0, <1>1 DEF LoopTop, LoopGoes, Room, poolVars
<1>2. CASE Accept
  BY <1>0, <1>2 DEF Accept, Room, poolVars
<1>3. CASE EvictBegin
  BY <1>0, <1>3 DEF EvictBegin, Crash, Room, poolVars
<1>4. CASE EvictJoin
  BY <1>0, <1>4 DEF EvictJoin, LoopGoes, Room, poolVars
<1>5. CASE EvictPop
  <2>1. CASE connections = <<>>
    BY <1>5, <2>1 DEF EvictPop, Crash, Room, poolVars
  <2>2. CASE connections # <<>>
    <3>1. connections' = Tail(connections) /\ Len(connections') = Len(connections) - 1
      BY <1>0, <1>5, <2>2 DEF EvictPop
    <3> QED
      BY <1>0, <3>1 DEF Room
  <2> QED
    BY <2>1, <2>2
<1>6. CASE EvictDelete
  BY <1>0, <1>6 DEF EvictDelete, LoopGoes, Room, poolVars
<1>7. CASE Push
  <2>1. Len(connections') = Len(connections) + 1
    BY <1>0, <1>7 DEF Push, TypeInv, LoopHasConns, Accepted
  <2>2. loop'.pc = "start"
    BY <1>0, <1>7 DEF Push, LoopGoes
  <2> QED
    BY <1>0, <1>7, <2>1, <2>2 DEF Push, Room
<1>8. CASE Start
  BY <1>0, <1>8 DEF Start, LoopGoes, Room, poolVars
<1>9. CASE StopEach
  <2>1. loop' = loop /\ (connections' = connections \/ connections' = <<>>)
    BY <1>9 DEF StopEach, Crash, poolVars
  <2>2. Len(<<>>) = 0
    OBVIOUS
  <2> QED
    BY <1>0, <2>1, <2>2 DEF Room
<1>10. CASE Elsewhere
  BY <1>10, ElsewhereKeeps DEF Room
<1> QED
  BY <1>1, <1>2, <1>3, <1>4, <1>5, <1>6, <1>7, <1>8, <1>9, <1>10, NextCases

LEMMA UnstoppedKept ==
  ASSUME TypeInv, Unstopped, [Next]_vars
  PROVE  /\ Unstopped'
         /\ main'.stops = 0 => main.stops = 0 /\ ~StopEach
<1>1. main \in [pc : MainPcs, conn : Conn \cup {NoConn}, stops : Nat]
  BY DEF TypeInv, TypeOK, SockTypeOK
<1>2. CASE StopBegin
  BY <1>1, <1>2 DEF StopBegin, StopEach, Unstopped
<1>3. CASE StopEach
  BY <1>1, <1>3 DEF StopEach, Crash, MainGoes, Unstopped
<1>4. CASE StopJoin \/ SetStop \/ JoinLoop
  BY <1>1, <1>4 DEF StopJoin, SetStop, JoinLoop, StopEach, Crash, MainGoes, Unstopped
<1>5. CASE main' = main
  BY <1>5 DEF StopEach, Unstopped
<1>6. main' = main \/ MainNext
  BY DEF Next, LoopTop, LoopServes, Accept, EvictBegin, EvictJoin, EvictPop, EvictDelete,
         Push, Start, ThreadNext, While, ReadSize, ReadBody, Handle, Respond, After, Catch,
         ThreadFrame, Crash, Environment, vars
<1> QED
  BY <1>2, <1>3, <1>4, <1>5, <1>6 DEF MainNext

LEMMA OrderedKept ==
  ASSUME TypeInv, Ordered, [Next]_vars, ~StopEach
  PROVE  Ordered'
<1>0. /\ connections \in Seq(Conn) /\ Len(connections) \in Nat
      /\ DOMAIN connections = 1 .. Len(connections)
      /\ \A i \in DOMAIN connections : connections[i] \in Nat
      /\ loop \in [pc : LoopPcs, old : Conn \cup {NoConn}, new : 0 .. MaxConns]
      /\ loop.new \in Nat
  BY DEF TypeInv, TypeOK, SockTypeOK, Conn
<1>1. CASE LoopTop
  BY <1>0, <1>1 DEF LoopTop, LoopGoes, Ordered, Accepted, Evicting, poolVars
<1>2. CASE Accept
  BY <1>0, <1>2 DEF Accept, Ordered, poolVars
<1>3. CASE EvictBegin
  <2>1. /\ connections' = connections /\ loop'.new = loop.new
        /\ loop.pc \in Accepted \ {"start"}
    BY <1>0, <1>3 DEF EvictBegin, Crash, poolVars, Accepted
  <2> QED
    BY <2>1 DEF Ordered
<1>4. CASE EvictJoin \/ EvictDelete
  <2>1. /\ connections' = connections /\ loop'.new = loop.new
        /\ loop.pc \in Accepted \ {"start"}
    BY <1>0, <1>4 DEF EvictJoin, EvictDelete, LoopGoes, poolVars, Accepted, Evicting
  <2> QED
    BY <2>1 DEF Ordered
<1>5. CASE EvictPop
  <2>1. loop'.new = loop.new /\ loop.pc \in Accepted \ {"start"}
    BY <1>0, <1>5 DEF EvictPop, Crash, LoopGoes, Accepted, Evicting
  <2>2. CASE connections = <<>>
    BY <1>5, <2>1, <2>2 DEF EvictPop, Crash, Ordered, poolVars
  <2>3. CASE connections # <<>>
    <3>1. /\ connections' = Tail(connections)
          /\ DOMAIN connections' = 1 .. Len(connections) - 1
          /\ \A i \in DOMAIN connections' : connections'[i] = connections[i + 1]
      BY <1>0, <1>5, <2>3 DEF EvictPop
    <3>2. \A i \in DOMAIN connections' : i + 1 \in DOMAIN connections
      BY <1>0, <3>1
    <3>3. \A i, j \in DOMAIN connections' : i < j => connections'[i] < connections'[j]
      BY <1>0, <3>1, <3>2 DEF Ordered
    <3>4. \A i \in DOMAIN connections' : /\ connections'[i] <= loop.new
                                          /\ connections'[i] < loop.new
      BY <2>1, <3>1, <3>2 DEF Ordered
    <3> QED
      BY <2>1, <3>3, <3>4 DEF Ordered
  <2> QED
    BY <2>2, <2>3
<1>6. CASE Push
  <2>1. /\ connections' = Append(connections, loop.new)
        /\ loop'.new = loop.new /\ loop'.pc = "start"
        /\ \A i \in DOMAIN connections : connections[i] < loop.new
    BY <1>0, <1>6 DEF Push, LoopGoes, Ordered, Accepted
  <2>2. /\ DOMAIN connections' = 1 .. Len(connections) + 1
        /\ connections'[Len(connections) + 1] = loop.new
        /\ \A i \in DOMAIN connections : connections'[i] = connections[i]
    BY <1>0, <2>1
  <2>3. \A i, j \in DOMAIN connections' : i < j => connections'[i] < connections'[j]
    BY <1>0, <2>1, <2>2 DEF Ordered
  <2>4. \A i \in DOMAIN connections' : connections'[i] <= loop.new
    BY <1>0, <2>1, <2>2 DEF Ordered
  <2> QED
    BY <2>1, <2>3, <2>4 DEF Ordered
<1>7. CASE Start
  BY <1>0, <1>7 DEF Start, LoopGoes, Ordered, Accepted, Evicting, poolVars
<1>8. CASE Elsewhere
  BY <1>8, ElsewhereKeeps DEF Ordered
<1> QED
  BY <1>1, <1>2, <1>3, <1>4, <1>5, <1>6, <1>7, <1>8, NextCases

\* Only Start makes a thread run.
LEMMA ActiveStep ==
  ASSUME TypeInv, [Next]_vars, NEW c \in Conn, Active(c)'
  PROVE  Active(c) \/ (Start /\ c = loop.new)
<1>1. thr \in [Conn -> ThreadPcs]
  BY DEF TypeInv, TypeOK, SockTypeOK
<1>2. CASE UNCHANGED thr
  BY <1>2 DEF Active
<1>3. CASE Start
  BY <1>1, <1>3 DEF Start, Active
<1>4. CASE \E d \in Conn : ThreadNext(d)
  BY <1>1, <1>2, <1>4 DEF ThreadNext, While, ReadSize, ReadBody, Handle, Respond, After,
     Catch, ThreadGoes, Crash, Active, thrVars
<1>5. CASE LoopTop \/ Accept \/ EvictBegin \/ EvictJoin \/ EvictPop \/ EvictDelete \/ Push
  BY <1>2, <1>5 DEF LoopTop, Accept, EvictBegin, EvictJoin, EvictPop, EvictDelete, Push,
                    Crash, thrVars
<1>6. CASE MainNext \/ Environment \/ UNCHANGED vars
  BY <1>2, <1>6 DEF MainNext, StopBegin, StopEach, StopJoin, SetStop, JoinLoop, MainFrame,
                    Crash, Environment, vars, thrVars
<1> QED
  BY <1>3, <1>4, <1>5, <1>6 DEF Next, LoopServes

LEMMA ThreadsPooledKept ==
  ASSUME TypeInv, ThreadsPooled, [Next]_vars, ~StopEach
  PROVE  ThreadsPooled'
<1>0. /\ connections \in Seq(Conn)
      /\ loop \in [pc : LoopPcs, old : Conn \cup {NoConn}, new : 0 .. MaxConns]
  BY DEF TypeInv, TypeOK, SockTypeOK
<1>1. CASE LoopTop
  BY <1>0, <1>1, ActiveStep DEF LoopTop, LoopGoes, ThreadsPooled, poolVars, Start
<1>2. CASE Accept
  BY <1>0, <1>2, ActiveStep DEF Accept, ThreadsPooled, poolVars, Start
<1>3. CASE EvictBegin
  <2>1. CASE connections = <<>>
    BY <1>0, <1>3, <2>1, ActiveStep DEF EvictBegin, Crash, ThreadsPooled, poolVars, Start
  <2>2. CASE connections # <<>>
    BY <1>0, <1>3, <2>2, ActiveStep DEF EvictBegin, ThreadsPooled, poolVars, Start
  <2> QED
    BY <2>1, <2>2
<1>4. CASE EvictJoin
  <2>1. loop.old \in Conn
    BY <1>4 DEF EvictJoin, TypeInv, LoopHasConns, Evicting
  <2> QED
    BY <1>0, <1>4, <2>1, ActiveStep DEF EvictJoin, LoopGoes, ThreadsPooled, poolVars, Start
<1>5. CASE EvictPop
  <2>1. connections # <<>> /\ loop.old = Head(connections) /\ ~Active(loop.old)
    BY <1>5 DEF EvictPop, ThreadsPooled
  <2>2. connections' = Tail(connections) /\ loop'.pc = "evictDelete" /\ ~Start
    BY <1>0, <1>5, <2>1 DEF EvictPop, LoopGoes, Start
  <2>3. loop.old \in Conn /\ ToSet(connections) = ToSet(connections') \cup {loop.old}
    BY <1>0, <2>1, <2>2, ListStep
  <2> QED
    BY <2>1, <2>2, <2>3, ActiveStep DEF ThreadsPooled
<1>6. CASE EvictDelete
  BY <1>0, <1>6, ActiveStep DEF EvictDelete, LoopGoes, ThreadsPooled, poolVars, Start
<1>7. CASE Push
  <2>1. /\ connections' = Append(connections, loop.new) /\ loop.new \in Conn
        /\ loop'.new = loop.new /\ loop'.pc = "start" /\ ~Start
    BY <1>0, <1>7 DEF Push, LoopGoes, Start, TypeInv, LoopHasConns, Accepted
  <2>2. ToSet(connections') = ToSet(connections) \cup {loop.new}
    BY <1>0, <2>1, ListStep
  <2> QED
    BY <2>1, <2>2, ActiveStep DEF ThreadsPooled
<1>8. CASE Start
  BY <1>0, <1>8, ActiveStep DEF Start, LoopGoes, ThreadsPooled, poolVars
<1>9. CASE Elsewhere
  <2>1. UNCHANGED <<connections, loop>>
    BY <1>9, ElsewhereKeeps
  <2>2. \A c \in Conn : Active(c)' => Active(c) \/ c \in ToSet(connections)
    BY ActiveStep DEF Start, ThreadsPooled
  <2>3. loop.pc = "evictPop" => loop.old \in Conn /\ ~Start
    BY DEF TypeInv, LoopHasConns, Evicting, Start
  <2>4. loop.pc = "evictPop" => ~Active(loop.old)'
    BY <2>1, <2>3, ActiveStep DEF ThreadsPooled
  <2> QED
    BY <2>1, <2>2, <2>4 DEF ThreadsPooled, Active
<1> QED
  BY <1>1, <1>2, <1>3, <1>4, <1>5, <1>6, <1>7, <1>8, <1>9, NextCases

-----------------------------------------------------------------------------
(* The bound on the threads *)

Bounded == TypeInv /\ Caught /\ PoolInv

LEMMA BoundedHolds == Spec => []Bounded
<1>1. Init => Bounded
  <2>1. Init => PoolInv
    BY SockServerAssumption DEF Init, PoolInv, Room, Unstopped, Ordered, ThreadsPooled,
       Active, Accepted, Evicting
  <2> QED
    BY <2>1, InitType DEF Init, Caught, Bounded
<1>2. Bounded /\ [Next]_vars => Bounded'
  <2> SUFFICES ASSUME Bounded, [Next]_vars PROVE Bounded'
    OBVIOUS
  <2>1. TypeInv' /\ Caught' /\ Room'
    BY TypeInvKept, CaughtKept, RoomKept DEF Bounded, PoolInv
  <2>2. Unstopped' /\ (main'.stops = 0 => main.stops = 0 /\ ~StopEach)
    BY UnstoppedKept DEF Bounded, PoolInv
  <2>3. main'.stops = 0 => Ordered' /\ ThreadsPooled'
    BY <2>2, OrderedKept, ThreadsPooledKept DEF Bounded, PoolInv
  <2> QED
    BY <2>1, <2>2, <2>3 DEF Bounded, PoolInv
<1> QED
  BY <1>1, <1>2, PTL DEF Spec

\* _pool_size bounds the connections and, until stop(), the threads that run,
\* whatever clients do and whenever connections arrive.
THEOREM PoolBound == Spec => []LiveThreadsBounded
<1>1. Bounded => LiveThreadsBounded
  <2> SUFFICES ASSUME Bounded PROVE LiveThreadsBounded
    OBVIOUS
  <2> DEFINE RunningThreads == {c \in Conn : Active(c)}
  <2>1. connections \in Seq(Conn) /\ Len(connections) <= PoolSize
    BY DEF Bounded, PoolInv, Room, TypeInv, TypeOK, SockTypeOK
  <2>2. main.stops = 0 => Cardinality(RunningThreads) <= PoolSize
    <3> SUFFICES ASSUME main.stops = 0 PROVE Cardinality(RunningThreads) <= PoolSize
      OBVIOUS
    <3>1. RunningThreads \subseteq ToSet(connections)
      BY DEF Bounded, PoolInv, ThreadsPooled
    <3>2. /\ IsFiniteSet(ToSet(connections))
          /\ Cardinality(ToSet(connections)) <= Len(connections)
      BY <2>1, ListCardinality
    <3>3. /\ IsFiniteSet(RunningThreads)
          /\ Cardinality(RunningThreads) <= Cardinality(ToSet(connections))
      BY <3>1, <3>2, FS_Subset
    <3>4. /\ Cardinality(RunningThreads) \in Nat /\ Cardinality(ToSet(connections)) \in Nat
          /\ Len(connections) \in Nat /\ PoolSize \in Nat
      BY <2>1, <3>2, <3>3, FS_CardinalityType, SockServerAssumption
    <3> QED
      BY <2>1, <3>2, <3>3, <3>4
  <2> QED
    BY <2>1, <2>2 DEF LiveThreadsBounded
<1> QED
  BY <1>1, BoundedHolds, PTL

-----------------------------------------------------------------------------
(* The descriptors *)

\* The steps that open or close a descriptor.
LEMMA FdSteps ==
  ASSUME [Next]_vars
  PROVE  \/ Accept \/ EvictJoin \/ EvictDelete \/ StopJoin \/ AppOpen \/ AppClose
         \/ UNCHANGED <<owner, fdOf, appFd, hup>>
<1>1. CASE LoopTop \/ EvictBegin \/ EvictPop \/ Push \/ Start
  BY <1>1 DEF LoopTop, EvictBegin, EvictPop, Push, Start, Crash, wireVars, fdVars
<1>2. CASE \E c \in Conn : ThreadNext(c)
  BY <1>2 DEF ThreadNext, While, ReadSize, ReadBody, Handle, Respond, After, Catch, Crash,
              wireVars, fdVars
<1>3. CASE StopBegin \/ StopEach \/ SetStop \/ JoinLoop
  BY <1>3 DEF StopBegin, StopEach, SetStop, JoinLoop, Crash, wireVars, fdVars
<1>4. CASE Environment
  BY <1>4 DEF Environment, ClientNext, ClientSend, ClientSendRest, ClientSendFails,
              ClientReads, ClientRecv, ClientRecvTooMuch, ClientRecvFails, ClientClose, fdVars
<1>5. CASE UNCHANGED vars
  BY <1>5 DEF vars, wireVars, fdVars
<1> QED
  BY <1>1, <1>2, <1>3, <1>4, <1>5 DEF Next, LoopServes, MainNext

LEMMA AppNever ==
  ASSUME ~AppOpens, appFd = NoFd, [Next]_vars
  PROVE  appFd' = NoFd /\ ~AppOpen /\ ~AppClose
BY FdSteps DEF Accept, AcceptFd, EvictJoin, EvictDelete, StopJoin, CloseFd, Crash, AppOpen,
               AppClose, wireVars, fdVars

\* The oldest connection is listed once.
LEMMA HeadOnce ==
  ASSUME TypeInv, Ordered, connections # <<>>
  PROVE  /\ Head(connections) \in ToSet(connections)
         /\ Head(connections) \notin ToSet(Tail(connections))
<1>1. /\ connections \in Seq(Conn) /\ DOMAIN connections = 1 .. Len(connections)
      /\ Len(connections) \in Nat \ {0} /\ Head(connections) = connections[1]
      /\ DOMAIN Tail(connections) = 1 .. Len(connections) - 1
      /\ \A i \in DOMAIN Tail(connections) : Tail(connections)[i] = connections[i + 1]
  BY DEF TypeInv, TypeOK, SockTypeOK
<1>2. \A i \in DOMAIN connections : connections[i] \in Nat
  <2>1. \A i \in DOMAIN connections : connections[i] \in Conn
    BY <1>1
  <2> QED
    BY <2>1 DEF Conn
<1>3. \A i \in DOMAIN Tail(connections) : connections[1] < Tail(connections)[i]
  BY <1>1 DEF Ordered
<1>4. \A i \in DOMAIN Tail(connections) : connections[1] # Tail(connections)[i]
  BY <1>1, <1>2, <1>3
<1> QED
  BY <1>1, <1>4 DEF ToSet

LEMMA FdsOpenKept ==
  ASSUME TypeInv, Ordered, ThreadsPooled, FdsOpen, [Next]_vars,
         ~StopEach, ~StopJoin, ~AppOpen, ~AppClose
  PROVE  FdsOpen'
<1>0. /\ loop \in [pc : LoopPcs, old : Conn \cup {NoConn}, new : 0 .. MaxConns]
      /\ owner \in [Fd -> Conn \cup {Free, App}] /\ fdOf \in [Conn -> Fd \cup {NoFd}]
      /\ connections \in Seq(Conn) /\ NoFd \notin Fd /\ Free \notin Conn
      /\ ToSet(connections) \subseteq Conn
  <2>1. connections \in Seq(Conn)
    BY DEF TypeInv, TypeOK, SockTypeOK
  <2>2. ToSet(connections) \subseteq Conn
    BY <2>1 DEF ToSet
  <2>3. NoFd \notin Fd /\ Free \notin Conn
    BY DEF NoFd, Fd, Free, Conn
  <2> QED
    BY <2>1, <2>2, <2>3 DEF TypeInv, TypeOK, SockTypeOK, WireTypeOK
<1>1. loop.pc \in Accepted \ {"start"} =>
        loop.new \in Conn /\ loop.new \notin ToSet(connections)
  BY <1>0 DEF TypeInv, LoopHasConns, Ordered, ToSet, Conn
<1>2. CASE LoopTop \/ EvictBegin \/ Push \/ Start
  <2>1. UNCHANGED <<owner, fdOf>>
    BY <1>2 DEF LoopTop, EvictBegin, Push, Start, Crash, wireVars, fdVars
  <2>2. Pooled' \subseteq Pooled
    <3>1. CASE LoopTop \/ Start
      BY <1>0, <3>1 DEF LoopTop, Start, LoopGoes, Pooled, Accepted, Evicting, poolVars
    <3>2. CASE EvictBegin
      BY <1>0, <3>2 DEF EvictBegin, Crash, Pooled, Accepted, Evicting, poolVars
    <3>3. CASE Push
      <4>1. ToSet(connections') = ToSet(connections) \cup {loop.new}
        BY <1>0, <1>1, <3>3, ListStep DEF Push, Accepted
      <4> QED
        BY <1>0, <3>3, <4>1 DEF Push, LoopGoes, Pooled, Accepted, Evicting
    <3> QED
      BY <1>2, <3>1, <3>2, <3>3
  <2>3. loop'.pc \notin {"evictPop", "evictDelete"}
    BY <1>0, <1>2 DEF LoopTop, EvictBegin, Push, Start, LoopGoes, Crash
  <2> QED
    BY <2>1, <2>2, <2>3 DEF FdsOpen, Holds
<1>3. CASE Accept
  <2> DEFINE c == loop.new + 1
  <2>1. /\ c \in Conn /\ loop'.pc \in {"evict", "push"} /\ loop'.new = c
        /\ connections' = connections /\ loop.pc = "accept"
    BY <1>0, <1>3, WireAssumption DEF Accept, Conn, poolVars
  <2>2. c \notin ToSet(connections) /\ fdOf[c] = NoFd
    <3>1. \A i \in DOMAIN connections : connections[i] \in Conn /\ connections[i] <= loop.new
      BY <1>0 DEF Ordered
    <3>2. loop.new \in Nat /\ c > loop.new
      BY <1>0
    <3>3. c \notin ToSet(connections)
      BY <3>1, <3>2 DEF ToSet, Conn
    <3> QED
      BY <2>1, <3>2, <3>3 DEF TypeInv, NotYet
  <2>3. Pooled' = ToSet(connections) \cup {c} /\ ToSet(connections) = Pooled
    BY <2>1 DEF Pooled, Accepted, Evicting
  <2>4. CASE UNCHANGED wireVars
    BY <2>1, <2>2, <2>3, <2>4 DEF FdsOpen, Holds, wireVars, fdVars
  <2>5. CASE AcceptFd(c)
    <3>1. PICK f \in Fd : /\ owner[f] = Free
                          /\ owner' = [owner EXCEPT ![f] = c]
                          /\ fdOf' = [fdOf EXCEPT ![c] = f]
      BY <2>5 DEF AcceptFd, Lowest, FreeFds
    <3>2. owner'[f] = c /\ fdOf'[c] = f
      BY <1>0, <2>1, <3>1
    <3>3. ASSUME NEW d \in ToSet(connections) PROVE fdOf'[d] = NoFd \/ Holds(d)'
      <4>1. d \in Conn /\ fdOf'[d] = fdOf[d] /\ (fdOf[d] = NoFd \/ Holds(d))
        BY <1>0, <2>2, <2>3, <3>1 DEF FdsOpen
      <4>2. CASE Holds(d)
        BY <1>0, <3>1, <4>1, <4>2 DEF Holds
      <4> QED
        BY <4>1, <4>2
    <3> QED
      BY <1>0, <2>1, <2>3, <3>2, <3>3 DEF FdsOpen, Holds
  <2> QED
    BY <1>3, <2>4, <2>5 DEF Accept
<1>4. CASE EvictJoin
  <2> DEFINE old == loop.old
  <2>1. /\ loop.pc = "evictJoin" /\ loop'.pc = "evictPop" /\ loop'.old = old
        /\ loop'.new = loop.new /\ connections' = connections
        /\ fdOf' = fdOf /\ Close(fdOf[old])
    BY <1>0, <1>4 DEF EvictJoin, LoopGoes, CloseFd, poolVars
  <2>2. old \in Conn /\ old \in ToSet(connections)
    BY <2>1, HeadOnce DEF ThreadsPooled, TypeInv, LoopHasConns, Evicting
  <2>3. Pooled = ToSet(connections) \cup {loop.new} /\ Pooled' \subseteq Pooled \ {old}
    BY <1>1, <2>1, <2>2 DEF Pooled, Accepted, Evicting
  <2>4. fdOf[old] = NoFd \/ Holds(old)
    BY <2>2, <2>3 DEF FdsOpen
  <2>5. \A f \in Fd : owner'[f] = IF f = fdOf[old] THEN Free ELSE owner[f]
    BY <2>1 DEF Close
  <2>6. ASSUME NEW d \in Pooled' PROVE fdOf'[d] = NoFd \/ Holds(d)'
    <3>1. d # old /\ d \in Conn /\ (fdOf[d] = NoFd \/ Holds(d))
      BY <1>0, <1>1, <2>1, <2>3 DEF FdsOpen, Accepted, Evicting
    <3>2. Holds(d) => fdOf[d] # fdOf[old]
      BY <2>4, <3>1 DEF Holds
    <3> QED
      BY <1>0, <2>1, <2>5, <3>1, <3>2 DEF Holds
  <2>7. fdOf[old] = NoFd \/ owner'[fdOf[old]] = Free
    BY <1>0, <2>2, <2>5
  <2> QED
    BY <2>1, <2>6, <2>7 DEF FdsOpen
<1>5. CASE EvictPop
  <2>1. connections # <<>> /\ loop.old = Head(connections) /\ loop.pc = "evictPop"
    BY <1>5 DEF EvictPop, ThreadsPooled
  <2>2. /\ connections' = Tail(connections) /\ loop'.pc = "evictDelete"
        /\ loop'.new = loop.new /\ loop'.old = loop.old /\ UNCHANGED <<owner, fdOf>>
    BY <1>0, <1>5, <2>1 DEF EvictPop, LoopGoes, wireVars, fdVars
  <2>3. ToSet(connections') \subseteq ToSet(connections) \ {loop.old}
    <3>1. ToSet(connections) = ToSet(Tail(connections)) \cup {Head(connections)}
      BY <1>0, <2>1, ListStep DEF TypeInv, LoopHasConns, Evicting
    <3> QED
      BY <2>1, <2>2, <3>1, HeadOnce
  <2>4. Pooled' \subseteq Pooled
    BY <2>1, <2>2, <2>3 DEF Pooled, Accepted, Evicting
  <2> QED
    BY <2>1, <2>2, <2>4 DEF FdsOpen, Holds
<1>6. CASE EvictDelete
  <2>1. /\ loop.pc = "evictDelete" /\ loop'.pc = "push" /\ loop'.new = loop.new
        /\ connections' = connections /\ fdOf' = fdOf /\ Close(fdOf[loop.old])
    BY <1>0, <1>6 DEF EvictDelete, LoopGoes, CloseFd, poolVars
  <2>2. owner' = owner
    BY <1>0, <2>1 DEF Close, FdsOpen
  <2>3. Pooled' = Pooled
    BY <2>1 DEF Pooled, Accepted, Evicting
  <2> QED
    BY <2>1, <2>2, <2>3 DEF FdsOpen, Holds
<1>7. CASE Elsewhere
  <2>1. UNCHANGED <<connections, loop>>
    BY <1>7, ElsewhereKeeps
  <2>2. UNCHANGED <<owner, fdOf>>
    <3>1. ~Accept /\ ~EvictJoin /\ ~EvictDelete
      BY <1>0, <2>1 DEF Accept, EvictJoin, EvictDelete, LoopGoes
    <3> QED
      BY <3>1, FdSteps
  <2> QED
    BY <2>1, <2>2 DEF FdsOpen, Pooled, Holds
<1> QED
  BY <1>2, <1>3, <1>4, <1>5, <1>6, <1>7, NextCases

\* Until stop(), and in a process that opens no descriptors besides, no thread
\* serves a connection whose descriptor is closed or has become another's:
\* for any pool, any number of clients and any way they leave.
THEOREM SocketOwned ==
  ASSUME ~AppOpens
  PROVE  Spec => []ThreadOwnsSocket
<1>1. Init => FdInv
  BY DEF Init, WireInit, FdInv, FdsOpen, Pooled, ToSet, Accepted, Evicting
<1>2. Bounded /\ FdInv /\ [Next]_vars => FdInv'
  <2> SUFFICES ASSUME Bounded, FdInv, [Next]_vars PROVE FdInv'
    OBVIOUS
  <2>1. appFd' = NoFd /\ ~AppOpen /\ ~AppClose
    BY AppNever DEF FdInv
  <2>2. ASSUME main'.stops = 0 PROVE FdsOpen'
    <3>1. main.stops = 0 /\ ~StopEach /\ Unstopped
      BY <2>2, UnstoppedKept DEF Bounded, PoolInv
    <3>2. ~StopJoin
      BY <3>1 DEF Unstopped, StopJoin
    <3> QED
      BY <2>1, <3>1, <3>2, FdsOpenKept DEF Bounded, PoolInv, FdInv
  <2> QED
    BY <2>1, <2>2 DEF FdInv
<1>3. Bounded /\ FdInv => ThreadOwnsSocket
  <2> SUFFICES ASSUME Bounded, FdInv, main.stops = 0,
                      NEW c \in Conn, Active(c), fdOf[c] # NoFd
               PROVE  Holds(c)
    BY DEF ThreadOwnsSocket
  <2>1. c \in Pooled
    BY DEF Bounded, PoolInv, ThreadsPooled, Pooled
  <2> QED
    BY <2>1 DEF FdInv, FdsOpen
<1> QED
  BY <1>1, <1>2, <1>3, BoundedHolds, PTL DEF Spec

-----------------------------------------------------------------------------
(* stop() and ~SockServer.  No step revives a connection that has been shut *)
(* down, so that it is enough to follow where connections are shut down:    *)
(* those that left the list were, those the owner's walk has passed were,   *)
(* and once the loop thread has ended none joins the list again.            *)

\* Shut down, closed, and its thread has left or will do nothing but leave.
Quieted(c) == ~Holds(c) /\ ~connected[c] /\ thr[c] \in {"new", "check", "done"}

LeftQuiet ==
  \A c \in Conn :
    /\ c <= loop.new /\ c \notin ToSet(connections)
    /\ ~(c = loop.new /\ loop.pc \in Accepted \ {"start"})
    => Quieted(c)

\* The connection being evicted is the first of the list, unless stop() has
\* emptied the list meanwhile.
OldShut ==
  /\ loop.pc \in {"evictJoin", "evictPop"} =>
       /\ loop.old <= loop.new /\ ~connected[loop.old]
       /\ connections # <<>> => Head(connections) = loop.old
  /\ loop.pc = "evictPop" => Quieted(loop.old)

\* The owner walks the list under _mutex, which Push waits for.
Passed(c) ==
  \E i, j \in DOMAIN connections :
    /\ connections[i] = c /\ connections[j] = main.conn
    /\ i <= j /\ (i = j => main.pc = "each")

WalkQuiet ==
  /\ main.pc \in {"each", "join"} => mutex = "main"
  /\ main.pc = "join" => main.conn \in Conn /\ ~connected[main.conn]
  /\ main.pc \in {"each", "join"} => \A c \in Conn : Passed(c) => Quieted(c)

\* The second stop() begins after the first has joined the loop thread.
StopsOnce ==
  /\ main.pc = "running" => main.stops = 0
  /\ main.pc = "stopped" \/ main.stops > 1 => loop.pc = "done"
  /\ main.stops > 1 /\ main.pc \notin {"each", "join"} => connections = <<>>

StopInv == Ordered /\ LeftQuiet /\ OldShut /\ WalkQuiet /\ StopsOnce

LEMMA ShutStays ==
  ASSUME TypeInv, [Next]_vars, NEW c \in Conn, ~connected[c]
  PROVE  ~connected'[c]
<1>0. connected \in [Conn -> BOOLEAN]
  BY DEF TypeInv, TypeOK, SockTypeOK
<1>1. CASE LoopTop \/ Accept \/ EvictBegin \/ EvictJoin \/ EvictPop \/ EvictDelete \/ Push
           \/ Start
  BY <1>0, <1>1 DEF LoopTop, Accept, EvictBegin, EvictJoin, EvictPop, EvictDelete, Push,
                    Start, Crash, ShutdownRead, connVars
<1>2. CASE \E d \in Conn : ThreadNext(d)
  BY <1>0, <1>2 DEF ThreadNext, While, ReadSize, ReadBody, Handle, Respond, After, Catch,
                    Crash, connVars
<1>3. CASE MainNext \/ Environment \/ UNCHANGED vars
  BY <1>0, <1>3 DEF MainNext, StopBegin, StopEach, StopJoin, SetStop, JoinLoop, Crash,
                    ShutdownRead, Environment, vars, connVars
<1> QED
  BY <1>1, <1>2, <1>3 DEF Next, LoopServes

\* close() takes a number from whoever has it open.
LEMMA CloseTakes ==
  ASSUME TypeInv, NEW n, Close(n), UNCHANGED fdOf, NEW c \in Conn
  PROVE  /\ ~Holds(c) => ~Holds(c)'
         /\ fdOf[c] = n => ~Holds(c)'
<1>1. /\ fdOf[c] = NoFd \/ fdOf[c] \in Fd
      /\ \A f \in Fd : owner'[f] = IF f = n THEN Free ELSE owner[f]
      /\ Free \notin Conn
  BY DEF Close, TypeInv, TypeOK, WireTypeOK, Free, Conn
<1>2. PICK f : f = fdOf[c] /\ f = fdOf'[c]
  OBVIOUS
<1>3. CASE f = NoFd
  BY <1>2, <1>3 DEF Holds
<1>4. CASE f \in Fd
  <2>1. owner'[f] = c => owner[f] = c /\ f # n
    BY <1>1, <1>4
  <2> QED
    BY <1>2, <2>1 DEF Holds
<1> QED
  BY <1>1, <1>2, <1>3, <1>4

LEMMA ClosedStays ==
  ASSUME TypeInv, [Next]_vars, NEW c \in Conn, c <= loop.new, ~Holds(c)
  PROVE  ~Holds(c)'
<1>0. /\ owner \in [Fd -> Conn \cup {Free, App}] /\ fdOf \in [Conn -> Fd \cup {NoFd}]
      /\ App \notin Conn
  <2>1. WireTypeOK
    BY DEF TypeInv, TypeOK
  <2>2. App \notin Conn
    BY WireAssumption DEF App, Conn
  <2> QED
    BY <2>1, <2>2 DEF WireTypeOK
<1>1. CASE Accept
  <2>1. c # loop.new + 1
    BY DEF TypeInv, TypeOK, SockTypeOK, Conn
  <2>2. CASE UNCHANGED wireVars
    BY <2>2 DEF Holds, wireVars, fdVars
  <2>3. CASE AcceptFd(loop.new + 1)
    <3>1. PICK f \in Fd : /\ owner' = [owner EXCEPT ![f] = loop.new + 1]
                          /\ fdOf' = [fdOf EXCEPT ![loop.new + 1] = f]
      BY <2>3 DEF AcceptFd
    <3>2. fdOf'[c] = fdOf[c]
      BY <1>0, <2>1, <3>1
    <3> QED
      BY <1>0, <2>1, <3>1, <3>2 DEF Holds
  <2> QED
    BY <1>1, <2>2, <2>3 DEF Accept
<1>2. CASE EvictJoin \/ EvictDelete
  BY <1>2, CloseTakes DEF EvictJoin, EvictDelete, CloseFd
<1>3. CASE StopJoin
  BY <1>3, CloseTakes DEF StopJoin, CloseFd, Crash, Holds, wireVars, fdVars
<1>4. CASE AppClose
  BY <1>4, CloseTakes DEF AppClose
<1>5. CASE AppOpen
  <2>1. PICK f \in Fd : owner' = [owner EXCEPT ![f] = App] /\ fdOf' = fdOf
    BY <1>5 DEF AppOpen
  <2> QED
    BY <1>0, <2>1 DEF Holds
<1>6. CASE UNCHANGED <<owner, fdOf, appFd, hup>>
  BY <1>6 DEF Holds
<1> QED
  BY <1>1, <1>2, <1>3, <1>4, <1>5, <1>6, FdSteps

LEMMA QuietedStays ==
  ASSUME TypeInv, [Next]_vars, NEW c \in Conn, c <= loop.new, Quieted(c)
  PROVE  Quieted(c)'
<1>0. thr \in [Conn -> ThreadPcs]
  BY DEF TypeInv, TypeOK, SockTypeOK
<1>1. ~Holds(c)' /\ ~connected'[c]
  BY ClosedStays, ShutStays DEF Quieted
<1>2. thr'[c] \in {"new", "check", "done"}
  <2>1. CASE UNCHANGED thr
    BY <2>1 DEF Quieted
  <2>2. CASE Start
    BY <1>0, <2>2 DEF Start, Quieted
  <2>3. ASSUME NEW d \in Conn, ThreadNext(d) PROVE thr'[c] \in {"new", "check", "done"}
    <3>1. CASE d = c
      BY <1>0, <2>3, <3>1 DEF Quieted, ThreadNext, While, ReadSize, ReadBody, Handle,
                              Respond, After, Catch, ThreadGoes
    <3>2. CASE d # c
      BY <1>0, <2>1, <2>3, <3>2 DEF Quieted, ThreadNext, While, ReadSize, ReadBody, Handle,
                                    Respond, After, Catch, ThreadGoes, Crash, thrVars
    <3> QED
      BY <3>1, <3>2
  <2>4. CASE LoopTop \/ Accept \/ EvictBegin \/ EvictJoin \/ EvictPop \/ EvictDelete \/ Push
    BY <2>1, <2>4 DEF LoopTop, Accept, EvictBegin, EvictJoin, EvictPop, EvictDelete, Push,
                      Crash, thrVars
  <2>5. CASE MainNext \/ Environment \/ UNCHANGED vars
    BY <2>1, <2>5 DEF MainNext, StopBegin, StopEach, StopJoin, SetStop, JoinLoop, MainFrame,
                      Crash, Environment, vars, thrVars
  <2> QED
    BY <2>2, <2>3, <2>4, <2>5 DEF Next, LoopServes
<1> QED
  BY <1>1, <1>2 DEF Quieted

LEMMA OrderedAlways ==
  ASSUME TypeInv, Ordered, [Next]_vars
  PROVE  Ordered'
<1>1. CASE StopEach
  <2>1. loop' = loop /\ (connections' = connections \/ connections' = <<>>)
    BY <1>1 DEF StopEach, Crash, poolVars
  <2>2. DOMAIN <<>> = {}
    OBVIOUS
  <2> QED
    BY <2>1, <2>2 DEF Ordered
<1> QED
  BY <1>1, OrderedKept

\* Who leaves the list has been shut down: the loop thread pops what it has
\* joined, and stop() clears the list behind its walk.
LEMMA LeftKept ==
  ASSUME TypeInv, StopInv, [Next]_vars
  PROVE  LeftQuiet'
<1>0. /\ connections \in Seq(Conn) /\ DOMAIN connections = 1 .. Len(connections)
      /\ loop \in [pc : LoopPcs, old : Conn \cup {NoConn}, new : 0 .. MaxConns]
      /\ loop.new \in Nat /\ \A i \in DOMAIN connections : connections[i] \in Conn
  BY DEF TypeInv, TypeOK, SockTypeOK
<1> SUFFICES ASSUME NEW c \in Conn, c <= loop'.new, c \notin ToSet(connections'),
                    ~(c = loop'.new /\ loop'.pc \in Accepted \ {"start"})
             PROVE  c <= loop.new /\ Quieted(c)
  BY QuietedStays DEF LeftQuiet
<1>1. c \in Nat
  BY DEF Conn
<1>2. c <= loop.new /\ c \notin ToSet(connections)
        /\ ~(c = loop.new /\ loop.pc \in Accepted \ {"start"}) => Quieted(c)
  BY DEF StopInv, LeftQuiet
<1>3. CASE LoopTop
  BY <1>0, <1>2, <1>3 DEF LoopTop, LoopGoes, Accepted, Evicting, poolVars
<1>4. CASE Accept
  <2>1. /\ connections' = connections /\ loop'.new = loop.new + 1 /\ loop.pc = "accept"
        /\ loop'.pc \in Accepted \ {"start"}
    BY <1>0, <1>4 DEF Accept, Accepted, poolVars
  <2> QED
    BY <1>0, <1>1, <1>2, <2>1 DEF Accepted, Evicting
<1>5. CASE EvictBegin \/ EvictJoin \/ EvictDelete
  <2>1. /\ connections' = connections /\ loop'.new = loop.new
        /\ loop'.pc \in Accepted \ {"start"}
    BY <1>0, <1>5 DEF EvictBegin, EvictJoin, EvictDelete, Crash, LoopGoes, Accepted, Evicting,
                      poolVars
  <2> QED
    BY <1>2, <2>1
<1>6. CASE EvictPop
  <2>1. loop'.new = loop.new /\ loop'.pc \in Accepted \ {"start"} /\ loop.pc = "evictPop"
    BY <1>0, <1>6 DEF EvictPop, Crash, LoopGoes, Accepted, Evicting
  <2>2. CASE connections = <<>>
    BY <1>2, <1>6, <2>1, <2>2 DEF EvictPop, Crash, poolVars
  <2>3. CASE connections # <<>>
    <3>1. /\ connections' = Tail(connections) /\ Head(connections) = loop.old
          /\ Quieted(loop.old)
      BY <1>6, <2>1, <2>3 DEF EvictPop, StopInv, OldShut
    <3>2. ToSet(connections) = ToSet(connections') \cup {loop.old}
      <4>1. loop.old \in Conn
        BY <2>1 DEF TypeInv, LoopHasConns, Evicting
      <4> QED
        BY <1>0, <2>3, <3>1, <4>1, ListStep
    <3> QED
      BY <1>2, <2>1, <3>1, <3>2
  <2> QED
    BY <2>2, <2>3
<1>7. CASE Push
  <2>1. /\ connections' = Append(connections, loop.new) /\ loop.new \in Conn
        /\ loop'.new = loop.new
    BY <1>0, <1>7 DEF Push, LoopGoes, TypeInv, LoopHasConns, Accepted
  <2>2. ToSet(connections') = ToSet(connections) \cup {loop.new}
    BY <1>0, <2>1, ListStep
  <2> QED
    BY <1>2, <2>1, <2>2
<1>8. CASE Start
  BY <1>0, <1>2, <1>8 DEF Start, LoopGoes, Accepted, Evicting, poolVars
<1>9. CASE StopEach
  <2>1. loop' = loop
    BY <1>9 DEF StopEach, Crash
  <2>2. CASE connections' = connections
    BY <1>2, <2>1, <2>2
  <2>3. CASE connections' # connections /\ c \notin ToSet(connections)
    BY <1>2, <2>1, <2>3
  <2>4. CASE connections' # connections /\ c \in ToSet(connections)
    <3>1. /\ main.pc = "each" /\ NextAfter(main.conn) = NoConn
          /\ main.conn = NoConn \/ main.conn \in ToSet(connections)
      BY <1>9, <2>4 DEF StopEach, Crash, poolVars
    <3>2. PICK i \in DOMAIN connections : connections[i] = c
      BY <2>4 DEF ToSet
    <3>3. \A i0 \in DOMAIN connections : connections[i0] # NoConn
      BY <1>0 DEF Conn, NoConn
    <3>4. PICK k : k = CHOOSE j \in DOMAIN connections : connections[j] = main.conn
      OBVIOUS
    <3>5. (IF main.conn = NoConn THEN 1 ELSE 1 + k) > Len(connections)
      <4>1. main.conn # NoConn => k \in DOMAIN connections
        BY <3>1, <3>4 DEF ToSet
      <4> QED
        BY <1>0, <3>1, <3>3, <3>4, <4>1 DEF NextAfter
    <3>6. main.conn # NoConn
      BY <1>0, <3>2, <3>5
    <3>7. k \in DOMAIN connections /\ connections[k] = main.conn
      BY <3>1, <3>4, <3>6 DEF ToSet
    <3>8. i <= k
      BY <1>0, <3>2, <3>5, <3>6, <3>7
    <3>9. Quieted(c)
      BY <3>1, <3>2, <3>7, <3>8 DEF StopInv, WalkQuiet, Passed
    <3> QED
      BY <2>1, <3>2, <3>9
  <2> QED
    BY <2>2, <2>3, <2>4
<1>10. CASE Elsewhere
  BY <1>2, <1>10, ElsewhereKeeps
<1> QED
  BY <1>3, <1>4, <1>5, <1>6, <1>7, <1>8, <1>9, <1>10, NextCases

LEMMA OldKept ==
  ASSUME TypeInv, StopInv, [Next]_vars
  PROVE  OldShut'
<1>0. /\ connections \in Seq(Conn)
      /\ loop \in [pc : LoopPcs, old : Conn \cup {NoConn}, new : 0 .. MaxConns]
      /\ connected \in [Conn -> BOOLEAN] /\ thr \in [Conn -> ThreadPcs]
      /\ DOMAIN connections = 1 .. Len(connections) /\ loop.new \in Nat
  BY DEF TypeInv, TypeOK, SockTypeOK
\* The loop thread rests.
<1>1. CASE loop' = loop /\ (connections' = connections \/ connections' = <<>>)
  <2> SUFFICES ASSUME loop.pc \in {"evictJoin", "evictPop"}
               PROVE  /\ loop.old <= loop.new /\ ~connected'[loop.old]
                      /\ connections' # <<>> => Head(connections') = loop.old
                      /\ loop.pc = "evictPop" => Quieted(loop.old)'
    <3>1. PICK c : c = loop.old
      OBVIOUS
    <3> QED
      BY <1>1, <3>1 DEF OldShut
  <2>1. loop.old \in Conn /\ loop.old <= loop.new /\ ~connected[loop.old]
    BY DEF StopInv, OldShut, TypeInv, LoopHasConns, Evicting
  <2>2. ~connected'[loop.old]
    BY <2>1, ShutStays
  <2>3. connections' # <<>> => Head(connections') = loop.old
    BY <1>1 DEF StopInv, OldShut
  <2>4. loop.pc = "evictPop" => Quieted(loop.old)'
    <3>1. PICK c \in Conn : c = loop.old
      BY <2>1
    <3>2. loop'.old = loop.old
      BY <1>1
    <3> QED
      BY <2>1, <3>1, <3>2, QuietedStays DEF StopInv, OldShut
  <2> QED
    BY <2>1, <2>2, <2>3, <2>4
<1>2. CASE EvictBegin /\ connections # <<>>
  <2>1. /\ loop'.pc = "evictJoin" /\ loop'.old = Head(connections) /\ loop'.new = loop.new
        /\ connections' = connections
        /\ connected' = [connected EXCEPT ![Head(connections)] = FALSE]
    BY <1>0, <1>2 DEF EvictBegin, ShutdownRead, poolVars
  <2>2. Head(connections) = connections[1] /\ 1 \in DOMAIN connections
    BY <1>0, <1>2
  <2>3. Head(connections) \in Conn /\ Head(connections) <= loop.new
    BY <1>0, <2>2 DEF StopInv, Ordered
  <2> QED
    BY <1>0, <2>1, <2>3 DEF OldShut
<1>3. CASE EvictJoin
  <2>1. /\ loop.pc = "evictJoin" /\ loop'.pc = "evictPop" /\ loop'.old = loop.old
        /\ loop'.new = loop.new
        /\ UNCHANGED <<connections, connected, thr, fdOf>> /\ Close(fdOf[loop.old])
        /\ ~Active(loop.old)
    BY <1>0, <1>3 DEF EvictJoin, LoopGoes, CloseFd, poolVars, connVars, thrVars
  <2>2. PICK c \in Conn : c = loop.old
    BY <2>1 DEF TypeInv, LoopHasConns, Evicting
  <2>3. ~Holds(c)'
    BY <2>1, <2>2, CloseTakes
  <2>4. /\ c <= loop.new /\ ~connected[c]
        /\ connections # <<>> => Head(connections) = c
    BY <2>1, <2>2 DEF StopInv, OldShut
  <2>5. thr[c] \in {"new", "done"}
    BY <2>1, <2>2 DEF Active
  <2>6. Quieted(c)'
    BY <2>1, <2>3, <2>4, <2>5 DEF Quieted
  <2>7. loop'.old = c
    BY <2>1, <2>2
  <2> QED
    BY <2>1, <2>4, <2>6, <2>7 DEF OldShut
<1>4. CASE loop'.pc \notin {"evictJoin", "evictPop"}
  BY <1>4 DEF OldShut
<1>5. CASE LoopTop \/ Accept \/ EvictDelete \/ Push \/ Start
  BY <1>0, <1>4, <1>5 DEF LoopTop, Accept, EvictDelete, Push, Start, LoopGoes
<1>6. CASE (EvictBegin \/ EvictPop) /\ connections = <<>>
  BY <1>1, <1>6 DEF EvictBegin, EvictPop, Crash, poolVars
<1>7. CASE EvictPop /\ connections # <<>>
  BY <1>0, <1>4, <1>7 DEF EvictPop, LoopGoes
<1>8. CASE StopEach
  BY <1>1, <1>8 DEF StopEach, Crash, poolVars
<1>9. CASE Elsewhere
  BY <1>1, <1>9, ElsewhereKeeps
<1> QED
  BY <1>2, <1>3, <1>5, <1>6, <1>7, <1>8, <1>9, NextCases

LEMMA WalkKept ==
  ASSUME TypeInv, StopInv, [Next]_vars
  PROVE  WalkQuiet'
<1>0. /\ connections \in Seq(Conn) /\ Len(connections) \in Nat
      /\ DOMAIN connections = 1 .. Len(connections)
      /\ \A i \in DOMAIN connections : connections[i] \in Conn
      /\ main \in [pc : MainPcs, conn : Conn \cup {NoConn}, stops : Nat]
      /\ connected \in [Conn -> BOOLEAN] /\ thr \in [Conn -> ThreadPcs]
      /\ NoConn \notin Conn
  <2>1. NoConn \notin Conn
    BY DEF Conn, NoConn
  <2> QED
    BY <2>1 DEF TypeInv, TypeOK, SockTypeOK
<1>1. ASSUME NEW c \in Conn, main.pc \in {"each", "join"}, Passed(c)
      PROVE  Quieted(c)'
  <2>1. c <= loop.new /\ Quieted(c)
    BY <1>1 DEF StopInv, WalkQuiet, Ordered, Passed
  <2> QED
    BY <2>1, QuietedStays
\* The owner rests, and the list at most shrinks while it walks.
<1>2. CASE /\ main' = main
           /\ main.pc \in {"each", "join"} =>
                /\ mutex' = mutex
                /\ connections' = connections
                   \/ (connections # <<>> /\ connections' = Tail(connections))
  <2>1. CASE main.pc \notin {"each", "join"}
    BY <1>2, <2>1 DEF WalkQuiet
  <2>2. CASE main.pc \in {"each", "join"}
    <3>1. mutex' = "main"
      BY <1>2, <2>2 DEF StopInv, WalkQuiet
    <3>2. main.pc = "join" => main.conn \in Conn /\ ~connected'[main.conn]
      BY ShutStays DEF StopInv, WalkQuiet
    <3>3. ASSUME NEW c \in Conn, Passed(c)' PROVE Passed(c)
      <4>1. CASE connections' = connections
        BY <1>2, <3>3, <4>1 DEF Passed
      <4>2. CASE connections # <<>> /\ connections' = Tail(connections)
        <5>1. /\ DOMAIN connections' = 1 .. Len(connections) - 1
              /\ \A i \in DOMAIN connections' : /\ i + 1 \in DOMAIN connections
                                                /\ connections'[i] = connections[i + 1]
          BY <1>0, <4>2
        <5>2. PICK i \in DOMAIN connections', j \in DOMAIN connections' :
                /\ connections'[i] = c /\ connections'[j] = main.conn
                /\ i <= j /\ (i = j => main.pc = "each")
          BY <1>2, <3>3 DEF Passed
        <5>3. i + 1 <= j + 1 /\ (i + 1 = j + 1 => main.pc = "each")
          BY <1>0, <5>1, <5>2
        <5> QED
          BY <5>1, <5>2, <5>3 DEF Passed
      <4> QED
        BY <1>2, <2>2, <4>1, <4>2
    <3> QED
      BY <1>1, <1>2, <2>2, <3>1, <3>2, <3>3 DEF WalkQuiet
  <2> QED
    BY <2>1, <2>2
<1>3. CASE StopBegin
  <2>1. /\ main'.pc = "each" /\ main'.conn = NoConn /\ mutex' = "main"
        /\ connections' = connections
    BY <1>3 DEF StopBegin
  <2> QED
    BY <1>0, <2>1 DEF WalkQuiet, Passed
<1>4. CASE StopJoin
  <2>1. CASE main.conn \in deleted
    BY <1>2, <1>4, <2>1 DEF StopJoin, Crash, poolVars
  <2>2. CASE main.conn \notin deleted
    <3>1. /\ main.pc = "join" /\ main'.pc = "each" /\ main'.conn = main.conn
          /\ UNCHANGED <<connections, mutex, connected, thr, fdOf>>
          /\ Close(fdOf[main.conn]) /\ ~Active(main.conn)
      BY <1>0, <1>4, <2>2 DEF StopJoin, CloseFd, MainGoes, MainFrame, poolVars, connVars,
                              thrVars
    <3>2. PICK c \in Conn : c = main.conn
      BY <3>1 DEF StopInv, WalkQuiet
    <3>3. ~Holds(c)' /\ ~connected[c] /\ thr[c] \in {"new", "done"}
      BY <1>0, <3>1, <3>2, CloseTakes DEF StopInv, WalkQuiet, Active
    <3>4. Quieted(c)'
      BY <3>1, <3>3 DEF Quieted
    <3>5. ASSUME NEW d \in Conn, Passed(d)', d # c PROVE Passed(d)
      <4>1. PICK i \in DOMAIN connections, j \in DOMAIN connections :
              connections[i] = d /\ connections[j] = c /\ i <= j
        BY <3>1, <3>2, <3>5 DEF Passed
      <4>2. i # j
        BY <3>5, <4>1
      <4> QED
        BY <3>2, <4>1, <4>2 DEF Passed
    <3>6. mutex' = "main"
      BY <3>1 DEF StopInv, WalkQuiet
    <3> QED
      BY <1>1, <3>1, <3>4, <3>5, <3>6 DEF WalkQuiet
  <2> QED
    BY <2>1, <2>2
<1>5. CASE StopEach
  <2>1. CASE main.conn # NoConn /\ main.conn \notin ToSet(connections)
    BY <1>2, <1>5, <2>1 DEF StopEach, Crash, poolVars
  <2>2. CASE main.conn = NoConn \/ main.conn \in ToSet(connections)
    <3>1. PICK c : c = NextAfter(main.conn)
      OBVIOUS
    <3>2. CASE c = NoConn
      <4>1. main' = [main EXCEPT !.pc = "setStop", !.conn = NoConn]
        BY <1>5, <2>2, <3>1, <3>2 DEF StopEach, MainGoes
      <4> QED
        BY <1>0, <4>1 DEF WalkQuiet
    <3>3. CASE c # NoConn
      <4>1. /\ main.pc = "each" /\ main'.pc = "join" /\ main'.conn = c
            /\ connections' = connections /\ mutex' = mutex
            /\ connected' = [connected EXCEPT ![c] = FALSE]
        <5>1. /\ main.pc = "each" /\ main' = [main EXCEPT !.pc = "join", !.conn = c]
              /\ UNCHANGED poolVars
          BY <1>5, <2>2, <3>1, <3>3 DEF StopEach, MainGoes
        <5>2. connected' = [connected EXCEPT ![c] = FALSE]
          BY <1>5, <2>2, <3>1, <3>3 DEF StopEach, ShutdownRead
        <5> QED
          BY <1>0, <5>1, <5>2 DEF poolVars
      <4>2. c \in Conn
        BY <1>0, <2>2, <3>1, <3>3, NextAfterType
      <4>3. ASSUME NEW d \in Conn, Passed(d)' PROVE Passed(d)
        <5>0. PICK i \in DOMAIN connections, j \in DOMAIN connections :
                connections[i] = d /\ connections[j] = c /\ i < j
          BY <1>0, <4>1, <4>3 DEF Passed
        <5>1. PICK k : k = CHOOSE n \in DOMAIN connections : connections[n] = main.conn
          OBVIOUS
        <5>2. main.conn # NoConn => k \in DOMAIN connections /\ connections[k] = main.conn
          BY <2>2, <5>1 DEF ToSet
        <5>3. PICK n : n = IF main.conn = NoConn THEN 1 ELSE 1 + k
          OBVIOUS
        <5>4. c = IF n > Len(connections) THEN NoConn ELSE connections[n]
          BY <3>1, <5>1, <5>3 DEF NextAfter
        <5>5. n \in DOMAIN connections /\ connections[n] = c
          BY <1>0, <3>3, <5>2, <5>3, <5>4
        <5>6. j = n
          BY <1>0, <5>0, <5>5 DEF StopInv, Ordered, Conn
        <5>7. main.conn # NoConn /\ i <= k
          BY <1>0, <5>0, <5>2, <5>3, <5>6
        <5> QED
          BY <4>1, <5>0, <5>2, <5>7 DEF Passed
      <4>4. mutex = "main" /\ ~connected'[c]
        BY <1>0, <4>1, <4>2 DEF StopInv, WalkQuiet
      <4> QED
        BY <1>1, <4>1, <4>2, <4>3, <4>4 DEF WalkQuiet
    <3> QED
      BY <3>2, <3>3
  <2> QED
    BY <2>1, <2>2
<1>6. CASE SetStop \/ JoinLoop
  <2>1. main'.pc \notin {"each", "join"}
    BY <1>0, <1>6 DEF SetStop, JoinLoop, MainGoes
  <2> QED
    BY <2>1 DEF WalkQuiet
<1>7. CASE LoopTop \/ Accept \/ EvictBegin \/ EvictJoin \/ EvictDelete \/ Start
  BY <1>2, <1>7 DEF LoopTop, Accept, EvictBegin, EvictJoin, EvictDelete, Start, Crash,
                    poolVars
<1>8. CASE EvictPop
  BY <1>2, <1>8 DEF EvictPop, Crash, poolVars
<1>9. CASE Push
  BY <1>2, <1>9 DEF Push, StopInv, WalkQuiet
<1>10. CASE (\E c \in Conn : ThreadNext(c)) \/ Environment \/ UNCHANGED vars
  BY <1>2, <1>10 DEF ThreadNext, While, ReadSize, ReadBody, Handle, Respond, After, Catch,
                     ThreadFrame, Crash, Environment, vars, poolVars
<1> QED
  BY <1>3, <1>4, <1>5, <1>6, <1>7, <1>8, <1>9, <1>10 DEF Next, LoopServes, MainNext

LEMMA OnceKept ==
  ASSUME TypeInv, StopInv, [Next]_vars
  PROVE  StopsOnce'
<1>0. /\ loop \in [pc : LoopPcs, old : Conn \cup {NoConn}, new : 0 .. MaxConns]
      /\ main \in [pc : MainPcs, conn : Conn \cup {NoConn}, stops : Nat]
  BY DEF TypeInv, TypeOK, SockTypeOK
<1>1. /\ main.pc = "running" => main.stops = 0
      /\ main.pc = "stopped" \/ main.stops > 1 => loop.pc = "done"
      /\ main.stops > 1 /\ main.pc \notin {"each", "join"} => connections = <<>>
  BY DEF StopInv, StopsOnce
<1>2. loop.pc = "done" => /\ loop' = loop
                          /\ connections' = connections \/ connections' = <<>>
  <2>1. CASE LoopTop \/ Accept \/ EvictBegin \/ EvictJoin \/ EvictPop \/ EvictDelete \/ Push
             \/ Start
    BY <2>1 DEF LoopTop, Accept, EvictBegin, EvictJoin, EvictPop, EvictDelete, Push, Start
  <2>2. CASE StopEach
    BY <2>2 DEF StopEach, Crash, poolVars
  <2>3. CASE Elsewhere
    BY <2>3, ElsewhereKeeps
  <2> QED
    BY <2>1, <2>2, <2>3, NextCases
<1>3. CASE main' = main
  BY <1>1, <1>2, <1>3 DEF StopsOnce
<1>4. CASE StopBegin
  <2>1. /\ main'.pc = "each" /\ main'.stops = main.stops + 1
        /\ main.pc \in {"running", "stopped"}
    BY <1>4 DEF StopBegin
  <2> QED
    BY <1>0, <1>1, <1>2, <2>1 DEF StopsOnce
<1>5. CASE StopEach
  <2>1. CASE main.conn # NoConn /\ main.conn \notin ToSet(connections)
    BY <1>3, <1>5, <2>1 DEF StopEach, Crash
  <2>2. CASE main.conn = NoConn \/ main.conn \in ToSet(connections)
    <3>1. PICK c : c = NextAfter(main.conn)
      OBVIOUS
    <3>2. \/ main' = [main EXCEPT !.pc = "join", !.conn = c]
          \/ main' = [main EXCEPT !.pc = "setStop", !.conn = NoConn] /\ connections' = <<>>
      BY <1>5, <2>2, <3>1 DEF StopEach, MainGoes
    <3> QED
      BY <1>0, <1>1, <1>2, <3>2 DEF StopsOnce
  <2> QED
    BY <2>1, <2>2
<1>6. CASE StopJoin
  <2>1. main' = main \/ (main'.pc = "each" /\ main'.stops = main.stops)
    BY <1>0, <1>6 DEF StopJoin, Crash, MainGoes
  <2> QED
    BY <1>1, <1>2, <1>3, <2>1 DEF StopsOnce
<1>7. CASE SetStop
  <2>1. /\ main'.pc = "joinLoop" /\ main'.stops = main.stops /\ main.pc = "setStop"
        /\ connections' = connections /\ loop' = loop
    BY <1>0, <1>7 DEF SetStop, MainGoes
  <2> QED
    BY <1>1, <2>1 DEF StopsOnce
<1>8. CASE JoinLoop
  <2>1. /\ main'.pc = "stopped" /\ main'.stops = main.stops /\ main.pc = "joinLoop"
        /\ connections' = connections /\ loop' = loop /\ loop.pc = "done"
    BY <1>0, <1>8 DEF JoinLoop, MainGoes, poolVars
  <2> QED
    BY <1>1, <2>1 DEF StopsOnce
<1>9. main' = main \/ MainNext
  BY DEF Next, LoopTop, LoopServes, Accept, EvictBegin, EvictJoin, EvictPop, EvictDelete,
         Push, Start, ThreadNext, While, ReadSize, ReadBody, Handle, Respond, After, Catch,
         ThreadFrame, Crash, Environment, vars
<1> QED
  BY <1>3, <1>4, <1>5, <1>6, <1>7, <1>8, <1>9 DEF MainNext

LEMMA StopInvHolds == Spec => []StopInv
<1>1. Init => StopInv
  <2> SUFFICES ASSUME Init PROVE StopInv
    OBVIOUS
  <2>1. DOMAIN <<>> = {}
    OBVIOUS
  <2>2. Ordered /\ OldShut /\ WalkQuiet /\ StopsOnce
    BY <2>1 DEF Init, Ordered, OldShut, WalkQuiet, StopsOnce, Accepted, Evicting
  <2>3. LeftQuiet
    BY DEF Init, LeftQuiet, Conn
  <2> QED
    BY <2>2, <2>3 DEF StopInv
<1>2. TypeInv /\ Caught /\ StopInv /\ [Next]_vars => StopInv'
  <2> SUFFICES ASSUME TypeInv, StopInv, [Next]_vars PROVE StopInv'
    OBVIOUS
  <2>1. Ordered'
    BY OrderedAlways DEF StopInv
  <2> QED
    BY <2>1, LeftKept, OldKept, WalkKept, OnceKept DEF StopInv
<1> QED
  BY <1>1, <1>2, TypeCorrect, PTL DEF Spec

\* After stop() and ~SockServer no socket of a connection is open and no
\* thread serves one, wherever the loop thread was when they were called, in
\* whatever process: the rest of it may open descriptors of its own.
THEOREM StoppedQuiet == Spec => []DestroyedQuiet
<1>1. TypeInv /\ StopInv => DestroyedQuiet
  <2> SUFFICES ASSUME TypeInv, StopInv, main.pc = "stopped", main.stops = 2, NEW c \in Conn
               PROVE  ~Holds(c) /\ (Active(c) => thr[c] = "check" /\ ~connected[c])
    BY DEF DestroyedQuiet
  <2>1. connections = <<>> /\ loop.pc = "done"
    BY DEF StopInv, StopsOnce
  <2>2. c \notin ToSet(connections)
    <3>1. DOMAIN <<>> = {}
      OBVIOUS
    <3> QED
      BY <2>1, <3>1 DEF ToSet
  <2>3. CASE c <= loop.new
    <3>1. Quieted(c)
      BY <2>1, <2>2, <2>3 DEF StopInv, LeftQuiet, Accepted, Evicting
    <3> QED
      BY <3>1 DEF Quieted, Active
  <2>4. CASE c > loop.new
    BY <2>4 DEF TypeInv, NotYet, Holds, Active
  <2>5. c <= loop.new \/ c > loop.new
    BY DEF TypeInv, TypeOK, SockTypeOK, Conn
  <2> QED
    BY <2>3, <2>4, <2>5
<1> QED
  BY <1>1, StopInvHolds, TypeCorrect, PTL
=============================================================================
