-------------------------- MODULE SockContractProofs --------------------------
(***************************************************************************)
(* Until stop() is called, and in a process that opens no descriptors of   *)
(* its own, SockServer implements CallContract, for any number of          *)
(* connections, calls and descriptors and any size of the pool.            *)
(*                                                                         *)
(* CallInv relates, for each connection, the client's books (calls begun,  *)
(* answered and denied), the frames and units under way, the place of the  *)
(* thread and the number of methods run.  It is inductive because the      *)
(* descriptor of a running thread is never closed (SocketOwned): otherwise *)
(* a client could give a call up that its thread goes on to execute.       *)
(*                                                                         *)
(* Survives adds what clients leave behind, and who has the descriptors:   *)
(* with one more of these than the pool takes, no client that waits for    *)
(* its replies brings the server down.                                     *)
(***************************************************************************)
EXTENDS SockServerProofs

-----------------------------------------------------------------------------
(* The invariant *)

\* The thread may still read, from a socket nobody has closed.
Serves(c) == thr[c] # "done" /\ ~hup[c]

Outstanding(c) == calls[c] = acked[c] + denied[c] + 1
Settled(c) == calls[c] = acked[c] + denied[c] /\ executed[c] = acked[c]

Books(c) ==
  /\ client[c] \in {"none", "idle", "refused", "failed"} => Settled(c)
  /\ client[c] \in {"half", "waiting", "stuck"} => Outstanding(c)
  /\ client[c] = "half" => executed[c] = acked[c]
  /\ client[c] \in Gone => down[c] = <<>>

\* A result is the first frame under way, and the only one; an error is the
\* last thing a thread writes.
ResultFirst(s) == s # <<>> /\ Head(s) = "result"
NoneBehind(s) == \A i \in 2 .. Len(s) : s[i] # "result"
OnlyResults(s) == \A i \in 1 .. Len(s) : s[i] = "result"

Written(c) ==
  /\ ResultFirst(down[c]) => client[c] = "waiting" /\ executed[c] = acked[c] + 1
  /\ NoneBehind(down[c])
  /\ OnlyResults(down[c]) \/ thr[c] = "done"
  /\ client[c] = "stuck" => thr[c] = "done"

\* What has been executed and is not under way is about to be written.
Pending(c) ==
  client[c] = "waiting" /\ ~ResultFirst(down[c]) =>
    executed[c] = acked[c] \/ thr[c] = "respond"

\* There is at most one request to read, and it is the one being waited for,
\* or the last one of a client that has left.
Unexecuted(c) ==
  /\ client[c] \in {"half", "waiting"} \cup Gone
  /\ executed[c] = acked[c] /\ Outstanding(c) /\ down[c] = <<>>

Reading(c) ==
  /\ (Serves(c) /\ up[c] # <<>>) \/ thr[c] \in {"body", "handle"} => Unexecuted(c)
  /\ Serves(c) /\ client[c] = "half" =>
       IF thr[c] = "body" THEN up[c] = <<>> ELSE HalfRequest(up[c])
  /\ Serves(c) /\ thr[c] # "body" => Request(up[c])
  /\ thr[c] = "body" => Rest(up[c])
  /\ thr[c] = "handle" => up[c] = <<>> /\ client[c] # "half"
  /\ thr[c] = "respond" =>
       /\ up[c] = <<>> /\ down[c] = <<>>
       /\ (client[c] = "waiting" /\ executed[c] = acked[c] + 1) \/ client[c] \in Gone

InOrder(c) == Books(c) /\ Written(c) /\ Pending(c) /\ Reading(c)

CallInv == \A c \in Conn : InOrder(c)

\* The thread of the connection in hand has not been started.
Unstarted == loop.pc \in Accepted => thr[loop.new] = "new"

\* What no step disturbs, and what follows until stop(): the socket of a
\* running thread is open.
Sound == Bounded /\ HupHolds /\ Unstarted
Quiet(c) == hup[c] => ~Active(c)

LEMMA QuietHolds ==
  ASSUME HupHolds, ThreadOwnsSocket, main.stops = 0, NEW c \in Conn
  PROVE  Quiet(c)
BY DEF HupHolds, ThreadOwnsSocket, Quiet

-----------------------------------------------------------------------------
(* Steps that leave a connection's frames and its client alone *)

LEMMA KeptInOrder ==
  ASSUME NEW c \in Conn, InOrder(c),
         \/ client'[c] = client[c]
         \/ client[c] = "none" /\ client'[c] = "idle",
         calls'[c] = calls[c], acked'[c] = acked[c], denied'[c] = denied[c],
         up'[c] = up[c], down'[c] = down[c], executed'[c] = executed[c],
         hup[c] => hup'[c],
         \/ thr'[c] = thr[c]
         \/ /\ thr[c] \notin {"body", "handle", "respond", "done"}
            /\ thr'[c] \notin {"body", "handle", "respond"}
  PROVE  InOrder(c)'
<1>1. Books(c)'
  BY DEF InOrder, Books, Settled, Outstanding, Gone
<1>2. Written(c)'
  BY DEF InOrder, Written
<1>3. Pending(c)'
  BY DEF InOrder, Pending
<1>4. Serves(c)' => Serves(c)
  BY DEF Serves
<1>5. Reading(c)'
  BY <1>4 DEF InOrder, Reading, Unexecuted, Outstanding, Gone
<1> QED
  BY <1>1, <1>2, <1>3, <1>5 DEF InOrder

-----------------------------------------------------------------------------
(* Steps of the thread *)

LEMMA ThreadOthers ==
  ASSUME TypeInv, NEW c \in Conn, ThreadNext(c), NEW d \in Conn, d # c
  PROVE  /\ client'[d] = client[d] /\ calls'[d] = calls[d] /\ acked'[d] = acked[d]
         /\ denied'[d] = denied[d] /\ up'[d] = up[d] /\ down'[d] = down[d]
         /\ hup'[d] = hup[d] /\ executed'[d] = executed[d] /\ thr'[d] = thr[d]
<1>1. /\ client \in [Conn -> ClientStates] /\ up \in [Conn -> Seq(Units)]
      /\ down \in [Conn -> Seq(Frames)] /\ executed \in [Conn -> Nat]
      /\ thr \in [Conn -> ThreadPcs]
  BY DEF TypeInv, TypeOK, WireTypeOK, SockTypeOK
<1>2. CASE While(c) \/ After(c)
  BY <1>1, <1>2 DEF While, After, ThreadGoes, wireVars, clientVars, fdVars
<1>3. CASE ReadSize(c) \/ ReadBody(c)
  BY <1>1, <1>3 DEF ReadSize, ReadBody, ThreadGoes, Crash, thrVars, wireVars, clientVars,
                    fdVars
<1>4. CASE Handle(c)
  BY <1>1, <1>4 DEF Handle, ThreadGoes, wireVars, clientVars, fdVars
<1>5. CASE Respond(c) \/ Catch(c)
  BY <1>1, <1>5 DEF Respond, Catch, Write, ThreadGoes, Crash, thrVars, wireVars, clientVars,
                    fdVars
<1> QED
  BY <1>2, <1>3, <1>4, <1>5 DEF ThreadNext

\* What is left of frames when the first is taken; and a frame is written behind those under way.
LEMMA NoFrames == ~ResultFirst(<<>>) /\ NoneBehind(<<>>) /\ OnlyResults(<<>>)
BY DEF ResultFirst, NoneBehind, OnlyResults

LEMMA TakeFrame ==
  ASSUME NEW s \in Seq(Frames), s # <<>>, NoneBehind(s)
  PROVE  /\ ~ResultFirst(Tail(s)) /\ NoneBehind(Tail(s))
         /\ OnlyResults(s) => OnlyResults(Tail(s)) /\ Head(s) = "result"
<1>1. /\ Len(s) \in Nat \ {0} /\ Head(s) = s[1]
      /\ Tail(s) \in Seq(Frames) /\ Len(Tail(s)) = Len(s) - 1
      /\ \A i \in 1 .. Len(Tail(s)) : Tail(s)[i] = s[i + 1]
  OBVIOUS
<1>2. /\ \A i \in 1 .. Len(Tail(s)) : i + 1 \in 2 .. Len(s) /\ i + 1 \in 1 .. Len(s)
      /\ 1 \in 1 .. Len(s)
  BY <1>1
<1>3. \A i \in 1 .. Len(Tail(s)) : Tail(s)[i] # "result"
  BY <1>1, <1>2 DEF NoneBehind
<1>4. NoneBehind(Tail(s))
  BY <1>1, <1>3 DEF NoneBehind
<1>5. ~ResultFirst(Tail(s))
  <2> SUFFICES ASSUME Tail(s) # <<>> PROVE Head(Tail(s)) # "result"
    BY DEF ResultFirst
  <2>1. Head(Tail(s)) = Tail(s)[1] /\ 1 \in 1 .. Len(Tail(s))
    BY <1>1
  <2> QED
    BY <1>3, <2>1
<1>6. OnlyResults(s) => OnlyResults(Tail(s)) /\ Head(s) = "result"
  BY <1>1, <1>2 DEF OnlyResults
<1> QED
  BY <1>4, <1>5, <1>6

LEMMA WriteFrame ==
  ASSUME NEW s \in Seq(Frames), NEW e \in Frames, OnlyResults(s), NoneBehind(s)
  PROVE  /\ s # <<>> => ResultFirst(s) /\ ResultFirst(Append(s, e))
         /\ s = <<>> \/ e # "result" => NoneBehind(Append(s, e))
         /\ s = <<>> => (ResultFirst(Append(s, e)) <=> e = "result")
         /\ e = "result" => OnlyResults(Append(s, e))
<1>1. /\ Len(s) \in Nat /\ Append(s, e) \in Seq(Frames) /\ Len(Append(s, e)) = Len(s) + 1
      /\ \A i \in 1 .. Len(s) : Append(s, e)[i] = s[i]
      /\ Append(s, e)[Len(s) + 1] = e /\ Append(s, e) # <<>>
      /\ Head(Append(s, e)) = Append(s, e)[1]
      /\ s # <<>> => Len(s) # 0 /\ Head(s) = s[1]
      /\ s = <<>> => Len(s) = 0
  OBVIOUS
<1>2. s # <<>> => ResultFirst(s) /\ ResultFirst(Append(s, e))
  <2>1. s # <<>> => 1 \in 1 .. Len(s)
    BY <1>1
  <2> QED
    BY <1>1, <2>1 DEF ResultFirst, OnlyResults
<1>3. s = <<>> \/ e # "result" => NoneBehind(Append(s, e))
  <2> SUFFICES ASSUME s = <<>> \/ e # "result", NEW i \in 2 .. Len(Append(s, e))
               PROVE  Append(s, e)[i] # "result"
    BY DEF NoneBehind
  <2>1. i \in 2 .. Len(s) \/ i = Len(s) + 1
    BY <1>1
  <2>2. i \in 2 .. Len(s) => Append(s, e)[i] = s[i] /\ s[i] # "result"
    BY <1>1 DEF NoneBehind
  <2>3. s # <<>>
    BY <1>1
  <2> QED
    BY <1>1, <2>1, <2>2, <2>3
<1>4. s = <<>> => (ResultFirst(Append(s, e)) <=> e = "result")
  BY <1>1 DEF ResultFirst
<1>5. e = "result" => OnlyResults(Append(s, e))
  <2> SUFFICES ASSUME e = "result", NEW i \in 1 .. Len(Append(s, e))
               PROVE  Append(s, e)[i] = "result"
    BY DEF OnlyResults
  <2>1. i \in 1 .. Len(s) \/ i = Len(s) + 1
    BY <1>1
  <2> QED
    BY <1>1, <2>1 DEF OnlyResults
<1> QED
  BY <1>2, <1>3, <1>4, <1>5

LEMMA ReadSizeInOrder ==
  ASSUME TypeInv, HupHolds, NEW c \in Conn, InOrder(c), ReadSize(c)
  PROVE  InOrder(c)'
<1>0. /\ up[c] \in Seq(Units) /\ up \in [Conn -> Seq(Units)] /\ thr \in [Conn -> ThreadPcs]
      /\ thr[c] = "recv"
      /\ UNCHANGED <<executed, down, client, calls, acked, denied, hup>>
  BY DEF ReadSize, TypeInv, TypeOK, WireTypeOK, SockTypeOK, fdVars
<1>1. CASE UNCHANGED up /\ ThreadGoes(c, "catch", held'[c])
  <2>1. thr'[c] = "catch"
    BY <1>0, <1>1 DEF ThreadGoes
  <2> QED
    BY <1>0, <1>1, <2>1, KeptInOrder
<1>2. CASE /\ Holds(c) /\ up[c] # <<>> /\ up' = [up EXCEPT ![c] = Tail(@)]
           /\ thr' = [thr EXCEPT ![c] = IF Head(up[c]) = "size" THEN "body" ELSE "catch"]
  <2>1. Serves(c)
    BY <1>0, <1>2, HeldOpen DEF Serves
  <2>2. Unexecuted(c)
    BY <1>2, <2>1 DEF InOrder, Reading
  <2>3. Unexecuted(c)'
    BY <1>0, <2>2 DEF Unexecuted, Outstanding
  <2>4. Request(up[c]) /\ (client[c] = "half" => HalfRequest(up[c]))
    BY <1>0, <2>1 DEF InOrder, Reading
  <2>5. /\ Rest(up'[c]) /\ (Head(up[c]) # "size" => up'[c] = <<>> /\ client[c] # "half")
        /\ client[c] = "half" => up'[c] = <<>>
    BY <1>0, <1>2, <2>4, TakeOne
  <2>8. Reading(c)'
    <3>1. CASE Head(up[c]) = "size"
      <4>1. thr'[c] = "body"
        BY <1>0, <1>2, <3>1
      <4> QED
        BY <1>0, <2>3, <2>5, <4>1 DEF Reading
    <3>2. CASE Head(up[c]) # "size"
      <4>1. thr'[c] = "catch"
        BY <1>0, <1>2, <3>2
      <4> QED
        BY <1>0, <2>5, <3>2, <4>1, TakenAll DEF Reading
    <3> QED
      BY <3>1, <3>2
  <2>9. Books(c)' /\ Written(c)' /\ Pending(c)'
    BY <1>0, <2>2, <2>3
       DEF InOrder, Books, Written, Pending, Settled, Outstanding, Unexecuted, Gone
  <2> QED
    BY <2>8, <2>9 DEF InOrder
<1>3. \/ UNCHANGED up /\ \E what : ThreadGoes(c, "catch", what)
      \/ /\ Holds(c) /\ up[c] # <<>> /\ up' = [up EXCEPT ![c] = Tail(@)]
         /\ thr' = [thr EXCEPT ![c] = IF Head(up[c]) = "size" THEN "body" ELSE "catch"]
  BY DEF ReadSize, ThreadGoes
<1>4. (\E what : ThreadGoes(c, "catch", what)) => ThreadGoes(c, "catch", held'[c])
  BY DEF ThreadGoes, TypeInv, TypeOK, SockTypeOK
<1> QED
  BY <1>1, <1>2, <1>3, <1>4

LEMMA CrashInOrder ==
  ASSUME NEW c \in Conn, InOrder(c), NEW how, Crash(how)
  PROVE  InOrder(c)'
<1>1. UNCHANGED <<client, calls, acked, denied, up, down, executed, hup, thr>>
  BY DEF Crash, thrVars, wireVars, clientVars, fdVars
<1> QED
  BY <1>1, KeptInOrder

LEMMA ReadBodyInOrder ==
  ASSUME TypeInv, HupHolds, NEW c \in Conn, InOrder(c), ReadBody(c)
  PROVE  InOrder(c)'
<1>1. CASE ~Holds(c) \/ client[c] = "reset"
  BY <1>1, CrashInOrder DEF ReadBody
<1>2. CASE ~(~Holds(c) \/ client[c] = "reset")
  <2>0. /\ up[c] \in Seq(Units) /\ up \in [Conn -> Seq(Units)] /\ thr \in [Conn -> ThreadPcs]
        /\ thr[c] = "body" /\ up[c] # <<>>
        /\ UNCHANGED <<executed, down, client, calls, acked, denied, hup>>
        /\ up' = [up EXCEPT ![c] = Tail(@)] /\ thr' = [thr EXCEPT ![c] = "handle"]
    BY <1>2 DEF ReadBody, ThreadGoes, TypeInv, TypeOK, WireTypeOK, SockTypeOK, fdVars
  <2>1. Serves(c)
    BY <1>2, <2>0, HeldOpen DEF Serves
  <2>2. Unexecuted(c) /\ client[c] # "half" /\ Rest(up[c])
    BY <2>0, <2>1 DEF InOrder, Reading
  <2>3. Unexecuted(c)'
    BY <2>0, <2>2 DEF Unexecuted, Outstanding
  <2>4. up'[c] = <<>> /\ thr'[c] = "handle"
    BY <2>0, <2>2, TakeOne
  <2>5. Reading(c)'
    BY <2>0, <2>2, <2>3, <2>4, TakenAll DEF Reading
  <2>6. Books(c)' /\ Written(c)' /\ Pending(c)'
    BY <2>0, <2>2, <2>4
       DEF InOrder, Books, Written, Pending, Settled, Outstanding, Unexecuted, Gone
  <2> QED
    BY <2>5, <2>6 DEF InOrder
<1> QED
  BY <1>1, <1>2

LEMMA HandleInOrder ==
  ASSUME TypeInv, NEW c \in Conn, InOrder(c), Handle(c)
  PROVE  InOrder(c)'
<1>0. /\ executed \in [Conn -> Nat] /\ acked \in [Conn -> Nat] /\ thr \in [Conn -> ThreadPcs]
      /\ thr[c] = "handle"
      /\ UNCHANGED <<up, down, client, calls, acked, denied, hup>>
  BY DEF Handle, TypeInv, TypeOK, WireTypeOK, SockTypeOK, wireVars, clientVars, fdVars
<1>1. \/ executed'[c] = executed[c] + 1 /\ thr'[c] = "respond"
      \/ executed'[c] = executed[c] /\ thr'[c] = "catch"
  BY <1>0 DEF Handle, ThreadGoes
<1>2. Unexecuted(c) /\ up[c] = <<>> /\ client[c] # "half"
  BY <1>0 DEF InOrder, Reading
<1>3. Reading(c)'
  BY <1>0, <1>1, <1>2, TakenAll DEF Reading, Unexecuted, Gone
<1>4. Books(c)' /\ Written(c)' /\ Pending(c)'
  BY <1>0, <1>1, <1>2
     DEF InOrder, Books, Written, Pending, Settled, Outstanding, Unexecuted, Gone
<1> QED
  BY <1>3, <1>4 DEF InOrder

LEMMA RespondInOrder ==
  ASSUME TypeInv, NEW c \in Conn, InOrder(c), Respond(c)
  PROVE  InOrder(c)'
<1>1. CASE WriteFails(c)
  BY <1>1, CrashInOrder DEF Respond
<1>2. CASE ~WriteFails(c)
  <2>0. /\ thr[c] = "respond" /\ thr' = [thr EXCEPT ![c] = "after"]
        /\ Write(c, "result") /\ UNCHANGED <<executed, hup>>
        /\ thr \in [Conn -> ThreadPcs] /\ client \in [Conn -> ClientStates]
        /\ down \in [Conn -> Seq(Frames)] /\ thr'[c] = "after"
    BY <1>2 DEF Respond, ThreadGoes, TypeInv, TypeOK, WireTypeOK, SockTypeOK, fdVars
  <2>1. /\ up[c] = <<>> /\ down[c] = <<>>
        /\ (client[c] = "waiting" /\ executed[c] = acked[c] + 1) \/ client[c] \in Gone
    BY <2>0 DEF InOrder, Reading
  <2>2. UNCHANGED <<up, calls, acked, denied>>
    BY <2>0 DEF Write
  <2>3. \/ client'[c] = "reset" /\ client[c] = "closed" /\ down'[c] = <<>>
        \/ /\ client'[c] = "waiting" /\ client[c] = "waiting"
           /\ down'[c] = Append(<<>>, "result")
    BY <2>0, <2>1 DEF Write, WriteKills, Gone
  <2>4. ResultFirst(down'[c]) => client'[c] = "waiting"
    BY <2>3, NoFrames
  <2>5. /\ NoneBehind(down'[c]) /\ OnlyResults(down'[c])
        /\ client'[c] = "waiting" => ResultFirst(down'[c])
    <3>1. /\ NoneBehind(Append(<<>>, "result")) /\ OnlyResults(Append(<<>>, "result"))
          /\ ResultFirst(Append(<<>>, "result"))
      <4>1. <<>> \in Seq(Frames) /\ "result" \in Frames
        BY DEF Frames
      <4> QED
        BY <4>1, NoFrames, WriteFrame
    <3> QED
      BY <2>3, <3>1, NoFrames
  <2>6. Reading(c)'
    BY <2>0, <2>1, <2>2, <2>3, TakenAll DEF Reading
  <2>7. Books(c)'
    BY <2>0, <2>1, <2>2, <2>3 DEF InOrder, Books, Settled, Outstanding, Gone
  <2>8. Written(c)' /\ Pending(c)'
    BY <2>0, <2>1, <2>2, <2>3, <2>4, <2>5 DEF Written, Pending, Gone
  <2> QED
    BY <2>6, <2>7, <2>8 DEF InOrder
<1> QED
  BY <1>1, <1>2

LEMMA CatchInOrder ==
  ASSUME TypeInv, Caught, NEW c \in Conn, InOrder(c), Catch(c)
  PROVE  InOrder(c)'
<1>0. /\ thr \in [Conn -> ThreadPcs] /\ client \in [Conn -> ClientStates]
      /\ down \in [Conn -> Seq(Frames)] /\ thr[c] = "catch" /\ held[c] \in ErrorCodes
  BY DEF Catch, Caught, TypeInv, TypeOK, WireTypeOK, SockTypeOK
<1>1. CASE connected[c] /\ held[c] = "SOCKET_CLOSED"
  <2>1. /\ UNCHANGED <<client, calls, acked, denied, up, down, executed, hup>>
        /\ thr'[c] = "done"
    BY <1>0, <1>1 DEF Catch, ThreadGoes, wireVars, clientVars, fdVars
  <2> QED
    BY <1>0, <2>1, KeptInOrder
<1>2. CASE ~(connected[c] /\ held[c] = "SOCKET_CLOSED") /\ WriteFails(c)
  BY <1>2, CrashInOrder DEF Catch
<1>3. CASE ~(connected[c] /\ held[c] = "SOCKET_CLOSED") /\ ~WriteFails(c)
  <2>1. /\ Write(c, held[c]) /\ UNCHANGED <<executed, hup>> /\ thr'[c] = "done"
    BY <1>0, <1>3 DEF Catch, ThreadGoes, fdVars
  <2>2. UNCHANGED <<up, calls, acked, denied>>
    BY <2>1 DEF Write
  <2>3. held[c] # "result" /\ held[c] \in Frames
    BY <1>0 DEF ErrorCodes, Frames
  <2>4. Reading(c)'
    BY <2>1 DEF Reading, Serves
  <2>5. CASE client[c] = "closed"
    <3>1. client'[c] = "reset" /\ down'[c] = down[c]
      BY <1>0, <2>1, <2>5 DEF Write
    <3> QED
      BY <2>1, <2>2, <2>4, <2>5, <3>1
         DEF InOrder, Books, Written, Pending, Settled, Outstanding, Gone
  <2>6. CASE client[c] # "closed"
    <3>1. /\ client'[c] = client[c] /\ down'[c] = Append(down[c], held[c])
          /\ client[c] # "reset"
      BY <1>0, <2>1, <2>6 DEF Write, WriteKills
    <3>2. OnlyResults(down[c]) /\ NoneBehind(down[c])
      BY <1>0 DEF InOrder, Written
    <3>3. NoneBehind(down'[c]) /\ (ResultFirst(down'[c]) <=> ResultFirst(down[c]))
      <4>1. down[c] \in Seq(Frames) /\ (down[c] = <<>> => ~ResultFirst(down[c]))
        BY <1>0 DEF ResultFirst
      <4> QED
        BY <2>3, <3>1, <3>2, <4>1, WriteFrame
    <3>5. Written(c)'
      BY <2>1, <2>2, <3>1, <3>3 DEF InOrder, Written
    <3>6. Pending(c)'
      BY <1>0, <2>1, <2>2, <3>1, <3>3 DEF InOrder, Pending
    <3>7. Books(c)'
      BY <2>1, <2>2, <2>6, <3>1 DEF InOrder, Books, Settled, Outstanding, Gone
    <3> QED
      BY <2>4, <3>5, <3>6, <3>7 DEF InOrder
  <2> QED
    BY <2>5, <2>6
<1> QED
  BY <1>1, <1>2, <1>3

LEMMA ThreadInOrder ==
  ASSUME Bounded, HupHolds, CallInv, NEW c \in Conn, ThreadNext(c)
  PROVE  CallInv'
<1> SUFFICES ASSUME NEW d \in Conn PROVE InOrder(d)'
  BY DEF CallInv
<1>0. TypeInv /\ Caught /\ InOrder(d)
  BY DEF Bounded, CallInv
<1>1. CASE d # c
  BY <1>0, <1>1, ThreadOthers, KeptInOrder
<1>2. CASE d = c /\ (While(c) \/ After(c))
  <2>1. /\ UNCHANGED <<client, calls, acked, denied, up, down, executed, hup>>
        /\ thr[c] \in {"check", "after"} /\ thr'[c] \in {"recv", "done", "check", "catch"}
    BY <1>0, <1>2 DEF While, After, ThreadGoes, wireVars, clientVars, fdVars, TypeInv, TypeOK,
                      SockTypeOK
  <2> QED
    BY <1>0, <1>2, <2>1, KeptInOrder
<1>3. CASE d = c /\ (ReadSize(c) \/ ReadBody(c))
  BY <1>0, <1>3, ReadSizeInOrder, ReadBodyInOrder
<1>4. CASE d = c /\ (Handle(c) \/ Respond(c) \/ Catch(c))
  BY <1>0, <1>4, HandleInOrder, RespondInOrder, CatchInOrder
<1> QED
  BY <1>1, <1>2, <1>3, <1>4 DEF ThreadNext

-----------------------------------------------------------------------------
(* Steps of the client *)

\* A client between two calls has nothing under way to the thread, and the
\* thread has nothing of its last call left to do.
LEMMA IdleNothing ==
  ASSUME NEW c \in Conn, InOrder(c), client[c] = "idle"
  PROVE  /\ thr[c] \notin {"body", "handle", "respond"} /\ ~ResultFirst(down[c])
         /\ Serves(c) => up[c] = <<>> /\ OnlyResults(down[c])
BY DEF InOrder, Reading, Unexecuted, Written, Serves, Gone

LEMMA SendInOrder ==
  ASSUME TypeInv, NEW c \in Conn, InOrder(c), Quiet(c), ClientSend(c),
         UNCHANGED <<thr, executed>>
  PROVE  InOrder(c)'
<1>0. /\ up \in [Conn -> Seq(Units)] /\ client \in [Conn -> ClientStates]
      /\ calls \in [Conn -> Nat] /\ acked[c] \in Nat /\ denied[c] \in Nat
      /\ down[c] \in Seq(Frames)
      /\ client[c] = "idle" /\ calls'[c] = calls[c] + 1
      /\ UNCHANGED <<hup, down, acked, denied>>
  BY DEF ClientSend, TypeInv, TypeOK, WireTypeOK, fdVars
<1>1. /\ thr[c] \notin {"body", "handle", "respond"} /\ ~ResultFirst(down[c])
      /\ Serves(c) => up[c] = <<>> /\ OnlyResults(down[c])
  BY <1>0, IdleNothing
<1>2. Settled(c) /\ Outstanding(c)'
  BY <1>0 DEF InOrder, Books, Settled, Outstanding
<1>3. Serves(c) => down[c] = <<>>
  <2>1. down[c] # <<>> /\ OnlyResults(down[c]) => ResultFirst(down[c])
    BY <1>0, WriteFrame DEF InOrder, Written
  <2> QED
    BY <1>1, <2>1
<1>4. \/ client'[c] = "waiting" /\ (Serves(c) => Request(up'[c]))
      \/ client'[c] = "half" /\ (Serves(c) => HalfRequest(up'[c]) /\ Request(up'[c]))
  <2>1. CASE \E k \in Kinds :
               /\ up' = [up EXCEPT ![c] = @ \o IF k = "badsize" THEN <<k>> ELSE <<"size", k>>]
               /\ client' = [client EXCEPT ![c] = "waiting"]
    <3>1. PICK k \in RequestKinds :
             up' = [up EXCEPT ![c] = @ \o IF k = "badsize" THEN <<k>> ELSE <<"size", k>>]
      BY <2>1, WireAssumption
    <3>2. Serves(c) => Request(up'[c])
      BY <1>0, <1>1, <3>1, SendOne
    <3> QED
      BY <1>0, <2>1, <3>2
  <2>2. CASE /\ up' = [up EXCEPT ![c] = Append(@, "size")]
             /\ client' = [client EXCEPT ![c] = "half"]
    <3>1. Serves(c) => HalfRequest(up'[c])
      BY <1>0, <1>1, <2>2, SendOne
    <3>2. HalfRequest(up'[c]) => Request(up'[c])
      <4>1. up'[c] \in Seq(Units)
        <5>1. up[c] \in Seq(Units) /\ "size" \in Units
          BY <1>0 DEF Units
        <5> QED
          BY <1>0, <2>2, <5>1
      <4> QED
        BY <4>1, HalfIsWhole
    <3> QED
      BY <1>0, <2>2, <3>1, <3>2
  <2> QED
    BY <2>1, <2>2 DEF ClientSend
<1>5. Reading(c)'
  <2>1. Serves(c)' = Serves(c)
    BY <1>0 DEF Serves
  <2>2. Serves(c) => Unexecuted(c)'
    BY <1>0, <1>2, <1>3, <1>4 DEF Unexecuted, Settled
  <2> QED
    BY <1>0, <1>1, <1>4, <2>1, <2>2 DEF Reading, Serves
<1>6. Books(c)' /\ Written(c)' /\ Pending(c)'
  BY <1>0, <1>1, <1>2, <1>4 DEF InOrder, Books, Written, Pending, Settled, Gone
<1> QED
  BY <1>5, <1>6 DEF InOrder

LEMMA SendRestInOrder ==
  ASSUME TypeInv, NEW c \in Conn, InOrder(c), Quiet(c), ClientSendRest(c),
         UNCHANGED <<thr, executed>>
  PROVE  InOrder(c)'
<1>0. /\ up \in [Conn -> Seq(Units)] /\ client[c] = "half" /\ client'[c] = "waiting"
      /\ UNCHANGED <<hup, down, calls, acked, denied>>
      /\ thr[c] = "body" => Serves(c)
  BY DEF ClientSendRest, TypeInv, TypeOK, WireTypeOK, fdVars, Quiet, Active, Serves
<1>1. PICK k \in RequestKinds : up'[c] = Append(up[c], k)
  BY <1>0, WireAssumption DEF ClientSendRest
<1>2. executed[c] = acked[c] /\ thr[c] \notin {"handle", "respond"}
  BY <1>0 DEF InOrder, Books, Reading, Gone
<1>3. /\ thr[c] = "body" => Rest(up'[c])
      /\ Serves(c) /\ thr[c] # "body" => Request(up'[c])
  BY <1>0, <1>1, SendOne, SendSecond DEF InOrder, Reading
<1>4. (Serves(c) /\ up[c] # <<>>) \/ thr[c] = "body" => Unexecuted(c)'
  BY <1>0 DEF InOrder, Reading, Unexecuted, Outstanding
<1>5. Serves(c) /\ thr[c] # "body" => up[c] # <<>>
  BY <1>0, HalfIsWhole DEF InOrder, Reading, TypeInv, TypeOK, WireTypeOK
<1>6. Reading(c)'
  BY <1>0, <1>2, <1>3, <1>4, <1>5 DEF Reading, Serves
<1>7. Books(c)' /\ Written(c)' /\ Pending(c)'
  BY <1>0, <1>2 DEF InOrder, Books, Written, Pending, Outstanding, Gone
<1> QED
  BY <1>6, <1>7 DEF InOrder

\* The client sees that the server's end is closed: nobody serves it.
LEMMA FailsInOrder ==
  ASSUME TypeInv, NEW c \in Conn, InOrder(c), Quiet(c),
         ClientSendFails(c) \/ ClientRecvFails(c), UNCHANGED <<thr, executed>>
  PROVE  InOrder(c)'
<1>0. /\ calls[c] \in Nat /\ acked[c] \in Nat /\ denied[c] \in Nat
      /\ hup[c] /\ client'[c] = "failed"
      /\ UNCHANGED <<hup, up, down, calls, acked>>
      /\ thr[c] \in {"new", "done"}
  BY DEF ClientSendFails, ClientRecvFails, TypeInv, TypeOK, WireTypeOK, fdVars, Quiet, Active
<1>1. ~ResultFirst(down[c])
  <2>1. client[c] \in {"idle", "half"} \/ down[c] = <<>>
    BY DEF ClientSendFails, ClientRecvFails
  <2> QED
    BY <2>1, NoFrames DEF InOrder, Written
<1>2. Settled(c)'
  <2>1. CASE client[c] = "idle" /\ denied'[c] = denied[c]
    BY <1>0, <2>1 DEF InOrder, Books, Settled
  <2>2. CASE client[c] \in {"half", "waiting"} /\ denied'[c] = denied[c] + 1
    <3>1. executed[c] = acked[c] /\ Outstanding(c)
      BY <1>0, <1>1, <2>2 DEF InOrder, Books, Pending
    <3> QED
      BY <1>0, <2>2, <3>1 DEF Settled, Outstanding
  <2> QED
    BY <2>1, <2>2 DEF ClientSendFails, ClientRecvFails, TypeInv, TypeOK, WireTypeOK
<1>3. Reading(c)'
  BY <1>0 DEF Reading, Serves
<1>4. Books(c)' /\ Written(c)' /\ Pending(c)'
  BY <1>0, <1>1, <1>2 DEF InOrder, Books, Written, Pending, Gone
<1> QED
  BY <1>3, <1>4 DEF InOrder

LEMMA RecvInOrder ==
  ASSUME TypeInv, NEW c \in Conn, InOrder(c), ClientRecv(c), UNCHANGED <<thr, executed>>
  PROVE  InOrder(c)'
<1>0. /\ calls[c] \in Nat /\ acked \in [Conn -> Nat] /\ denied \in [Conn -> Nat]
      /\ client \in [Conn -> ClientStates] /\ down[c] \in Seq(Frames)
      /\ down[c] # <<>> /\ client[c] = "waiting"
      /\ UNCHANGED <<hup, up, calls>> /\ down'[c] = Tail(down[c])
  BY DEF ClientRecv, TypeInv, TypeOK, WireTypeOK, fdVars
<1>1. /\ ~ResultFirst(down'[c]) /\ NoneBehind(down'[c])
      /\ OnlyResults(down[c]) => OnlyResults(down'[c]) /\ ResultFirst(down[c])
  BY <1>0, TakeFrame DEF InOrder, Written, ResultFirst
<1>2. Settled(c)' /\ client'[c] \in {"idle", "refused"}
  <2>1. CASE Head(down[c]) = "result"
    <3>1. /\ acked'[c] = acked[c] + 1 /\ denied'[c] = denied[c]
          /\ client'[c] = "idle"
      BY <1>0, <2>1 DEF ClientRecv
    <3> QED
      BY <1>0, <2>1, <3>1
         DEF InOrder, Books, Written, ResultFirst, Settled, Outstanding
  <2>2. CASE Head(down[c]) # "result"
    <3>1. /\ acked'[c] = acked[c] /\ denied'[c] = denied[c] + 1
          /\ client'[c] \in {"idle", "refused"}
      BY <1>0, <2>2 DEF ClientRecv
    <3>2. ~ResultFirst(down[c]) /\ thr[c] = "done"
      BY <1>1, <2>2 DEF InOrder, Written, ResultFirst
    <3>3. executed[c] = acked[c]
      BY <1>0, <3>2 DEF InOrder, Pending
    <3> QED
      BY <1>0, <3>1, <3>3 DEF InOrder, Books, Settled, Outstanding
  <2> QED
    BY <2>1, <2>2
<1>3. Reading(c)'
  BY <1>0, <1>2 DEF InOrder, Reading, Unexecuted, Serves
<1>4. Books(c)' /\ Written(c)' /\ Pending(c)'
  BY <1>0, <1>1, <1>2 DEF InOrder, Books, Written, Pending, Gone
<1> QED
  BY <1>3, <1>4 DEF InOrder

\* Behind a frame there is only what a thread writes as its last.
LEMMA TooMuchIsLast ==
  ASSUME TypeInv, NEW c \in Conn, InOrder(c), ClientRecvTooMuch(c)
  PROVE  thr[c] = "done"
<1>1. Len(down[c]) \in Nat /\ Len(down[c]) > 1
  BY DEF ClientRecvTooMuch, TypeInv, TypeOK, WireTypeOK
<1>2. 2 \in 1 .. Len(down[c]) /\ 2 \in 2 .. Len(down[c])
  BY <1>1
<1> QED
  BY <1>2 DEF InOrder, Written, NoneBehind, OnlyResults

LEMMA TooMuchInOrder ==
  ASSUME TypeInv, NEW c \in Conn, InOrder(c), ClientRecvTooMuch(c), UNCHANGED <<thr, executed>>
  PROVE  InOrder(c)'
<1>0. /\ client[c] = "waiting" /\ client'[c] = "stuck" /\ down'[c] = <<>>
      /\ UNCHANGED <<hup, up, calls, acked, denied>>
  BY DEF ClientRecvTooMuch, TypeInv, TypeOK, WireTypeOK, fdVars
<1>1. thr[c] = "done"
  BY TooMuchIsLast
<1>2. Books(c)'
  BY <1>0 DEF InOrder, Books, Outstanding, Gone
<1>3. Written(c)' /\ Pending(c)' /\ Reading(c)'
  BY <1>0, <1>1, NoFrames DEF Written, Pending, Reading, Serves
<1> QED
  BY <1>2, <1>3 DEF InOrder

LEMMA CloseInOrder ==
  ASSUME TypeInv, NEW c \in Conn, InOrder(c), ClientClose(c), UNCHANGED <<thr, executed>>
  PROVE  InOrder(c)'
<1>0. /\ client'[c] \in Gone /\ down'[c] = <<>>
      /\ UNCHANGED <<hup, up, calls, acked, denied>>
  BY DEF ClientClose, TypeInv, TypeOK, WireTypeOK, fdVars, Gone
<1>1. Unexecuted(c) => Unexecuted(c)'
  BY <1>0 DEF Unexecuted, Outstanding
<1>2. Reading(c)'
  BY <1>0, <1>1 DEF InOrder, Reading, Serves, Gone
<1>3. Books(c)' /\ Written(c)' /\ Pending(c)'
  BY <1>0, NoFrames DEF Books, Written, Pending, Gone
<1> QED
  BY <1>2, <1>3 DEF InOrder

LEMMA ClientInOrder ==
  ASSUME TypeInv, CallInv, NEW c \in Conn, Quiet(c), ClientNext(c),
         UNCHANGED <<thr, executed>>
  PROVE  CallInv'
<1> SUFFICES ASSUME NEW d \in Conn PROVE InOrder(d)'
  BY DEF CallInv
<1>1. InOrder(d)
  BY DEF CallInv
<1>2. CASE d = c
  BY <1>1, <1>2, SendInOrder, SendRestInOrder, FailsInOrder, RecvInOrder, TooMuchInOrder,
     CloseInOrder DEF ClientNext, ClientReads
<1>3. CASE d # c
  <2>1. WireTypeOK
    BY DEF TypeInv, TypeOK
  <2> QED
    BY <1>1, <1>3, <2>1, ClientOnly, KeptInOrder
<1> QED
  BY <1>2, <1>3

-----------------------------------------------------------------------------
(* The remaining steps *)

LEMMA HupKept ==
  ASSUME TypeInv, HupHolds, [Next]_vars
  PROVE  HupHolds'
<1>1. CASE EvictJoin \/ EvictDelete \/ StopJoin \/ AppClose
  <2>1. (\E n : Close(n) /\ UNCHANGED fdOf) \/ UNCHANGED <<owner, fdOf, hup>>
    BY <1>1 DEF EvictJoin, EvictDelete, StopJoin, AppClose, CloseFd, Crash, wireVars, fdVars
  <2>2. CASE UNCHANGED <<owner, fdOf, hup>>
    BY <2>2 DEF HupHolds, Holds
  <2>3. WireTypeOK
    BY DEF TypeInv, TypeOK
  <2> QED
    BY <2>1, <2>2, <2>3, CloseKeepsHup
<1>2. CASE AppOpen
  <2>1. UNCHANGED <<fdOf, hup>> /\ App \notin Conn
    BY <1>2, WireAssumption DEF AppOpen, App, Conn
  <2>2. PICK f \in Fd : owner' = [owner EXCEPT ![f] = App]
    BY <1>2 DEF AppOpen
  <2> QED
    BY <2>1, <2>2 DEF HupHolds, Holds, TypeInv, TypeOK, WireTypeOK
<1>3. CASE Accept
  <2>1. CASE UNCHANGED wireVars
    BY <2>1 DEF HupHolds, Holds, wireVars, fdVars
  <2>2. CASE AcceptFd(loop.new + 1)
    <3> DEFINE c == loop.new + 1
    <3>1. c \in Conn /\ c > loop.new
      BY <1>3, WireAssumption DEF Accept, TypeInv, TypeOK, SockTypeOK, Conn
    <3>2. fdOf[c] = NoFd /\ ~hup[c]
      BY <3>1 DEF TypeInv, NotYet, HupHolds
    <3>3. PICK f \in Fd : owner' = [owner EXCEPT ![f] = c] /\ fdOf' = [fdOf EXCEPT ![c] = f]
      BY <2>2 DEF AcceptFd
    <3>4. UNCHANGED hup
      BY <2>2 DEF AcceptFd
    <3> QED
      BY <3>1, <3>2, <3>3, <3>4 DEF HupHolds, Holds, TypeInv, TypeOK, WireTypeOK
  <2> QED
    BY <1>3, <2>1, <2>2 DEF Accept
<1>4. CASE UNCHANGED <<owner, fdOf, hup>>
  BY <1>4 DEF HupHolds, Holds
<1> QED
  BY <1>1, <1>2, <1>3, <1>4, FdSteps

\* A thread moves on its own only once it has been started.
LEMMA ThreadMoves ==
  ASSUME TypeInv, [Next]_vars, NEW d \in Conn, thr[d] = "new"
  PROVE  thr'[d] = "new" \/ (Start /\ d = loop.new /\ thr'[d] = "check")
<1>0. thr \in [Conn -> ThreadPcs]
  BY DEF TypeInv, TypeOK, SockTypeOK
<1>1. CASE UNCHANGED thr
  BY <1>1
<1>2. CASE Start
  BY <1>0, <1>2 DEF Start
<1>3. CASE \E c \in Conn : ThreadNext(c)
  <2>1. PICK c \in Conn : ThreadNext(c)
    BY <1>3
  <2>2. thr[c] # "new"
    BY <2>1 DEF ThreadNext, While, ReadSize, ReadBody, Handle, Respond, After, Catch
  <2> QED
    BY <2>1, <2>2, ThreadOthers
<1>4. UNCHANGED thr \/ Start \/ \E c \in Conn : ThreadNext(c)
  <2>1. CASE LoopTop \/ Accept \/ EvictBegin \/ EvictJoin \/ EvictPop \/ EvictDelete \/ Push
    BY <2>1 DEF LoopTop, Accept, EvictBegin, EvictJoin, EvictPop, EvictDelete, Push, Crash,
                thrVars
  <2>2. CASE MainNext \/ Environment \/ UNCHANGED vars
    BY <2>2 DEF MainNext, StopBegin, StopEach, StopJoin, SetStop, JoinLoop, MainFrame, Crash,
                Environment, vars, thrVars
  <2> QED
    BY <2>1, <2>2 DEF Next, LoopServes
<1> QED
  BY <1>1, <1>2, <1>3, <1>4

LEMMA UnstartedKept ==
  ASSUME TypeInv, Unstarted, [Next]_vars
  PROVE  Unstarted'
<1>0. loop \in [pc : LoopPcs, old : Conn \cup {NoConn}, new : 0 .. MaxConns]
  BY DEF TypeInv, TypeOK, SockTypeOK
<1>1. CASE Accept
  <2>1. loop'.new = loop.new + 1
    BY <1>0, <1>1 DEF Accept
  <2>2. loop'.new \in Conn /\ loop'.new > loop.new
    BY <1>0, <1>1, <2>1, WireAssumption DEF Accept, Conn
  <2>3. thr[loop'.new] = "new" /\ UNCHANGED thr
    BY <1>1, <2>2 DEF Accept, TypeInv, NotYet, thrVars
  <2> QED
    BY <2>3 DEF Unstarted
<1>2. CASE ~Accept
  <2>1. loop'.pc \in Accepted => loop.pc \in Accepted /\ loop'.new = loop.new /\ ~Start
    <3>1. CASE LoopTop \/ EvictBegin \/ EvictJoin \/ EvictPop \/ EvictDelete \/ Push \/ Start
      BY <1>0, <3>1 DEF LoopTop, EvictBegin, EvictJoin, EvictPop, EvictDelete, Push, Start,
                        Crash, LoopGoes, Accepted, Evicting
    <3>2. CASE StopEach
      BY <1>0, <3>2 DEF StopEach, Crash, Start, LoopGoes, MainFrame, thrVars, TypeInv, TypeOK,
                        SockTypeOK, Accepted, Evicting
    <3>3. CASE Elsewhere
      BY <1>0, <3>3, ElsewhereKeeps DEF Start, LoopGoes, Accepted, Evicting
    <3> QED
      BY <1>2, <3>1, <3>2, <3>3, NextCases
  <2> SUFFICES ASSUME loop'.pc \in Accepted PROVE thr'[loop.new] = "new"
    BY <2>1 DEF Unstarted
  <2>2. loop.new \in Conn /\ thr[loop.new] = "new"
    BY <2>1 DEF Unstarted, TypeInv, LoopHasConns
  <2> QED
    BY <2>1, <2>2, ThreadMoves
<1> QED
  BY <1>1, <1>2

\* Before stop() the server's owner takes no step.
LEMMA NoMainStep ==
  ASSUME TypeInv, Unstopped, [Next]_vars, main'.stops = 0
  PROVE  main.stops = 0 /\ ~MainNext
<1>1. main.stops = 0 /\ main.pc = "running"
  BY UnstoppedKept DEF Unstopped
<1>2. main.stops \in Nat /\ (StopBegin => main'.stops = main.stops + 1)
  BY DEF StopBegin, TypeInv, TypeOK, SockTypeOK
<1> QED
  BY <1>1, <1>2 DEF MainNext, StopBegin, StopEach, StopJoin, SetStop, JoinLoop

\* Whatever else happens, a connection's frames and its books stay as they are.
LEMMA OtherClients ==
  ASSUME TypeInv, [Next]_vars, ~MainNext, ~\E c \in Conn : ThreadNext(c),
         ~\E c \in Conn : ClientNext(c) /\ Environment
  PROVE  /\ UNCHANGED <<calls, acked, denied, up, down, executed>>
         /\ \A d \in Conn :
              /\ client'[d] = client[d] \/ (client[d] = "none" /\ client'[d] = "idle")
              /\ hup[d] => hup'[d]
<1>1. CASE LoopTop \/ EvictBegin \/ EvictPop \/ Push \/ Start \/ UNCHANGED vars
  BY <1>1 DEF LoopTop, EvictBegin, EvictPop, Push, Start, Crash, vars, thrVars, wireVars,
              clientVars, fdVars
<1>2. CASE EvictJoin \/ EvictDelete
  BY <1>2 DEF EvictJoin, EvictDelete, CloseFd, Close, thrVars, clientVars
<1>3. CASE Environment
  <2>1. AppOpen \/ AppClose
    BY <1>3 DEF Environment
  <2> QED
    BY <1>3, <2>1 DEF Environment, AppOpen, AppClose, Close, clientVars, thrVars
<1>4. CASE Accept
  <2>1. UNCHANGED executed
    BY <1>4 DEF Accept, thrVars
  <2>2. CASE UNCHANGED wireVars
    BY <2>1, <2>2 DEF wireVars, clientVars, fdVars
  <2>3. CASE AcceptFd(loop.new + 1)
    <3>1. loop.new + 1 \in Conn /\ loop.new + 1 > loop.new
      BY <1>4, WireAssumption DEF Accept, TypeInv, TypeOK, SockTypeOK, Conn
    <3>2. client[loop.new + 1] = "none"
      BY <3>1 DEF TypeInv, NotYet
    <3> QED
      BY <2>1, <2>3, <3>1, <3>2 DEF AcceptFd, TypeInv, TypeOK, WireTypeOK
  <2> QED
    BY <1>4, <2>2, <2>3 DEF Accept
<1> QED
  BY <1>1, <1>2, <1>3, <1>4 DEF Next, LoopServes

LEMMA OtherInOrder ==
  ASSUME TypeInv, Unstarted, CallInv, [Next]_vars, ~MainNext,
         ~\E c \in Conn : ThreadNext(c), ~\E c \in Conn : ClientNext(c) /\ Environment
  PROVE  CallInv'
<1> SUFFICES ASSUME NEW d \in Conn PROVE InOrder(d)'
  BY DEF CallInv
<1>1. InOrder(d)
  BY DEF CallInv
<1>2. /\ UNCHANGED <<calls, acked, denied, up, down, executed>>
      /\ client'[d] = client[d] \/ (client[d] = "none" /\ client'[d] = "idle")
      /\ hup[d] => hup'[d]
  BY OtherClients
<1>3. thr'[d] = thr[d] \/ (thr[d] = "new" /\ thr'[d] = "check")
  <2>1. CASE Start
    <3>1. loop.new \in Conn /\ thr[loop.new] = "new" /\ thr \in [Conn -> ThreadPcs]
      BY <2>1 DEF Start, Unstarted, Accepted, TypeInv, LoopHasConns, TypeOK, SockTypeOK
    <3> QED
      BY <2>1, <3>1 DEF Start
  <2>2. CASE LoopTop \/ Accept \/ EvictBegin \/ EvictJoin \/ EvictPop \/ EvictDelete \/ Push
    BY <2>2 DEF LoopTop, Accept, EvictBegin, EvictJoin, EvictPop, EvictDelete, Push, Crash,
                thrVars
  <2>3. CASE Environment \/ UNCHANGED vars
    BY <2>3 DEF Environment, vars, thrVars
  <2> QED
    BY <2>1, <2>2, <2>3 DEF Next, LoopServes
<1> QED
  BY <1>1, <1>2, <1>3, KeptInOrder

-----------------------------------------------------------------------------
(* The contract *)

LEMMA CallInvKept ==
  ASSUME Sound, ThreadOwnsSocket, CallInv, [Next]_vars, main'.stops = 0
  PROVE  CallInv'
<1>0. TypeInv /\ HupHolds /\ Unstarted /\ main.stops = 0 /\ ~MainNext
  BY NoMainStep DEF Sound, Bounded, PoolInv
<1>1. CASE \E c \in Conn : ThreadNext(c)
  BY <1>1, ThreadInOrder DEF Sound
<1>2. CASE \E c \in Conn : ClientNext(c) /\ Environment
  <2>1. PICK c \in Conn : ClientNext(c) /\ Environment
    BY <1>2
  <2>2. UNCHANGED <<thr, executed>>
    BY <2>1 DEF Environment, thrVars
  <2> QED
    BY <1>0, <2>1, <2>2, QuietHolds, ClientInOrder
<1>3. CASE /\ ~\E c \in Conn : ThreadNext(c)
           /\ ~\E c \in Conn : ClientNext(c) /\ Environment
  BY <1>0, <1>3, OtherInOrder
<1> QED
  BY <1>1, <1>2, <1>3

\* A connection's phase changes only with what it is made of.
LEMMA CallPhaseSame ==
  ASSUME NEW c \in Conn,
         \/ client'[c] = client[c]
         \/ client[c] \in {"none", "idle"} /\ client'[c] \in {"none", "idle"}
         \/ client[c] \in Gone /\ client'[c] \in Gone,
         calls'[c] = calls[c], acked'[c] = acked[c], denied'[c] = denied[c],
         executed'[c] = executed[c]
  PROVE  CallPhase'[c] = CallPhase[c]
<1>1. PICK e : e = executed[c]
  OBVIOUS
<1>2. CallPhase[c] = PhaseOf(c, e)
  BY <1>1 DEF CallPhase, PhaseOf
<1>3. CallPhase'[c] = PhaseOf(c, e)'
  BY <1>1 DEF CallPhase, PhaseOf
<1> QED
  BY <1>2, <1>3, PhaseSame

LEMMA PhaseChange ==
  ASSUME NEW c \in Conn, \A d \in Conn \ {c} : CallPhase'[d] = CallPhase[d]
  PROVE  CallPhase' = [CallPhase EXCEPT ![c] = CallPhase'[c]]
<1>1. DOMAIN CallPhase = Conn /\ DOMAIN CallPhase' = Conn
  BY DEF CallPhase
<1>2. CallPhase = [d \in Conn |-> CallPhase[d]] /\ CallPhase' = [d \in Conn |-> CallPhase'[d]]
  BY DEF CallPhase
<1> HIDE DEF CallPhase
<1> QED
  BY <1>1, <1>2

\* A method that runs is run for a caller that waits for it, or has left.
LEMMA ThreadAllowed ==
  ASSUME TypeInv, CallInv, NEW c \in Conn, ThreadNext(c)
  PROVE  Contract!Execute(c) \/ UNCHANGED Contract!vars
<1>0. /\ client \in [Conn -> ClientStates] /\ acked \in [Conn -> Nat]
      /\ executed \in [Conn -> Nat] /\ UNCHANGED <<calls, acked, denied>>
  BY DEF TypeInv, TypeOK, WireTypeOK, SockTypeOK, ThreadNext, While, ReadSize, ReadBody,
         Handle, Respond, After, Catch, Crash, Write, wireVars, clientVars
<1>1. \A d \in Conn \ {c} : CallPhase'[d] = CallPhase[d]
  BY <1>0, ThreadOthers, CallPhaseSame
<1>2. CASE Handle(c) /\ held[c] = "ok"
  <2>1. /\ executed' = [executed EXCEPT ![c] = @ + 1] /\ UNCHANGED client
        /\ thr[c] = "handle"
    BY <1>2 DEF Handle, wireVars, clientVars
  <2>2. Unexecuted(c) /\ client[c] \in {"waiting"} \cup Gone
    BY <2>1 DEF CallInv, InOrder, Reading, Unexecuted
  <2>3. executed[c] = acked[c] /\ calls[c] > acked[c] + denied[c] /\ executed'[c] # acked[c]
    BY <1>0, <2>1, <2>2 DEF Unexecuted, Outstanding, TypeInv, TypeOK, WireTypeOK
  <2>4. \/ CallPhase[c] = "called" /\ CallPhase'[c] = "executed"
        \/ CallPhase[c] = "abandoned" /\ CallPhase'[c] = "gone"
    BY <1>0, <2>1, <2>2, <2>3 DEF CallPhase, PhaseOf, Gone
  <2>5. CallPhase' = [CallPhase EXCEPT ![c] = CallPhase'[c]]
    BY <1>1, PhaseChange
  <2> QED
    BY <1>0, <2>1, <2>4, <2>5 DEF Contract!Execute, Contract!Moves
<1>3. CASE ~(Handle(c) /\ held[c] = "ok")
  <2>1. UNCHANGED executed
    BY <1>3 DEF ThreadNext, While, ReadSize, ReadBody, Handle, Respond, After, Catch, Crash,
                thrVars
  <2>2. client'[c] = client[c] \/ (client[c] = "closed" /\ client'[c] = "reset")
    BY <1>0 DEF ThreadNext, While, ReadSize, ReadBody, Handle, Respond, After, Catch, Crash,
                Write, wireVars, clientVars
  <2>3. CallPhase'[c] = CallPhase[c]
    BY <1>0, <2>1, <2>2, CallPhaseSame DEF Gone
  <2>4. CallPhase' = CallPhase
    BY <1>1, <2>3 DEF CallPhase
  <2> QED
    BY <1>0, <2>1, <2>4 DEF Contract!vars
<1> QED
  BY <1>2, <1>3

LEMMA ClientMoves ==
  ASSUME TypeInv, CallInv, NEW c \in Conn, Quiet(c), ClientNext(c), UNCHANGED executed
  PROVE  [Contract!Next]_(Contract!vars)
<1>0. WireTypeOK /\ executed[c] \in Nat
  BY DEF TypeInv, TypeOK, SockTypeOK
<1>1. PICK e \in Nat : e = executed[c]
  BY <1>0
<1>2. ClientKnows(c, e)
  <2>1. InOrder(c)
    BY DEF CallInv
  <2>2. client[c] = "waiting" /\ down[c] # <<>> =>
          e = IF Head(down[c]) = "result" THEN acked[c] + 1 ELSE acked[c]
    <3> SUFFICES ASSUME client[c] = "waiting", down[c] # <<>>
                 PROVE  e = IF Head(down[c]) = "result" THEN acked[c] + 1 ELSE acked[c]
      OBVIOUS
    <3>1. CASE Head(down[c]) = "result"
      BY <1>1, <2>1, <3>1 DEF InOrder, Written, ResultFirst
    <3>2. CASE Head(down[c]) # "result"
      <4>1. ~ResultFirst(down[c])
        BY <3>2 DEF ResultFirst
      <4>2. thr[c] # "respond"
        BY <2>1 DEF InOrder, Reading
      <4> QED
        BY <1>1, <2>1, <3>2, <4>1, <4>2 DEF InOrder, Pending
    <3> QED
      BY <3>1, <3>2
  <2>3. client[c] = "waiting" /\ down[c] = <<>> /\ hup[c] => e = acked[c]
    BY <1>1, <2>1, NoFrames DEF InOrder, Pending, Quiet, Active
  <2>4. /\ client[c] \in {"idle", "refused"} =>
             calls[c] = acked[c] + denied[c] /\ e = acked[c]
        /\ client[c] \in {"half", "waiting", "stuck"} => calls[c] = acked[c] + denied[c] + 1
        /\ client[c] = "half" => e = acked[c]
    BY <1>1, <2>1 DEF InOrder, Books, Settled, Outstanding
  <2> QED
    BY <2>2, <2>3, <2>4 DEF ClientKnows
<1>3. ClientAllowed(c, e)
  BY <1>0, <1>2, ClientStep
<1>4. CallPhase[c] = PhaseOf(c, e) /\ CallPhase'[c] = PhaseOf(c, e)'
  <2>1. CallPhase[c] = PhaseOf(c, e)
    BY <1>1 DEF CallPhase, PhaseOf
  <2>2. CallPhase'[c] = PhaseOf(c, e)'
    BY <1>1 DEF CallPhase, PhaseOf
  <2> QED
    BY <2>1, <2>2
<1>5. \A d \in Conn \ {c} : CallPhase'[d] = CallPhase[d]
  BY <1>0, ClientOnly, CallPhaseSame
<1>6. CallPhase' = [CallPhase EXCEPT ![c] = CallPhase'[c]]
  BY <1>5, PhaseChange
<1>7. ASSUME NEW from, NEW to, PhaseMoves(c, e, from, to)
      PROVE  Contract!Moves(c, from, to)
  BY <1>4, <1>6, <1>7 DEF PhaseMoves, Contract!Moves
<1>8. CASE PhaseOf(c, e)' = PhaseOf(c, e) /\ calls' = calls /\ acked' = acked
  <2>1. CallPhase' = CallPhase
    BY <1>4, <1>5, <1>8 DEF CallPhase
  <2> QED
    BY <1>8, <2>1 DEF Contract!vars
<1>9. CASE ~(PhaseOf(c, e)' = PhaseOf(c, e) /\ calls' = calls /\ acked' = acked)
  <2>1. \/ Contract!Begin(c) \/ Contract!Return(c) \/ Contract!Reject(c)
        \/ Contract!GiveUp(c) \/ Contract!Leave(c)
    BY <1>3, <1>7, <1>9 DEF ClientAllowed, Contract!Begin, Contract!Return, Contract!Reject,
                            Contract!GiveUp, Contract!Leave
  <2> QED
    BY <2>1 DEF Contract!Next
<1> QED
  BY <1>8, <1>9

\* Every other step is none for the caller.
LEMMA StepAllowed ==
  ASSUME Sound, ThreadOwnsSocket, CallInv, [Next]_vars, main'.stops = 0
  PROVE  [Contract!Next]_(Contract!vars)
<1>0. TypeInv /\ HupHolds /\ Unstarted /\ main.stops = 0 /\ ~MainNext
  BY NoMainStep DEF Sound, Bounded, PoolInv
<1>1. CASE \E c \in Conn : ThreadNext(c)
  BY <1>0, <1>1, ThreadAllowed DEF Contract!Next
<1>2. CASE \E c \in Conn : ClientNext(c) /\ Environment
  <2>1. PICK c \in Conn : ClientNext(c) /\ Environment
    BY <1>2
  <2>2. UNCHANGED executed
    BY <2>1 DEF Environment, thrVars
  <2> QED
    BY <1>0, <2>1, <2>2, QuietHolds, ClientMoves
<1>3. CASE /\ ~\E c \in Conn : ThreadNext(c)
           /\ ~\E c \in Conn : ClientNext(c) /\ Environment
  <2>1. /\ UNCHANGED <<calls, acked, denied, executed>>
        /\ \A d \in Conn : client'[d] = client[d] \/ (client[d] = "none" /\ client'[d] = "idle")
    BY <1>0, <1>3, OtherClients
  <2>2. \A d \in Conn : CallPhase'[d] = CallPhase[d]
    BY <2>1, CallPhaseSame
  <2>3. CallPhase' = CallPhase
    BY <2>2 DEF CallPhase
  <2> QED
    BY <2>1, <2>3 DEF Contract!vars
<1> QED
  BY <1>1, <1>2, <1>3

-----------------------------------------------------------------------------
(* The theorems *)

LEMMA SoundHolds == Spec => []Sound
<1>1. Init => HupHolds /\ Unstarted
  BY DEF Init, WireInit, HupHolds, Unstarted, Accepted, Evicting
<1>2. Bounded /\ HupHolds /\ Unstarted /\ [Next]_vars => HupHolds' /\ Unstarted'
  BY HupKept, UnstartedKept DEF Bounded
<1>3. Bounded /\ HupHolds /\ Unstarted => Sound
  BY DEF Sound
<1> QED
  BY <1>1, <1>2, <1>3, BoundedHolds, PTL DEF Spec

\* The invariant of the calls holds until stop().
THEOREM CallsInOrder ==
  ASSUME ~AppOpens
  PROVE  Spec => [](main.stops = 0 => CallInv)
<1> DEFINE Unbroken == main.stops = 0 => CallInv
<1>1. Init => Unbroken
  <2> SUFFICES ASSUME Init, NEW c \in Conn PROVE InOrder(c)
    BY DEF CallInv
  <2>1. /\ client[c] = "none" /\ calls[c] = 0 /\ acked[c] = 0 /\ denied[c] = 0
        /\ executed[c] = 0 /\ up[c] = <<>> /\ down[c] = <<>> /\ thr[c] = "new"
    BY DEF Init, WireInit
  <2>2. Books(c) /\ Written(c) /\ Pending(c)
    BY <2>1, NoFrames DEF Books, Written, Pending, Settled, Gone
  <2>3. Reading(c)
    BY <2>1, TakenAll DEF Reading
  <2> QED
    BY <2>2, <2>3 DEF InOrder
<1>2. Sound /\ ThreadOwnsSocket /\ Unbroken /\ [Next]_vars => Unbroken'
  <2> SUFFICES ASSUME Sound, ThreadOwnsSocket, Unbroken, [Next]_vars, main'.stops = 0
               PROVE  CallInv'
    OBVIOUS
  <2>1. main.stops = 0
    BY NoMainStep DEF Sound, Bounded, PoolInv
  <2> QED
    BY <2>1, CallInvKept
<1> HIDE DEF Unbroken
<1>3. Spec => []Unbroken
  BY <1>1, <1>2, SoundHolds, SocketOwned, PTL DEF Spec
<1> QED
  BY <1>3 DEF Unbroken

\* Until stop(), a call the client has given up on has not been executed: for
\* any pool, any number of clients, and whatever they send and whenever they
\* leave.
THEOREM GivenUpUnexecuted ==
  ASSUME ~AppOpens
  PROVE  Spec => [](main.stops = 0 => UnansweredNotExecuted)
<1>1. CallInv => UnansweredNotExecuted
  BY DEF CallInv, InOrder, Books, Settled, UnansweredNotExecuted
<1>2. (main.stops = 0 => CallInv) => (main.stops = 0 => UnansweredNotExecuted)
  BY <1>1
<1> QED
  BY <1>2, CallsInOrder, PTL

\* Until stop() the server keeps CallContract with every client: every step of
\* server, client and process is a step of the contract, or none.
THEOREM ContractKept ==
  ASSUME ~AppOpens
  PROVE  Spec => KeepsContract
<1>1. Init => Contract!Init
  <2> SUFFICES ASSUME Init PROVE Contract!Init
    OBVIOUS
  <2>1. CallPhase = [c \in Conn |-> "free"]
    <3>1. \A c \in Conn : client[c] = "none"
      BY DEF Init, WireInit
    <3>2. \A c \in Conn : PhaseOf(c, executed[c]) = "free"
      BY <3>1, PhaseTable DEF Phased
    <3> QED
      BY <3>2 DEF CallPhase
  <2> QED
    BY <2>1 DEF Contract!Init, Init, WireInit
<1>2. /\ Sound /\ ThreadOwnsSocket /\ [Next]_vars /\ (main.stops = 0 => CallInv)
      => [main'.stops = 0 => Contract!Next]_(Contract!vars)
  <2> SUFFICES ASSUME Sound, ThreadOwnsSocket, [Next]_vars, main.stops = 0 => CallInv,
                      main'.stops = 0
               PROVE  [Contract!Next]_(Contract!vars)
    OBVIOUS
  <2>1. main.stops = 0
    BY NoMainStep DEF Sound, Bounded, PoolInv
  <2> QED
    BY <2>1, StepAllowed
<1> QED
  BY <1>1, <1>2, SoundHolds, SocketOwned, CallsInOrder, PTL DEF Spec, KeepsContract

-----------------------------------------------------------------------------
(* Descriptors enough *)

\* Every connection that was accepted has a descriptor, and every descriptor
\* that is open is the one of a connection of the pool or in hand.
Numbered == \A c \in Conn : c <= loop.new => fdOf[c] \in Fd
PoolOwns == \A f \in Fd : owner[f] # Free => owner[f] \in Pooled /\ fdOf[owner[f]] = f

\* There is a connection to evict.
EvictsOne == loop.pc = "evict" => connections # <<>>

\* With more descriptors than places in the pool, accept() finds one: those
\* that are open belong to different connections of the list.
LEMMA FreeLeft ==
  ASSUME TypeInv, Room, PoolOwns, loop.pc = "accept", MaxFd > PoolSize
  PROVE  FreeFds # {}
<1> SUFFICES ASSUME \A f \in Fd : owner[f] # Free PROVE FALSE
  BY DEF FreeFds
<1>1. connections \in Seq(Conn) /\ owner \in [Fd -> Conn \cup {Free, App}]
  BY DEF TypeInv, TypeOK, WireTypeOK, SockTypeOK
<1>2. Pooled = ToSet(connections)
  BY DEF Pooled, Accepted, Evicting
<1>3. \A f \in Fd : owner[f] \in ToSet(connections) /\ fdOf[owner[f]] = f
  BY <1>2 DEF PoolOwns
<1>4. owner \in Injection(Fd, ToSet(connections))
  BY <1>1, <1>3 DEF Injection, IsInjective
<1>5. /\ IsFiniteSet(ToSet(connections))
      /\ Cardinality(ToSet(connections)) <= Len(connections)
  BY <1>1, ListCardinality
<1>6. Cardinality(Fd) <= Cardinality(ToSet(connections))
  BY <1>4, <1>5, FS_Injection
<1>7. MaxFd \in Nat \ {0} /\ PoolSize \in Nat \ {0}
  BY WireAssumption, SockServerAssumption
<1>8. Cardinality(Fd) = MaxFd
  BY <1>7, FS_Interval DEF Fd
<1>9. Len(connections) \in Nat /\ Len(connections) <= PoolSize
  BY <1>1 DEF Room
<1>10. Cardinality(ToSet(connections)) \in Nat
  BY <1>5, FS_CardinalityType
<1> QED
  BY <1>5, <1>6, <1>7, <1>8, <1>9, <1>10

\* What accept() returns is the lowest free number.
LEMMA AcceptsOne ==
  ASSUME TypeInv, Accept, FreeFds # {}, ~AcceptMayFail
  PROVE  LET c == loop.new + 1 IN
         /\ c \in Conn /\ c > loop.new /\ loop'.new = c /\ loop'.pc \in {"evict", "push"}
         /\ connections' = connections /\ loop.pc = "accept"
         /\ \E f \in Fd : owner' = [owner EXCEPT ![f] = c] /\ fdOf' = [fdOf EXCEPT ![c] = f]
<1>1. loop \in [pc : LoopPcs, old : Conn \cup {NoConn}, new : 0 .. MaxConns]
  BY DEF TypeInv, TypeOK, SockTypeOK
<1>2. \E f \in Fd : /\ owner' = [owner EXCEPT ![f] = loop.new + 1]
                    /\ fdOf' = [fdOf EXCEPT ![loop.new + 1] = f]
  BY DEF Accept, AcceptFd
<1>3. /\ loop.pc = "accept" /\ loop'.new = loop.new + 1 /\ loop'.pc \in {"evict", "push"}
      /\ connections' = connections
  BY <1>1 DEF Accept, poolVars
<1>4. loop.new + 1 \in Conn /\ loop.new + 1 > loop.new
  BY <1>1, WireAssumption DEF Accept, Conn
<1> QED
  BY <1>2, <1>3, <1>4

\* The other steps of the loop thread stay with the connection accepted last.
LEMMA SameNew ==
  ASSUME TypeInv, [Next]_vars, ~Accept, ~MainNext
  PROVE  /\ loop'.new = loop.new
         /\ loop'.pc = "evict" => loop.pc = "evict" /\ connections' = connections
<1>0. loop \in [pc : LoopPcs, old : Conn \cup {NoConn}, new : 0 .. MaxConns]
  BY DEF TypeInv, TypeOK, SockTypeOK
<1>1. CASE LoopTop \/ EvictBegin \/ EvictJoin \/ EvictPop \/ EvictDelete \/ Push \/ Start
  BY <1>0, <1>1 DEF LoopTop, EvictBegin, EvictJoin, EvictPop, EvictDelete, Push, Start, Crash,
                    LoopGoes, poolVars
<1>2. CASE Elsewhere
  BY <1>2, ElsewhereKeeps
<1> QED
  BY <1>1, <1>2, NextCases DEF MainNext

LEMMA NumberedKept ==
  ASSUME TypeInv, Numbered, [Next]_vars, ~MainNext, ~AcceptMayFail,
         loop.pc = "accept" => FreeFds # {}
  PROVE  Numbered'
<1>1. CASE Accept
  <2>1. PICK c \in Conn : c = loop.new + 1 /\ loop'.new = c
    BY <1>1, AcceptsOne DEF Accept
  <2>2. PICK f \in Fd : fdOf' = [fdOf EXCEPT ![c] = f]
    BY <1>1, <2>1, AcceptsOne DEF Accept
  <2>3. fdOf \in [Conn -> Fd \cup {NoFd}] /\ loop.new \in Nat
    BY DEF TypeInv, TypeOK, WireTypeOK, SockTypeOK
  <2>4. \A d \in Conn : d <= loop'.new => d <= loop.new \/ d = c
    BY <2>1, <2>3 DEF Conn
  <2> QED
    BY <2>1, <2>2, <2>3, <2>4 DEF Numbered
<1>2. CASE ~Accept
  <2>1. fdOf' = fdOf
    BY <1>2, FdSteps DEF EvictJoin, EvictDelete, StopJoin, CloseFd, AppOpen, AppClose, MainNext,
                         Crash, wireVars, fdVars
  <2> QED
    BY <1>2, <2>1, SameNew DEF Numbered
<1> QED
  BY <1>1, <1>2

LEMMA EvictsOneKept ==
  ASSUME TypeInv, EvictsOne, [Next]_vars, ~MainNext
  PROVE  EvictsOne'
<1>1. CASE Accept
  <2>1. loop \in [pc : LoopPcs, old : Conn \cup {NoConn}, new : 0 .. MaxConns]
    BY DEF TypeInv, TypeOK, SockTypeOK
  <2>2. loop'.pc = "evict" => Len(connections) >= PoolSize
    BY <1>1, <2>1 DEF Accept
  <2>3. PoolSize > 0 /\ Len(<<>>) = 0 /\ PoolSize \in Nat
    BY SockServerAssumption
  <2>4. connections' = connections
    BY <1>1 DEF Accept, poolVars
  <2> QED
    BY <2>2, <2>3, <2>4 DEF EvictsOne
<1>2. CASE ~Accept
  BY <1>2, SameNew DEF EvictsOne
<1> QED
  BY <1>1, <1>2

\* The pool changes by the connection accepted, which takes the number given
\* out, and by the one evicted, whose number is closed before.
LEMMA PoolOwnsKept ==
  ASSUME TypeInv, ThreadsPooled, PoolOwns, [Next]_vars, ~MainNext, ~AppOpen, ~AppClose,
         ~AcceptMayFail, loop.pc = "accept" => FreeFds # {}
  PROVE  PoolOwns'
<1>0. /\ loop \in [pc : LoopPcs, old : Conn \cup {NoConn}, new : 0 .. MaxConns]
      /\ owner \in [Fd -> Conn \cup {Free, App}] /\ fdOf \in [Conn -> Fd \cup {NoFd}]
      /\ connections \in Seq(Conn)
  BY DEF TypeInv, TypeOK, WireTypeOK, SockTypeOK
<1>1. CASE Accept
  <2>1. PICK c \in Conn : c = loop.new + 1
    BY <1>1, AcceptsOne DEF Accept
  <2>2. /\ c > loop.new /\ loop'.new = c /\ loop'.pc \in {"evict", "push"}
        /\ connections' = connections /\ loop.pc = "accept"
    BY <1>1, <2>1, AcceptsOne DEF Accept
  <2>3. PICK f \in Fd : owner' = [owner EXCEPT ![f] = c] /\ fdOf' = [fdOf EXCEPT ![c] = f]
    BY <1>1, <2>1, AcceptsOne DEF Accept
  <2>4. fdOf[c] = NoFd /\ NoFd \notin Fd
    BY <2>2 DEF TypeInv, NotYet, NoFd, Fd
  <2>5. Pooled' = ToSet(connections) \cup {c} /\ Pooled = ToSet(connections)
    BY <2>2 DEF Pooled, Accepted, Evicting
  <2>6. ASSUME NEW g \in Fd, owner'[g] # Free
        PROVE  owner'[g] \in Pooled' /\ fdOf'[owner'[g]] = g
    <3>1. CASE g = f
      BY <1>0, <2>3, <2>5, <3>1
    <3>2. CASE g # f
      <4>1. PICK d : d = owner[g]
        OBVIOUS
      <4>2. owner'[g] = d /\ d \in Pooled /\ fdOf[d] = g
        BY <1>0, <2>3, <2>6, <3>2, <4>1 DEF PoolOwns
      <4>3. d # c
        BY <2>4, <4>2
      <4> QED
        BY <1>0, <2>3, <2>5, <4>2, <4>3
    <3> QED
      BY <3>1, <3>2
  <2> QED
    BY <2>6 DEF PoolOwns
<1>2. CASE EvictJoin
  <2>1. PICK old \in Conn : old = loop.old
    BY <1>2 DEF EvictJoin, TypeInv, LoopHasConns, Evicting
  <2>2. /\ loop.pc = "evictJoin" /\ loop'.pc = "evictPop" /\ loop'.old = old
        /\ loop'.new = loop.new /\ connections' = connections
        /\ fdOf' = fdOf /\ Close(fdOf[old])
    BY <1>0, <1>2, <2>1 DEF EvictJoin, LoopGoes, CloseFd, poolVars
  <2>3. Pooled \ {old} \subseteq Pooled'
    BY <2>2 DEF Pooled, Accepted, Evicting
  <2>4. \A f \in Fd : owner'[f] = IF f = fdOf[old] THEN Free ELSE owner[f]
    BY <2>2 DEF Close
  <2> QED
    BY <2>2, <2>3, <2>4 DEF PoolOwns
<1>3. CASE EvictDelete
  <2>1. /\ loop.pc = "evictDelete" /\ loop'.pc = "push" /\ loop'.new = loop.new
        /\ connections' = connections /\ fdOf' = fdOf /\ Close(fdOf[loop.old])
    BY <1>0, <1>3 DEF EvictDelete, LoopGoes, CloseFd, poolVars
  <2>2. Pooled' = Pooled
    BY <2>1 DEF Pooled, Accepted, Evicting
  <2> QED
    BY <2>1, <2>2 DEF PoolOwns, Close
<1>4. CASE ~Accept /\ ~EvictJoin /\ ~EvictDelete
  <2>1. UNCHANGED <<owner, fdOf>>
    BY <1>4, FdSteps DEF MainNext
  <2>2. Pooled \subseteq Pooled'
    <3>1. CASE LoopTop \/ Start
      BY <1>0, <3>1 DEF LoopTop, Start, LoopGoes, Pooled, Accepted, Evicting, poolVars
    <3>2. CASE EvictBegin
      BY <1>0, <3>2 DEF EvictBegin, Crash, Pooled, Accepted, Evicting, poolVars
    <3>3. CASE Push
      <4>1. loop.new \in Conn
        BY <3>3 DEF Push, TypeInv, LoopHasConns, Accepted
      <4>2. ToSet(connections') = ToSet(connections) \cup {loop.new}
        BY <1>0, <3>3, <4>1, ListStep DEF Push
      <4> QED
        BY <1>0, <3>3, <4>2 DEF Push, LoopGoes, Pooled, Accepted, Evicting
    <3>4. CASE EvictPop
      <4>1. connections # <<>> /\ loop.old = Head(connections) /\ loop.pc = "evictPop"
        BY <3>4 DEF EvictPop, ThreadsPooled
      <4>2. /\ connections' = Tail(connections) /\ loop'.pc = "evictDelete"
            /\ loop'.new = loop.new
        BY <1>0, <3>4, <4>1 DEF EvictPop, LoopGoes
      <4>3. ToSet(connections) = ToSet(Tail(connections)) \cup {Head(connections)}
        BY <1>0, <4>1, ListStep DEF TypeInv, LoopHasConns, Evicting
      <4> QED
        BY <4>1, <4>2, <4>3 DEF Pooled, Accepted, Evicting
    <3>5. CASE Elsewhere
      BY <3>5, ElsewhereKeeps DEF Pooled
    <3> QED
      BY <1>4, <3>1, <3>2, <3>3, <3>4, <3>5, NextCases DEF MainNext
  <2> QED
    BY <2>1, <2>2 DEF PoolOwns
<1> QED
  BY <1>1, <1>2, <1>3, <1>4

-----------------------------------------------------------------------------
(* Clients that leave *)

\* A thread finds of a client that left between calls the end of the stream, or
\* a size and nothing behind it; it has nothing to write to it.
Left(c) ==
  Serves(c) /\ client[c] \in Gone =>
    /\ client[c] = "closed" /\ thr[c] \notin {"handle", "respond"}
    /\ IF thr[c] = "body" THEN up[c] = <<>> ELSE up[c] = <<>> \/ HalfRequest(up[c])
    /\ thr[c] = "catch" => held[c] = "SOCKET_CLOSED"

\* An error is written to a client that waits for it.
Complains(c) ==
  Serves(c) /\ thr[c] = "catch" /\ held[c] # "SOCKET_CLOSED" =>
    client[c] = "waiting" /\ down[c] = <<>>

\* A client is told that the server closes by a thread that is done.
Dismissed(c) == client[c] = "refused" => thr[c] = "done"

Harmless(c) == Left(c) /\ Complains(c) /\ Dismissed(c)

LEMMA KeptHarmless ==
  ASSUME NEW c \in Conn, Harmless(c),
         \/ client'[c] = client[c]
         \/ client[c] = "none" /\ client'[c] = "idle",
         up'[c] = up[c], down'[c] = down[c], hup[c] => hup'[c],
         \/ thr'[c] = thr[c] /\ held'[c] = held[c]
         \/ /\ thr[c] \in {"new", "check", "recv", "after"} /\ up'[c] = up[c]
            /\ \/ thr'[c] \in {"check", "recv", "done"}
               \/ thr'[c] = "catch" /\ held'[c] = "SOCKET_CLOSED"
  PROVE  Harmless(c)'
<1>1. Serves(c)' => Serves(c)
  BY DEF Serves
<1>2. Left(c)'
  BY <1>1 DEF Harmless, Left, Gone
<1>3. Complains(c)'
  BY <1>1 DEF Harmless, Complains
<1>4. Dismissed(c)'
  BY DEF Harmless, Dismissed
<1> QED
  BY <1>2, <1>3, <1>4 DEF Harmless

\* A thread whose client has not left has its request in hand.
LEMMA InHandWaits ==
  ASSUME NEW c \in Conn, InOrder(c), Left(c), Serves(c), thr[c] \in {"handle", "respond"}
  PROVE  client[c] = "waiting"
BY DEF InOrder, Reading, Unexecuted, Left

LEMMA ReadSizeHarmless ==
  ASSUME TypeInv, NEW c \in Conn, InOrder(c), Harmless(c), ~hup[c], Holds(c), ReadSize(c)
  PROVE  Harmless(c)' /\ crash' = crash
<1>0. /\ up[c] \in Seq(Units) /\ up \in [Conn -> Seq(Units)] /\ thr \in [Conn -> ThreadPcs]
      /\ held \in [Conn -> {"nothing"} \cup RequestKinds \cup ErrorCodes]
      /\ thr[c] = "recv" /\ Serves(c) /\ client[c] # "reset"
      /\ UNCHANGED <<down, client, hup, crash>>
  BY DEF ReadSize, TypeInv, TypeOK, WireTypeOK, SockTypeOK, fdVars, Serves, Harmless, Left, Gone
<1>1. CASE up[c] = <<>>
  <2>1. UNCHANGED up /\ thr'[c] = "catch" /\ held'[c] = "SOCKET_CLOSED"
    BY <1>0, <1>1 DEF ReadSize, ThreadGoes
  <2> QED
    BY <1>0, <2>1, KeptHarmless
<1>2. CASE up[c] # <<>>
  <2>1. /\ up'[c] = Tail(up[c])
        /\ thr'[c] = IF Head(up[c]) = "size" THEN "body" ELSE "catch"
    BY <1>0, <1>2 DEF ReadSize, ThreadGoes
  <2>2. /\ client[c] \in {"half", "waiting"} \cup Gone /\ down[c] = <<>>
        /\ client[c] \in {"half"} \cup Gone => HalfRequest(up[c])
    BY <1>0, <1>2 DEF InOrder, Reading, Unexecuted, Harmless, Left
  <2>3. client[c] \in {"half"} \cup Gone => Head(up[c]) = "size" /\ up'[c] = <<>>
    BY <1>0, <1>2, <2>1, <2>2, TakeOne
  <2>4. Left(c)'
    BY <1>0, <2>1, <2>3 DEF Harmless, Left, Gone
  <2>5. Complains(c)' /\ Dismissed(c)'
    BY <1>0, <2>1, <2>2, <2>3 DEF Complains, Dismissed, Gone
  <2> QED
    BY <1>0, <2>4, <2>5 DEF Harmless
<1> QED
  BY <1>1, <1>2

LEMMA ReadBodyHarmless ==
  ASSUME TypeInv, NEW c \in Conn, InOrder(c), Harmless(c), ~hup[c], Holds(c), ReadBody(c)
  PROVE  Harmless(c)' /\ crash' = crash
<1>1. thr[c] = "body" /\ Serves(c) /\ client[c] # "reset" /\ thr \in [Conn -> ThreadPcs]
  BY DEF ReadBody, Serves, Harmless, Left, Gone, TypeInv, TypeOK, SockTypeOK
<1>2. up[c] # <<>> /\ thr'[c] = "handle" /\ UNCHANGED <<client, crash>>
  BY <1>1 DEF ReadBody, ThreadGoes
<1>3. client[c] = "waiting"
  BY <1>1, <1>2 DEF InOrder, Reading, Unexecuted, Harmless, Left
<1> QED
  BY <1>2, <1>3 DEF Harmless, Left, Complains, Dismissed, Gone

LEMMA HandleHarmless ==
  ASSUME TypeInv, NEW c \in Conn, InOrder(c), Harmless(c), ~hup[c], Handle(c)
  PROVE  Harmless(c)' /\ crash' = crash
<1>1. /\ thr[c] = "handle" /\ Serves(c) /\ thr \in [Conn -> ThreadPcs]
      /\ UNCHANGED <<client, down, crash>>
  BY DEF Handle, Serves, TypeInv, TypeOK, SockTypeOK, wireVars, clientVars
<1>2. client[c] = "waiting" /\ down[c] = <<>>
  BY <1>1, InHandWaits DEF InOrder, Reading, Unexecuted, Harmless
<1>3. thr'[c] \in {"respond", "catch"}
  BY <1>1 DEF Handle, ThreadGoes
<1> QED
  BY <1>1, <1>2, <1>3 DEF Harmless, Left, Complains, Dismissed, Gone

LEMMA RespondHarmless ==
  ASSUME TypeInv, NEW c \in Conn, InOrder(c), Harmless(c), ~hup[c], Holds(c), Respond(c)
  PROVE  Harmless(c)' /\ crash' = crash
<1>1. thr[c] = "respond" /\ Serves(c) /\ thr \in [Conn -> ThreadPcs]
  BY DEF Respond, Serves, TypeInv, TypeOK, SockTypeOK
<1>2. client[c] = "waiting"
  BY <1>1, InHandWaits DEF Harmless
<1>3. thr'[c] = "after" /\ UNCHANGED <<client, crash>>
  BY <1>1, <1>2 DEF Respond, WriteFails, WriteKills, Write, ThreadGoes
<1> QED
  BY <1>2, <1>3 DEF Harmless, Left, Complains, Dismissed, Gone

LEMMA CatchHarmless ==
  ASSUME TypeInv, NEW c \in Conn, Harmless(c), ~hup[c], Holds(c), Catch(c)
  PROVE  Harmless(c)' /\ crash' = crash
<1>1. thr[c] = "catch" /\ Serves(c) /\ thr \in [Conn -> ThreadPcs]
  BY DEF Catch, Serves, TypeInv, TypeOK, SockTypeOK
<1>2. client[c] # "reset"
  BY <1>1 DEF Harmless, Left, Gone
<1>3. thr'[c] = "done" /\ UNCHANGED crash
  BY <1>1, <1>2 DEF Catch, WriteFails, WriteKills, ThreadGoes
<1> QED
  BY <1>3 DEF Harmless, Left, Complains, Dismissed, Serves

\* No step of a thread is the last one of the process.
LEMMA ThreadHarmless ==
  ASSUME TypeInv, HupHolds, NEW c \in Conn, InOrder(c), Harmless(c),
         Active(c) => Holds(c), ThreadNext(c)
  PROVE  Harmless(c)' /\ crash' = crash
<1>1. Holds(c)
  BY DEF ThreadNext, While, ReadSize, ReadBody, Handle, Respond, After, Catch, Active
<1>2. ~hup[c]
  BY <1>1, HeldOpen
<1>3. CASE While(c) \/ After(c)
  <2>1. /\ UNCHANGED <<client, up, down, hup, crash>> /\ thr[c] \in {"check", "after"}
        /\ \/ thr'[c] \in {"check", "recv", "done"}
           \/ thr'[c] = "catch" /\ held'[c] = "SOCKET_CLOSED"
    BY <1>3 DEF While, After, ThreadGoes, wireVars, clientVars, fdVars, TypeInv, TypeOK,
                SockTypeOK
  <2> QED
    BY <2>1, KeptHarmless
<1>4. CASE ReadSize(c) \/ ReadBody(c)
  BY <1>1, <1>2, <1>4, ReadSizeHarmless, ReadBodyHarmless
<1>5. CASE Handle(c) \/ Respond(c) \/ Catch(c)
  BY <1>1, <1>2, <1>5, HandleHarmless, RespondHarmless, CatchHarmless
<1> QED
  BY <1>3, <1>4, <1>5 DEF ThreadNext

\* A thread leaves what the others hold.
LEMMA OthersHold ==
  ASSUME TypeInv, NEW c \in Conn, ThreadNext(c), NEW d \in Conn, d # c
  PROVE  held'[d] = held[d]
<1>1. held \in [Conn -> {"nothing"} \cup RequestKinds \cup ErrorCodes]
  BY DEF TypeInv, TypeOK, SockTypeOK
<1> QED
  BY <1>1 DEF ThreadNext, While, ReadSize, ReadBody, Handle, Respond, After, Catch, ThreadGoes,
              Crash, thrVars

\* Closing its end, the client leaves no frame unread behind it, and its thread
\* nothing but the end to read.
LEMMA CloseHarmless ==
  ASSUME TypeInv, NEW c \in Conn, InOrder(c), Harmless(c), "waiting" \notin ClosePoints,
         ClientClose(c), UNCHANGED <<thr, held>>
  PROVE  Harmless(c)'
<1>0. /\ client \in [Conn -> ClientStates] /\ down[c] \in Seq(Frames)
      /\ client[c] \in {"idle", "half", "stuck", "refused"} /\ UNCHANGED <<up, hup>>
      /\ client'[c] = IF down[c] = <<>> THEN "closed" ELSE "reset"
  BY WireAssumption DEF ClientClose, TypeInv, TypeOK, WireTypeOK, fdVars
<1>1. Dismissed(c)'
  BY <1>0 DEF Dismissed
<1>2. CASE ~Serves(c)
  BY <1>0, <1>1, <1>2 DEF Harmless, Left, Complains, Serves
<1>3. CASE Serves(c)
  <2>1. client[c] \in {"idle", "half"}
    BY <1>0, <1>3 DEF InOrder, Written, Harmless, Dismissed, Serves
  <2>2. down[c] = <<>>
    <3>1. OnlyResults(down[c]) /\ NoneBehind(down[c])
      BY <1>3 DEF InOrder, Written, Serves
    <3>2. ~ResultFirst(down[c])
      BY <1>0 DEF InOrder, Written
    <3> QED
      BY <1>0, <3>1, <3>2, TakeFrame DEF ResultFirst
  <2>3. thr[c] \notin {"handle", "respond"}
    BY <1>0, <2>1 DEF InOrder, Reading, Unexecuted, Gone
  <2>4. IF thr[c] = "body" THEN up[c] = <<>> ELSE up[c] = <<>> \/ HalfRequest(up[c])
    BY <1>0, <1>3, <2>1 DEF InOrder, Reading, Unexecuted, Gone
  <2>5. thr[c] = "catch" => held[c] = "SOCKET_CLOSED"
    BY <1>0, <1>3 DEF Harmless, Complains
  <2> QED
    BY <1>0, <1>1, <2>2, <2>3, <2>4, <2>5 DEF Harmless, Left, Complains
<1> QED
  BY <1>2, <1>3

LEMMA RecvHarmless ==
  ASSUME TypeInv, NEW c \in Conn, InOrder(c), Harmless(c), ClientRecv(c), UNCHANGED <<thr, held>>
  PROVE  Harmless(c)'
<1>1. /\ client \in [Conn -> ClientStates] /\ down[c] \in Seq(Frames) /\ down[c] # <<>>
      /\ UNCHANGED hup
      /\ client'[c] = IF Head(down[c]) = "SOCKET_CLOSED" THEN "refused" ELSE "idle"
  BY DEF ClientRecv, TypeInv, TypeOK, WireTypeOK, fdVars
<1>2. NoneBehind(down[c]) /\ (OnlyResults(down[c]) \/ thr[c] = "done")
  BY DEF InOrder, Written
<1>3. OnlyResults(down[c]) => Head(down[c]) = "result"
  BY <1>1, <1>2, TakeFrame
<1>4. Dismissed(c)'
  BY <1>1, <1>2, <1>3 DEF Dismissed
<1>5. Complains(c)' /\ Left(c)'
  BY <1>1 DEF Harmless, Complains, Left, Serves, Gone
<1> QED
  BY <1>4, <1>5 DEF Harmless

LEMMA TooMuchHarmless ==
  ASSUME TypeInv, NEW c \in Conn, InOrder(c), ClientRecvTooMuch(c), UNCHANGED <<thr, held>>
  PROVE  Harmless(c)'
<1>1. thr'[c] = "done" /\ client'[c] = "stuck"
  BY TooMuchIsLast DEF ClientRecvTooMuch, TypeInv, TypeOK, WireTypeOK
<1> QED
  BY <1>1 DEF Harmless, Left, Complains, Dismissed, Serves

LEMMA ClientHarmless ==
  ASSUME TypeInv, NEW c \in Conn, InOrder(c), Harmless(c), "waiting" \notin ClosePoints,
         ClientNext(c), UNCHANGED <<thr, held>>
  PROVE  Harmless(c)'
<1>0. client \in [Conn -> ClientStates]
  BY DEF TypeInv, TypeOK, WireTypeOK
<1>1. CASE ClientSend(c) \/ ClientSendRest(c)
  <2>1. client[c] \in {"idle", "half"} /\ client'[c] \in {"half", "waiting"} /\ UNCHANGED hup
    BY <1>0, <1>1 DEF ClientSend, ClientSendRest, fdVars
  <2> QED
    BY <2>1 DEF Harmless, Left, Complains, Dismissed, Serves, Gone
<1>2. CASE ClientSendFails(c) \/ ClientRecvFails(c)
  <2>1. client'[c] = "failed" /\ hup[c] /\ UNCHANGED hup
    BY <1>0, <1>2 DEF ClientSendFails, ClientRecvFails, fdVars
  <2> QED
    BY <2>1 DEF Harmless, Left, Complains, Dismissed, Serves, Gone
<1>3. CASE ClientRecv(c) \/ ClientRecvTooMuch(c) \/ ClientClose(c)
  BY <1>3, RecvHarmless, TooMuchHarmless, CloseHarmless
<1> QED
  BY <1>1, <1>2, <1>3 DEF ClientNext, ClientReads

\* The steps of the loop thread find what they take for granted.
LEMMA LoopSurvives ==
  ASSUME TypeInv, Unstarted, ThreadsPooled, EvictsOne, Unstopped, main.stops = 0,
         [Next]_vars, ~MainNext,
         ~\E c \in Conn : ThreadNext(c), ~\E c \in Conn : ClientNext(c) /\ Environment
  PROVE  /\ crash' = crash /\ held' = held
         /\ \A d \in Conn : thr'[d] = thr[d] \/ (thr[d] = "new" /\ thr'[d] = "check")
<1>1. CASE EvictBegin
  BY <1>1 DEF EvictBegin, EvictsOne, Unstopped, thrVars
<1>2. CASE EvictPop
  BY <1>2 DEF EvictPop, ThreadsPooled, thrVars
<1>3. CASE Start
  <2>1. loop.new \in Conn /\ thr[loop.new] = "new" /\ thr \in [Conn -> ThreadPcs]
    BY <1>3 DEF Start, Unstarted, Accepted, TypeInv, LoopHasConns, TypeOK, SockTypeOK
  <2> QED
    BY <1>3, <2>1 DEF Start
<1>4. CASE LoopTop \/ Accept \/ EvictJoin \/ EvictDelete \/ Push
  BY <1>4 DEF LoopTop, Accept, EvictJoin, EvictDelete, Push, thrVars
<1>5. CASE Environment \/ UNCHANGED vars
  BY <1>5 DEF Environment, vars, thrVars
<1> QED
  BY <1>1, <1>2, <1>3, <1>4, <1>5 DEF Next, LoopServes

-----------------------------------------------------------------------------
(* The server survives *)

Survives ==
  /\ NoCrash /\ Numbered /\ PoolOwns /\ EvictsOne
  /\ \A c \in Conn : Harmless(c)

LEMMA ClientsHarmless ==
  ASSUME Sound, ThreadOwnsSocket, CallInv, Survives, [Next]_vars, main.stops = 0, ~MainNext,
         "waiting" \notin ClosePoints
  PROVE  NoCrash' /\ \A d \in Conn : Harmless(d)'
<1>0. TypeInv /\ HupHolds /\ Unstarted /\ ThreadsPooled /\ Unstopped
  BY DEF Sound, Bounded, PoolInv
<1>a. 1 \in Conn
  BY WireAssumption DEF Conn
<1> SUFFICES ASSUME NEW d \in Conn PROVE crash' = crash /\ Harmless(d)'
  BY <1>a DEF Survives, NoCrash
<1>1. InOrder(d) /\ Harmless(d) /\ EvictsOne
  BY DEF CallInv, Survives
<1>2. CASE \E c \in Conn : ThreadNext(c)
  <2>1. PICK c \in Conn : ThreadNext(c)
    BY <1>2
  <2>2. Active(c) => Holds(c)
    <3>1. c <= loop.new \/ thr[c] = "new"
      <4>1. loop.new \in Nat /\ c \in Nat
        BY <1>0 DEF TypeInv, TypeOK, SockTypeOK, Conn
      <4> QED
        BY <1>0, <4>1 DEF TypeInv, NotYet
    <3>2. NoFd \notin Fd
      BY DEF NoFd, Fd
    <3> QED
      BY <3>1, <3>2 DEF Survives, Numbered, ThreadOwnsSocket, Active
  <2>3. InOrder(c) /\ Harmless(c)
    BY DEF CallInv, Survives
  <2>4. Harmless(c)' /\ crash' = crash
    BY <1>0, <2>1, <2>2, <2>3, ThreadHarmless
  <2>5. d # c => Harmless(d)'
    BY <1>0, <1>1, <2>1, ThreadOthers, OthersHold, KeptHarmless
  <2> QED
    BY <2>4, <2>5
<1>3. CASE \E c \in Conn : ClientNext(c) /\ Environment
  <2>1. PICK c \in Conn : ClientNext(c) /\ Environment
    BY <1>3
  <2>2. UNCHANGED <<thr, held, crash>>
    BY <2>1 DEF Environment, thrVars
  <2>3. d = c => Harmless(d)'
    BY <1>0, <1>1, <2>1, <2>2, ClientHarmless
  <2>4. d # c => Harmless(d)'
    <3>1. WireTypeOK
      BY <1>0 DEF TypeInv, TypeOK
    <3> QED
      BY <1>1, <2>1, <2>2, <3>1, ClientOnly, KeptHarmless
  <2> QED
    BY <2>2, <2>3, <2>4
<1>4. CASE /\ ~\E c \in Conn : ThreadNext(c)
           /\ ~\E c \in Conn : ClientNext(c) /\ Environment
  <2>1. /\ crash' = crash /\ held' = held
        /\ thr'[d] = thr[d] \/ (thr[d] = "new" /\ thr'[d] = "check")
    BY <1>0, <1>1, <1>4, LoopSurvives
  <2>2. /\ up'[d] = up[d] /\ down'[d] = down[d] /\ (hup[d] => hup'[d])
        /\ client'[d] = client[d] \/ (client[d] = "none" /\ client'[d] = "idle")
    BY <1>0, <1>4, OtherClients
  <2>3. \/ thr'[d] = thr[d] /\ held'[d] = held[d]
        \/ thr[d] = "new" /\ thr'[d] = "check"
    BY <2>1
  <2>4. Harmless(d)'
    BY <1>1, <2>2, <2>3, KeptHarmless
  <2> QED
    BY <2>1, <2>4
<1> QED
  BY <1>2, <1>3, <1>4

\* Until stop(), in a process that opens no descriptors besides and may have more
\* open than the pool takes, where accept() fails only for want of one, clients
\* that never leave while they wait for a reply cannot bring the server down: no
\* write to a closed socket, no size of -1, no front() of an empty list, no
\* second join, whatever they send, wherever else they leave, and however their
\* leaving meets an eviction.
THEOREM NeverCrashes ==
  ASSUME ~AppOpens, ~AcceptMayFail, "waiting" \notin ClosePoints, MaxFd > PoolSize
  PROVE  Spec => [](main.stops = 0 => NoCrash)
<1> DEFINE Unharmed == main.stops = 0 => Survives
           Calls == main.stops = 0 => CallInv
           NoApp == appFd = NoFd
<1>1. Init => Unharmed /\ NoApp
  <2> SUFFICES ASSUME Init PROVE Survives /\ NoApp
    OBVIOUS
  <2>1. NoCrash /\ EvictsOne /\ PoolOwns /\ NoApp
    BY DEF Init, WireInit, NoCrash, EvictsOne, PoolOwns
  <2>2. Numbered
    BY DEF Init, Numbered, Conn
  <2>3. \A c \in Conn : Harmless(c)
    BY DEF Init, WireInit, Harmless, Left, Complains, Dismissed, Gone
  <2> QED
    BY <2>1, <2>2, <2>3 DEF Survives
<1>2. Sound /\ ThreadOwnsSocket /\ Calls /\ NoApp /\ Unharmed /\ [Next]_vars
        => Unharmed' /\ NoApp'
  <2> SUFFICES ASSUME Sound, ThreadOwnsSocket, Calls, NoApp, Unharmed, [Next]_vars
               PROVE  Unharmed' /\ NoApp'
    OBVIOUS
  <2>1. NoApp' /\ ~AppOpen /\ ~AppClose
    BY AppNever
  <2>2. ASSUME main'.stops = 0 PROVE Survives'
    <3>1. TypeInv /\ Room /\ Unstopped /\ main.stops = 0 /\ ~MainNext
      BY <2>2, NoMainStep DEF Sound, Bounded, PoolInv
    <3>2. ThreadsPooled /\ CallInv /\ Survives
      BY <3>1 DEF Sound, Bounded, PoolInv
    <3>3. loop.pc = "accept" => FreeFds # {}
      BY <3>1, <3>2, FreeLeft DEF Survives
    <3>4. Numbered' /\ PoolOwns' /\ EvictsOne'
      BY <2>1, <3>1, <3>2, <3>3, NumberedKept, PoolOwnsKept, EvictsOneKept DEF Survives
    <3>5. NoCrash' /\ \A d \in Conn : Harmless(d)'
      BY <3>1, <3>2, ClientsHarmless
    <3> QED
      BY <3>4, <3>5 DEF Survives
  <2> QED
    BY <2>1, <2>2
<1>3. Unharmed => (main.stops = 0 => NoCrash)
  BY DEF Survives
<1> HIDE DEF Unharmed, NoApp
<1>4. Spec => []Calls
  BY CallsInOrder
<1> HIDE DEF Calls
<1> QED
  BY <1>1, <1>2, <1>3, <1>4, SoundHolds, SocketOwned, PTL DEF Spec
=============================================================================
