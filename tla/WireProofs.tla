------------------------------- MODULE WireProofs -------------------------------
(***************************************************************************)
(* What every step of the wire preserves, whichever server is on it: the   *)
(* types, and the meaning of the descriptors.                              *)
(***************************************************************************)
EXTENDS Wire, TLAPS

-----------------------------------------------------------------------------
(* Types *)

\* A frame or a unit can be added to a stream and taken from its front.
LEMMA StreamStep ==
  ASSUME NEW S, NEW s \in Seq(S), NEW e \in S
  PROVE  /\ Append(s, e) \in Seq(S)
         /\ s # <<>> => Tail(s) \in Seq(S) /\ Head(s) \in S
OBVIOUS

\* At the start of either server the wire has its type.
LEMMA WireInitType == WireInit => WireTypeOK
BY DEF WireInit, WireTypeOK, Conn, Fd, Free, NoFd, ClientStates

LEMMA AcceptFdType ==
  ASSUME WireTypeOK, NEW c \in Conn, AcceptFd(c)
  PROVE  WireTypeOK'
BY DEF AcceptFd, WireTypeOK, ClientStates

LEMMA CloseFdType ==
  ASSUME WireTypeOK, NEW c \in Conn, CloseFd(c), UNCHANGED clientVars
  PROVE  WireTypeOK'
BY DEF CloseFd, Close, WireTypeOK, clientVars

LEMMA WriteType ==
  ASSUME WireTypeOK, NEW c \in Conn, NEW frame \in Frames, Write(c, frame),
         UNCHANGED fdVars
  PROVE  WireTypeOK'
<1>1. down[c] \in Seq(Frames)
  BY DEF WireTypeOK
<1>2. Append(down[c], frame) \in Seq(Frames)
  BY <1>1
<1>3. down' \in [Conn -> Seq(Frames)]
  BY <1>2 DEF Write, WireTypeOK
<1> QED
  BY <1>3 DEF Write, WireTypeOK, ClientStates, fdVars

LEMMA AppType ==
  ASSUME WireTypeOK, AppOpen \/ AppClose
  PROVE  WireTypeOK'
BY DEF AppOpen, AppClose, Close, WireTypeOK, clientVars

LEMMA ClientNextType ==
  ASSUME WireTypeOK, NEW c \in Conn, ClientNext(c)
  PROVE  WireTypeOK'
<1>0. <<>> \in Seq(Frames)
  <2>1. \A S : <<>> \in Seq(S)
    OBVIOUS
  <2> QED
    BY <2>1
<1>1. CASE ClientSend(c)
  <2>1. up' \in [Conn -> Seq(Units)]
    <3>1. up[c] \in Seq(Units)
      BY DEF WireTypeOK
    <3>2. ASSUME NEW k \in Kinds
          PROVE  up[c] \o (IF k = "badsize" THEN <<k>> ELSE <<"size", k>>)
                   \in Seq(Units)
      <4>1. k \in Units /\ "size" \in Units
        BY WireAssumption DEF Units
      <4>2. <<k>> \in Seq(Units) /\ <<"size", k>> \in Seq(Units)
        BY <4>1
      <4> QED
        BY <3>1, <4>2
    <3>3. Append(up[c], "size") \in Seq(Units)
      BY <3>1 DEF Units
    <3>4. \/ \E k \in Kinds :
               up' = [up EXCEPT ![c] =
                        up[c] \o (IF k = "badsize" THEN <<k>> ELSE <<"size", k>>)]
          \/ up' = [up EXCEPT ![c] = Append(up[c], "size")]
      BY <1>1 DEF ClientSend
    <3>5. \E s \in Seq(Units) : up' = [up EXCEPT ![c] = s]
      BY <3>2, <3>3, <3>4
    <3> QED
      BY <3>5 DEF WireTypeOK
  <2>2. calls' \in [Conn -> Nat]
    <3>1. calls' = [calls EXCEPT ![c] = @ + 1]
      BY <1>1 DEF ClientSend
    <3> QED
      BY <3>1 DEF WireTypeOK
  <2>3. client' \in [Conn -> ClientStates]
    <3>1. \E s \in {"waiting", "half"} : client' = [client EXCEPT ![c] = s]
      BY <1>1 DEF ClientSend
    <3> QED
      BY <3>1 DEF WireTypeOK, ClientStates
  <2>4. UNCHANGED <<owner, fdOf, appFd, hup, down, acked, denied>>
    BY <1>1 DEF ClientSend, fdVars
  <2> QED
    BY <2>1, <2>2, <2>3, <2>4 DEF WireTypeOK
<1>2. CASE ClientSendRest(c)
  <2>1. up' \in [Conn -> Seq(Units)]
    BY <1>2, WireAssumption DEF ClientSendRest, WireTypeOK, Units
  <2> QED
    BY <1>2, <2>1 DEF ClientSendRest, WireTypeOK, ClientStates, fdVars
<1>3. CASE ClientSendFails(c)
  BY <1>3 DEF ClientSendFails, WireTypeOK, ClientStates, fdVars
<1>4. CASE ClientRecv(c)
  <2>1. down' \in [Conn -> Seq(Frames)]
    BY <1>4, StreamStep DEF ClientRecv, WireTypeOK
  <2>2. client' \in [Conn -> ClientStates]
    <3>1. \E s \in {"refused", "idle"} : client' = [client EXCEPT ![c] = s]
      BY <1>4 DEF ClientRecv
    <3> QED
      BY <3>1 DEF WireTypeOK, ClientStates
  <2>3. acked' \in [Conn -> Nat]
    <3>1. \E n \in {acked[c], acked[c] + 1} : acked' = [acked EXCEPT ![c] = n]
      BY <1>4 DEF ClientRecv
    <3> QED
      BY <3>1 DEF WireTypeOK
  <2>4. denied' \in [Conn -> Nat]
    <3>1. \E n \in {denied[c], denied[c] + 1} : denied' = [denied EXCEPT ![c] = n]
      BY <1>4 DEF ClientRecv
    <3> QED
      BY <3>1 DEF WireTypeOK
  <2>5. UNCHANGED <<owner, fdOf, appFd, hup, up, calls>>
    BY <1>4 DEF ClientRecv, fdVars
  <2> QED
    BY <2>1, <2>2, <2>3, <2>4, <2>5 DEF WireTypeOK
<1>5. CASE ClientRecvFails(c)
  BY <1>5 DEF ClientRecvFails, WireTypeOK, ClientStates, fdVars
<1>6. CASE ClientClose(c)
  <2>1. down' \in [Conn -> Seq(Frames)]
    BY <1>0, <1>6 DEF ClientClose, WireTypeOK
  <2>2. client' \in [Conn -> ClientStates]
    BY <1>6 DEF ClientClose, WireTypeOK, ClientStates
  <2> QED
    BY <1>6, <2>1, <2>2 DEF ClientClose, WireTypeOK, fdVars
<1>7. CASE ClientRecvTooMuch(c)
  <2>1. down' \in [Conn -> Seq(Frames)]
    BY <1>0, <1>7 DEF ClientRecvTooMuch, WireTypeOK
  <2>2. client' \in [Conn -> ClientStates]
    BY <1>7 DEF ClientRecvTooMuch, WireTypeOK, ClientStates
  <2> QED
    BY <1>7, <2>1, <2>2 DEF ClientRecvTooMuch, WireTypeOK, fdVars
<1> QED
  BY <1>1, <1>2, <1>3, <1>4, <1>5, <1>6, <1>7 DEF ClientNext, ClientReads

LEMMA WireSame ==
  ASSUME WireTypeOK, UNCHANGED wireVars
  PROVE  WireTypeOK'
BY DEF WireTypeOK, wireVars, clientVars, fdVars

-----------------------------------------------------------------------------
(* Streams of requests *)

\* A stream of requests, from where its reader stands: no two sizes follow
\* each other, a reader that has taken a size finds the rest of the message,
\* and only a client that is sending leaves a size at the end.
Framed(s, inBody, whole) ==
  /\ \A i \in 1 .. Len(s) - 1 : s[i] = "size" => s[i + 1] # "size"
  /\ inBody /\ s # <<>> => s[1] # "size"
  /\ whole => /\ inBody => s # <<>>
              /\ s # <<>> => s[Len(s)] # "size"

Whole == {"none", "idle", "waiting"}

\* The client begins a request: the whole of it, or its size only.
LEMMA FramedSend ==
  ASSUME NEW s \in Seq(Units), NEW inBody \in BOOLEAN, Framed(s, inBody, TRUE)
  PROVE  /\ \A k \in RequestKinds :
              /\ Framed(s \o <<k>>, inBody, TRUE)
              /\ Framed(s \o <<"size", k>>, inBody, TRUE)
         /\ Framed(Append(s, "size"), inBody, FALSE)
<1>1. \A k \in RequestKinds : k # "size"
  BY DEF RequestKinds
<1> QED
  BY <1>1 DEF Framed, Units

\* The client sends the rest.
LEMMA FramedRest ==
  ASSUME NEW s \in Seq(Units), NEW inBody \in BOOLEAN, Framed(s, inBody, FALSE),
         NEW k \in RequestKinds
  PROVE  Framed(Append(s, k), inBody, TRUE)
<1>1. k # "size"
  BY DEF RequestKinds
<1> QED
  BY <1>1 DEF Framed, Units

\* The server takes a unit: it is in the body of a message if that was a size.
LEMMA FramedTake ==
  ASSUME NEW s \in Seq(Units), s # <<>>, NEW inBody \in BOOLEAN,
         NEW whole \in BOOLEAN, Framed(s, inBody, whole)
  PROVE  /\ Framed(Tail(s), FALSE, whole)
         /\ Head(s) = "size" => Framed(Tail(s), TRUE, whole)
<1>1. /\ Len(s) \in Nat \ {0} /\ Head(s) = s[1]
      /\ Tail(s) \in Seq(Units) /\ Len(Tail(s)) = Len(s) - 1
      /\ \A i \in 1 .. Len(Tail(s)) : Tail(s)[i] = s[i + 1]
  OBVIOUS
<1>2. Tail(s) = <<>> <=> Len(s) = 1
  BY <1>1
<1>3. \A i \in 1 .. Len(Tail(s)) - 1 :
        Tail(s)[i] = "size" => Tail(s)[i + 1] # "size"
  BY <1>1 DEF Framed
<1>4. Tail(s) # <<>> /\ whole => Tail(s)[Len(Tail(s))] # "size"
  BY <1>1, <1>2 DEF Framed
<1>5. Head(s) = "size" /\ Tail(s) # <<>> => Tail(s)[1] # "size"
  BY <1>1, <1>2 DEF Framed
<1>6. Head(s) = "size" /\ whole => Tail(s) # <<>>
  BY <1>1, <1>2 DEF Framed
<1> QED
  BY <1>3, <1>4, <1>5, <1>6 DEF Framed

\* Being less sure where the reader and the client stand breaks nothing.
LEMMA FramedLess ==
  ASSUME NEW s, NEW a \in BOOLEAN, NEW w \in BOOLEAN, Framed(s, a, w),
         NEW b \in BOOLEAN, NEW v \in BOOLEAN, b => a, v => w
  PROVE  Framed(s, b, v)
BY DEF Framed

\* Only the client whose step it is moves, one that has been accepted, and it
\* touches no descriptor.
LEMMA ClientPresent ==
  ASSUME NEW c \in Conn, ClientNext(c)
  PROVE  client[c] # "none" /\ UNCHANGED fdVars
<1>1. \A s \in ClosePoints \cup {"refused"} : s # "none"
  BY WireAssumption
<1> QED
  BY <1>1 DEF ClientNext, ClientReads, ClientSend, ClientSendRest, ClientSendFails, ClientRecv,
              ClientRecvTooMuch, ClientRecvFails, ClientClose

LEMMA ClientOnly ==
  ASSUME WireTypeOK, NEW c \in Conn, ClientNext(c), NEW d \in Conn, d # c
  PROVE  /\ client'[d] = client[d] /\ calls'[d] = calls[d] /\ acked'[d] = acked[d]
         /\ denied'[d] = denied[d] /\ up'[d] = up[d] /\ down'[d] = down[d]
         /\ hup'[d] = hup[d]
BY DEF ClientNext, ClientReads, ClientSend, ClientSendRest, ClientSendFails, ClientRecv,
       ClientRecvTooMuch, ClientRecvFails, ClientClose, WireTypeOK, fdVars

\* Wherever the reader of a connection stands, its client leaves the stream
\* framed, and the streams of the others alone.
LEMMA ClientFramed ==
  ASSUME WireTypeOK, NEW c \in Conn, ClientNext(c), NEW d \in Conn, NEW inBody \in BOOLEAN,
         Framed(up[d], inBody, client[d] \in Whole)
  PROVE  Framed(up'[d], inBody, client'[d] \in Whole)
<1>0. CASE d # c
  BY <1>0, ClientOnly
<1>1. /\ up[c] \in Seq(Units) /\ client \in [Conn -> ClientStates]
      /\ up \in [Conn -> Seq(Units)]
  BY DEF WireTypeOK
<1>2. \A k \in Kinds : k \in RequestKinds
  BY WireAssumption
<1>3. CASE d = c /\ ClientSend(c)
  <2>1. client[c] \in Whole
    BY <1>3 DEF ClientSend, Whole
  <2>2. Framed(up[c], inBody, TRUE)
    BY <1>3, <2>1 DEF Framed
  <2>3. /\ \A k \in Kinds : Framed(up[c] \o (IF k = "badsize" THEN <<k>>
                                               ELSE <<"size", k>>), inBody, TRUE)
        /\ Framed(Append(up[c], "size"), inBody, FALSE)
    BY <1>1, <1>2, <2>2, FramedSend
  <2>4. \/ /\ client'[c] = "waiting"
           /\ \E k \in Kinds : up'[c] = up[c] \o (IF k = "badsize" THEN <<k>>
                                                    ELSE <<"size", k>>)
        \/ client'[c] = "half" /\ up'[c] = Append(up[c], "size")
    BY <1>1, <1>3 DEF ClientSend
  <2>5. \E s \in BOOLEAN : Framed(up'[c], inBody, s) /\ (client'[c] \in Whole => s)
    BY <2>3, <2>4 DEF Whole
  <2> QED
    BY <1>3, <2>5 DEF Framed
<1>4. CASE d = c /\ ClientSendRest(c)
  <2>1. Framed(up[c], inBody, FALSE)
    BY <1>4 DEF Framed
  <2>2. PICK k \in RequestKinds : up' = [up EXCEPT ![c] = Append(@, k)]
    BY <1>2, <1>4 DEF ClientSendRest
  <2>3. up'[c] = Append(up[c], k)
    BY <1>1, <2>2
  <2>4. Framed(up'[c], inBody, TRUE)
    BY <1>1, <2>1, <2>3, FramedRest
  <2> QED
    BY <1>4, <2>4 DEF Framed
<1>5. CASE d = c /\ ClientRecv(c)
  <2>1. up' = up /\ client[c] \in Whole
    BY <1>5 DEF ClientRecv, Whole
  <2> QED
    BY <1>5, <2>1 DEF Framed
<1>6. CASE /\ d = c
           /\ \/ ClientSendFails(c) \/ ClientRecvTooMuch(c) \/ ClientRecvFails(c)
              \/ ClientClose(c)
  <2>1. up' = up /\ client'[c] \notin Whole
    BY <1>1, <1>6 DEF ClientSendFails, ClientRecvTooMuch, ClientRecvFails, ClientClose, Whole
  <2> QED
    BY <1>6, <2>1 DEF Framed
<1> QED
  BY <1>0, <1>3, <1>4, <1>5, <1>6 DEF ClientNext, ClientReads

-----------------------------------------------------------------------------
(* One request at a time *)

\* A request on its way, or what is there of it; of one half sent its size is
\* there; behind a size there is at most the rest.
Request(s) == Len(s) <= 2 /\ (Len(s) = 2 => s[1] = "size")
HalfRequest(s) == Len(s) = 1 /\ s[1] = "size"
Rest(s) == Len(s) <= 1

\* What is left of a request when its first unit is taken.
LEMMA TakeOne ==
  ASSUME NEW s \in Seq(Units), s # <<>>
  PROVE  /\ Request(s) => Rest(Tail(s)) /\ (Head(s) # "size" => Tail(s) = <<>>)
         /\ HalfRequest(s) => Head(s) = "size" /\ Tail(s) = <<>>
         /\ Rest(s) => Tail(s) = <<>>
<1>1. /\ Len(s) \in Nat \ {0} /\ Head(s) = s[1]
      /\ Tail(s) \in Seq(Units) /\ Len(Tail(s)) = Len(s) - 1
      /\ \A i \in 1 .. Len(Tail(s)) : Tail(s)[i] = s[i + 1]
  OBVIOUS
<1>2. Tail(s) = <<>> <=> Len(s) = 1
  BY <1>1
<1>3. \A n \in Nat \ {0} : (n <= 2 /\ n # 2 => n = 1) /\ (n <= 1 => n = 1)
  OBVIOUS
<1>4. Len(s) # 1 => ~Rest(s) /\ (Request(s) => Len(s) = 2 /\ Head(s) = "size")
  BY <1>1, <1>3 DEF Rest, Request
<1>5. Request(s) => Rest(Tail(s))
  BY <1>1 DEF Rest, Request
<1>6. HalfRequest(s) => Head(s) = "size" /\ Len(s) = 1
  BY <1>1 DEF HalfRequest
<1> QED
  BY <1>2, <1>4, <1>5, <1>6

\* The empty stream is a request not yet sent, and one already taken.
LEMMA TakenAll == Request(<<>>) /\ Rest(<<>>)
BY DEF Request, Rest

\* What is left when both of its units are taken.
LEMMA TakeTwo ==
  ASSUME NEW s \in Seq(Units), Request(s), s # <<>>, Tail(s) # <<>>
  PROVE  Tail(Tail(s)) = <<>>
<1>1. Tail(s) \in Seq(Units) /\ Rest(Tail(s))
  BY TakeOne
<1> QED
  BY <1>1, TakeOne

\* A whole request is sent at once, or its size first and then the rest.
LEMMA SendOne ==
  /\ \A k \in RequestKinds : /\ Request(<<>> \o <<k>>)
                             /\ Request(<<>> \o <<"size", k>>)
                             /\ Rest(Append(<<>>, k))
  /\ HalfRequest(Append(<<>>, "size"))
BY DEF Request, HalfRequest, Rest

LEMMA SendSecond ==
  ASSUME NEW s \in Seq(Units), NEW k \in RequestKinds
  PROVE  HalfRequest(s) => Request(Append(s, k))
<1>1. k \in Units
  BY DEF Units
<1>2. /\ Len(s) \in Nat /\ Len(Append(s, k)) = Len(s) + 1
      /\ \A i \in 1 .. Len(s) : Append(s, k)[i] = s[i]
  BY <1>1
<1>3. Len(s) = 1 => Append(s, k)[1] = s[1] /\ Len(Append(s, k)) = 2
  BY <1>2
<1> QED
  BY <1>3 DEF HalfRequest, Request

LEMMA HalfIsWhole ==
  ASSUME NEW s \in Seq(Units), HalfRequest(s)
  PROVE  Request(s) /\ s # <<>>
<1>1. Len(<<>>) = 0
  OBVIOUS
<1>2. Request(s) /\ Len(s) = 1
  BY DEF HalfRequest, Request
<1> QED
  BY <1>1, <1>2

-----------------------------------------------------------------------------
(* Ends that are closed *)

\* A server's end that has been closed is never that of a socket again.
HupHolds == \A c \in Conn : hup[c] => fdOf[c] # NoFd /\ ~Holds(c)

\* A socket that can be read has not been closed.
LEMMA HeldOpen ==
  ASSUME HupHolds, NEW c \in Conn, Holds(c)
  PROVE  ~hup[c]
BY DEF HupHolds

\* close() of a number keeps it so, and ends whoever has the number.
LEMMA CloseKeepsHup ==
  ASSUME WireTypeOK, HupHolds, NEW n, Close(n), UNCHANGED fdOf
  PROVE  HupHolds'
<1> SUFFICES ASSUME NEW c \in Conn, hup'[c]
             PROVE  fdOf[c] # NoFd /\ owner'[fdOf[c]] # c
  BY DEF HupHolds, Holds
<1>1. \/ hup[c] /\ fdOf[c] # NoFd /\ owner[fdOf[c]] # c
      \/ fdOf[c] = n /\ fdOf[c] # NoFd
  BY DEF Close, HupHolds, Holds, WireTypeOK
<1>2. fdOf[c] # NoFd => fdOf[c] \in Fd /\ c # Free
  BY DEF WireTypeOK, Conn, Free
<1> QED
  BY <1>1, <1>2 DEF Close

-----------------------------------------------------------------------------
(* What a client's step is for its caller *)

PhaseMoves(c, e, from, to) == PhaseOf(c, e) \in from /\ PhaseOf(c, e)' = to

\* What a client may take for granted where it stands, on a connection of which
\* e calls have been executed.
ClientKnows(c, e) ==
  /\ client[c] \in {"idle", "refused"} =>
       calls[c] = acked[c] + denied[c] /\ e = acked[c]
  /\ client[c] \in {"half", "waiting", "stuck"} => calls[c] = acked[c] + denied[c] + 1
  /\ client[c] = "half" => e = acked[c]
  /\ client[c] = "waiting" /\ down[c] # <<>> =>
       e = IF Head(down[c]) = "result" THEN acked[c] + 1 ELSE acked[c]
  /\ client[c] = "waiting" /\ down[c] = <<>> /\ hup[c] => e = acked[c]

\* Then each of its steps is one CallContract allows its caller, or none.
ClientAllowed(c, e) ==
  \/ /\ PhaseMoves(c, e, {"free"}, "called")
     /\ calls' = [calls EXCEPT ![c] = @ + 1] /\ acked' = acked
  \/ /\ PhaseMoves(c, e, {"executed"}, "free")
     /\ calls' = calls /\ acked' = [acked EXCEPT ![c] = @ + 1]
  \/ /\ \/ PhaseMoves(c, e, {"called"}, "free")
        \/ PhaseMoves(c, e, {"free", "called"}, "resend")
        \/ PhaseMoves(c, e, {"called"}, "abandoned")
        \/ PhaseMoves(c, e, {"free", "executed", "resend"}, "gone")
        \/ PhaseOf(c, e)' = PhaseOf(c, e)
     /\ calls' = calls /\ acked' = acked

\* The table of PhaseOf, row by row, before and after a step.
Phased(c, e) ==
  /\ client[c] \in {"none", "idle"} => PhaseOf(c, e) = "free"
  /\ client[c] \in {"half", "waiting", "stuck"} =>
       PhaseOf(c, e) = IF e = acked[c] THEN "called" ELSE "executed"
  /\ client[c] \in {"refused", "failed"} => PhaseOf(c, e) = "resend"
  /\ client[c] \in Gone =>
       PhaseOf(c, e) = IF calls[c] > acked[c] + denied[c] /\ e = acked[c]
                         THEN "abandoned" ELSE "gone"

LEMMA PhaseTable ==
  ASSUME NEW c, NEW e
  PROVE  Phased(c, e) /\ Phased(c, e)'
BY DEF Phased, PhaseOf, Gone

\* A phase is kept by what moves the client within a row of the table.
LEMMA PhaseSame ==
  ASSUME NEW c, NEW e,
         \/ client'[c] = client[c]
         \/ client[c] \in {"none", "idle"} /\ client'[c] \in {"none", "idle"}
         \/ client[c] \in Gone /\ client'[c] \in Gone,
         calls'[c] = calls[c], acked'[c] = acked[c], denied'[c] = denied[c]
  PROVE  PhaseOf(c, e)' = PhaseOf(c, e)
BY DEF PhaseOf, Gone

LEMMA ClientStep ==
  ASSUME WireTypeOK, NEW c \in Conn, NEW e \in Nat, ClientKnows(c, e), ClientNext(c)
  PROVE  ClientAllowed(c, e)
<1>0. /\ calls \in [Conn -> Nat] /\ acked \in [Conn -> Nat] /\ denied \in [Conn -> Nat]
      /\ client \in [Conn -> ClientStates] /\ Phased(c, e) /\ Phased(c, e)'
  BY PhaseTable DEF WireTypeOK
<1>1. CASE ClientSend(c)
  <2>1. /\ client[c] = "idle" /\ client'[c] \in {"half", "waiting"}
        /\ calls' = [calls EXCEPT ![c] = @ + 1] /\ acked' = acked
    BY <1>0, <1>1 DEF ClientSend
  <2> QED
    BY <1>0, <2>1 DEF ClientAllowed, PhaseMoves, Phased, ClientKnows
<1>2. CASE ClientSendRest(c)
  <2>1. /\ client[c] = "half" /\ client'[c] = "waiting" /\ calls' = calls
        /\ acked' = acked
    BY <1>0, <1>2 DEF ClientSendRest
  <2> QED
    BY <1>0, <2>1 DEF ClientAllowed, Phased
<1>3. CASE ClientSendFails(c)
  <2>1. /\ client[c] \in {"idle", "half"} /\ client'[c] = "failed" /\ calls' = calls
        /\ acked' = acked
    BY <1>0, <1>3 DEF ClientSendFails
  <2> QED
    BY <1>0, <2>1 DEF ClientAllowed, PhaseMoves, Phased, ClientKnows
<1>4. CASE ClientRecv(c)
  <2>0. client[c] = "waiting" /\ down[c] # <<>> /\ calls' = calls
    BY <1>4 DEF ClientRecv
  <2>1. CASE Head(down[c]) = "result"
    <3>1. client'[c] = "idle" /\ acked' = [acked EXCEPT ![c] = @ + 1]
      BY <1>0, <1>4, <2>1 DEF ClientRecv
    <3>2. PhaseMoves(c, e, {"executed"}, "free")
      BY <1>0, <2>0, <2>1, <3>1 DEF PhaseMoves, Phased, ClientKnows
    <3> QED
      BY <2>0, <3>1, <3>2 DEF ClientAllowed
  <2>2. CASE Head(down[c]) # "result"
    <3>1. client'[c] \in {"idle", "refused"} /\ acked' = acked
      BY <1>0, <1>4, <2>2 DEF ClientRecv
    <3>2. \/ PhaseMoves(c, e, {"called"}, "free")
          \/ PhaseMoves(c, e, {"free", "called"}, "resend")
      BY <1>0, <2>0, <2>2, <3>1 DEF PhaseMoves, Phased, ClientKnows
    <3> QED
      BY <2>0, <3>1, <3>2 DEF ClientAllowed
  <2> QED
    BY <2>1, <2>2
<1>5. CASE ClientRecvFails(c)
  <2>1. /\ client[c] = "waiting" /\ down[c] = <<>> /\ hup[c] /\ client'[c] = "failed"
        /\ calls' = calls /\ acked' = acked
    BY <1>0, <1>5 DEF ClientRecvFails
  <2> QED
    BY <1>0, <2>1 DEF ClientAllowed, PhaseMoves, Phased, ClientKnows
<1>6. CASE ClientClose(c)
  <2>1. /\ client[c] \in {"idle", "half", "waiting", "stuck", "refused"} /\ client'[c] \in Gone
        /\ calls' = calls /\ acked' = acked /\ denied' = denied
    BY <1>0, <1>6, WireAssumption DEF ClientClose, Gone
  <2>2. \/ PhaseMoves(c, e, {"called"}, "abandoned")
        \/ PhaseMoves(c, e, {"free", "executed", "resend"}, "gone")
    BY <1>0, <2>1 DEF PhaseMoves, Phased, ClientKnows
  <2> QED
    BY <2>1, <2>2 DEF ClientAllowed
<1>7. CASE ClientRecvTooMuch(c)
  <2>1. /\ client[c] = "waiting" /\ client'[c] = "stuck"
        /\ calls' = calls /\ acked' = acked /\ denied' = denied
    BY <1>0, <1>7 DEF ClientRecvTooMuch
  <2> QED
    BY <1>0, <2>1 DEF ClientAllowed, Phased
<1> QED
  BY <1>1, <1>2, <1>3, <1>4, <1>5, <1>6, <1>7 DEF ClientNext, ClientReads
=============================================================================
