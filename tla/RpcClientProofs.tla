---------------------------- MODULE RpcClientProofs ----------------------------
(***************************************************************************)
(* Theorems about RpcClient and the stubs: client and server never disagree *)
(* about where a call stands, and a call runs its method once at most;     *)
(* what two stubs agree about is answered, run and read as declared, so    *)
(* that an error is the fault of the descriptions.  All this whatever the  *)
(* descriptions, the number of calls and what the server dies of, up to    *)
(* the first read of the client's that fails on a connection which is      *)
(* alive, where RpcClient leaves it.                                       *)
(***************************************************************************)
EXTENDS RpcClient, SequenceTheorems, FiniteSetTheorems, WellFoundedInduction, TLAPS

\* Only the client's present connection is served.
Elsewhere == \A c \in Conn : c # client.sock => srv[c] = "over"

\* Connections to come are untouched.
Unopened ==
  /\ client.sock <= opened
  /\ \A c \in Conn : c > opened => phase[c] = "free" /\ end[c] = "open" /\ down[c] = <<>>

\* What the server has in hand it has of a client that waits, and nothing else
\* is on its way to this client then.
InHand ==
  \A c \in Conn :
    /\ srv[c] # "over" => end[c] = "open"
    /\ up[c] # 0 =>
         /\ end[c] = "open" /\ down[c] = <<>>
         /\ client.sock = c /\ client.pc \in {"recv", "astray"}
         /\ up[c] = Current /\ phase[c] = "called"
    /\ srv[c] = "replying" =>
         /\ down[c] = <<>>
         /\ client.sock = c /\ client.pc \in {"recv", "astray"} /\ phase[c] = "executed"

\* Behind a frame there is nothing but the word that the connection is closed.
Behind ==
  \A c \in Conn :
    /\ Len(down[c]) <= 2
    /\ Len(down[c]) > 1 => down[c][2] = "SOCKET_CLOSED" /\ end[c] = "hup"

\* Methods run for calls that have been made, once each, and not for one that
\* is yet to be sent for the first time.
RanOnce ==
  /\ \A k \in Call : Len(ran[k]) <= 1 /\ (k > Current => ran[k] = <<>>)
  /\ client.pc # "idle" => Current # 0
  /\ client.pc \in {"send", "connect"} /\ client.tried = 0 => ran[Current] = <<>>

\* A try is made again on a dead connection only: the model leaves a client that
\* would make one on a connection which is alive.
Retries ==
  /\ client.pc \in {"idle", "connect"} => client.tried = 0
  /\ client.tried > 0 =>
       \/ client.sock = Stale
       \/ client.sock \in Conn /\ end[client.sock] # "open" /\ down[client.sock] = <<>>
  /\ client.pc \in {"spin", "killed"} /\ client.sock \in Conn => end[client.sock] # "open"

\* Between calls a connection holds no frame that could be taken for an answer
\* to the next.
Between ==
  client.pc \in {"idle", "send"} /\ client.tried = 0 /\ client.sock \in Conn =>
    /\ phase[client.sock] = "free"
    /\ Len(down[client.sock]) <= 1
    /\ down[client.sock] # <<>> =>
         down[client.sock][1] = "SOCKET_CLOSED" /\ end[client.sock] = "hup"

NotRun(c) ==
  /\ phase[c] = "called" /\ ran[Current] = <<>>
  /\ down[c] # <<>> => down[c][1] \in ErrorCodes

HasRun(c) ==
  /\ phase[c] = "executed" /\ Len(ran[Current]) = 1
  /\ IF down[c] = <<>> THEN srv[c] = "replying" \/ end[c] # "open"
     ELSE \/ down[c][1] = "result"
          \/ down[c][1] = "part" /\ end[c] # "open"

\* A client that waits for its first answer waits for a call that has not run,
\* or for one that has.
Waiting ==
  client.pc \in {"recv", "astray"} /\ client.tried = 0 => NotRun(client.sock) \/ HasRun(client.sock)

\* A call that has ended was told what happened, and one that has not is told
\* nothing yet.
Told ==
  \A k \in Call :
    /\ outcome[k] # "failed"
    /\ k > Current \/ (k = Current /\ client.pc # "idle") => outcome[k] = "pending"
    /\ outcome[k] \in {"returned", "unreadable"} => Len(ran[k]) = 1
    /\ outcome[k] \in {"error", "host"} => ran[k] = <<>>

CInv ==
  /\ Elsewhere /\ Unopened /\ InHand /\ Behind
  /\ RanOnce /\ Retries /\ Between /\ Waiting /\ Told

IInv == TypeOK /\ CInv

-----------------------------------------------------------------------------
LEMMA TailOf ==
  ASSUME NEW s \in Seq(Frames), s # <<>>
  PROVE  /\ Tail(s) \in Seq(Frames) /\ Len(s) \in Nat /\ Len(s) > 0
         /\ Len(Tail(s)) = Len(s) - 1 /\ Head(s) = s[1] /\ s[1] \in Frames
         /\ Tail(s) # <<>> => Tail(s)[1] = s[2]
<1>1. Len(s) \in Nat /\ Len(s) > 0 /\ Head(s) = s[1] /\ s[1] \in Frames
  BY EmptySeq, LenProperties, ElementOfSeq
<1>2. /\ Tail(s) \in Seq(Frames) /\ Len(Tail(s)) = Len(s) - 1
      /\ \A i \in 1 .. Len(Tail(s)) : Tail(s)[i] = s[i + 1]
  BY HeadTailProperties
<1>3. Tail(s) # <<>> => 1 \in 1 .. Len(Tail(s))
  BY <1>1, <1>2, EmptySeq
<1> QED
  BY <1>1, <1>2, <1>3

LEMMA AppendOf ==
  ASSUME NEW s \in Seq(Frames), NEW x \in Frames
  PROVE  /\ Append(s, x) \in Seq(Frames) /\ Append(s, x) # <<>>
         /\ Len(s) \in Nat /\ Len(Append(s, x)) = Len(s) + 1
         /\ Append(s, x)[Len(s) + 1] = x
         /\ \A i \in 1 .. Len(s) : Append(s, x)[i] = s[i]
         /\ s = <<>> => Len(s) = 0
         /\ s # <<>> => Len(s) > 0
BY AppendProperties, EmptySeq, LenProperties

\* The last word of a connection that held at most one frame.
LEMMA ClosedAfter ==
  ASSUME NEW s \in Seq(Frames), ~ (Len(s) > 1)
  PROVE  /\ Append(s, "SOCKET_CLOSED") \in Seq(Frames)
         /\ Append(s, "SOCKET_CLOSED") # <<>>
         /\ Len(Append(s, "SOCKET_CLOSED")) <= 2
         /\ s = <<>> => /\ Append(s, "SOCKET_CLOSED")[1] = "SOCKET_CLOSED"
                        /\ Len(Append(s, "SOCKET_CLOSED")) <= 1
                        /\ ~ (Len(Append(s, "SOCKET_CLOSED")) > 1)
         /\ s # <<>> => /\ Append(s, "SOCKET_CLOSED")[1] = s[1]
                        /\ Append(s, "SOCKET_CLOSED")[2] = "SOCKET_CLOSED"
<1> DEFINE t == Append(s, "SOCKET_CLOSED")
<1>1. /\ t \in Seq(Frames) /\ t # <<>> /\ Len(s) \in Nat /\ Len(t) = Len(s) + 1
      /\ t[Len(s) + 1] = "SOCKET_CLOSED"
      /\ \A i \in 1 .. Len(s) : t[i] = s[i]
      /\ s = <<>> => Len(s) = 0
      /\ s # <<>> => Len(s) > 0
  <2>1. "SOCKET_CLOSED" \in Frames
    BY DEF Frames, ErrorCodes
  <2> QED BY <2>1, AppendOf
<1> HIDE DEF t
<1>2. s # <<>> => Len(s) = 1
  <2>1. \A n \in Nat : n > 0 /\ ~ (n > 1) => n = 1
    OBVIOUS
  <2> QED BY <1>1, <2>1
<1>3. s # <<>> => 1 \in 1 .. Len(s) /\ Len(s) + 1 = 2
  BY <1>2
<1>4. s = <<>> => Len(t) = 1 /\ Len(s) + 1 = 1
  BY <1>1
<1>5. Len(t) <= 2
  BY <1>1, <1>2
<1> QED
  BY <1>1, <1>3, <1>4, <1>5 DEF t

LEMMA AnswerKnown ==
  ASSUME NEW v \in Versions, NEW m \in Methods
  PROVE  Answers[v][m] \in (ErrorCodes \ {"SOCKET_CLOSED"}) \cup {"result"}
<1>1. \A d, msg : Answer(d, msg) \in (ErrorCodes \ {"SOCKET_CLOSED"}) \cup {"result"}
  BY DEF Answer, on_request, ErrorCodes
<1>2. Answers[v][m] = Answer(ServerDefs[v], build_request(ClientDef, Declared(m)))
  BY DEF Answers
<1> QED
  BY <1>1, <1>2

LEMMA ShutKeeps ==
  ASSUME IInv, NEW c \in Conn, Shut(c)
  PROVE  IInv'
<1>1. TypeOK'
  BY DEF IInv, TypeOK, Shut, clientVars, contractVars
<1>2. CInv'
  BY DEF IInv, Shut, clientVars, contractVars, CInv, Elsewhere, Unopened, InHand, Behind, RanOnce, Retries,
      Between, Waiting, NotRun, HasRun, Told, Current
<1> QED
  BY <1>1, <1>2 DEF IInv

LEMMA ReplyKeeps ==
  ASSUME IInv, NEW c \in Conn, Reply(c)
  PROVE  IInv'
<1>1. /\ UNCHANGED <<client, made, outcome, ran, server, opened, end, shut, up, phase>>
      /\ srv[c] = "replying" /\ srv' = [srv EXCEPT ![c] = "idle"]
      /\ down' = [down EXCEPT ![c] = Append(@, "result")]
  BY DEF Reply, clientVars, contractVars
<1>2. down[c] = <<>> /\ client.sock = c /\ client.pc \in {"recv", "astray"} /\ phase[c] = "executed" /\ end[c] = "open"
  BY <1>1 DEF IInv, CInv, InHand
<1>3. down \in [Conn -> Seq(Frames)] /\ srv \in [Conn -> {"idle", "replying", "deaf", "over"}] /\ "result" \in Frames
  BY DEF IInv, TypeOK, Frames
<1>4. down'[c] \in Seq(Frames) /\ Len(down'[c]) = 1 /\ down'[c][1] = "result" /\ down'[c] # <<>>
  BY <1>1, <1>2, <1>3, AppendOf
<1>5. /\ \A d \in Conn \ {c} : down'[d] = down[d] /\ srv'[d] = srv[d]
      /\ srv'[c] = "idle"
      /\ down' \in [Conn -> Seq(Frames)] /\ srv' \in [Conn -> {"idle", "replying", "deaf", "over"}]
  BY <1>1, <1>3, <1>4
<1>6. TypeOK'
  BY <1>1, <1>5 DEF IInv, TypeOK
<1>7. Elsewhere'
  BY <1>1, <1>2, <1>5 DEF IInv, CInv, Elsewhere
<1>8. Unopened'
  BY <1>1, <1>2, <1>5 DEF IInv, CInv, Unopened, TypeOK
<1>9. InHand'
  BY <1>1, <1>2, <1>5 DEF IInv, CInv, InHand, Current
<1>10. Behind'
  BY <1>1, <1>2, <1>4, <1>5 DEF IInv, CInv, Behind
<1>11. RanOnce' /\ Told'
  BY <1>1 DEF IInv, CInv, RanOnce, Told, Current
<1>12. Retries' /\ Between' /\ Waiting'
  BY <1>1, <1>2, <1>4, <1>5 DEF IInv, CInv, Retries, Between, Waiting, NotRun, HasRun, Current
<1> QED
  BY <1>6, <1>7, <1>8, <1>9, <1>10, <1>11, <1>12 DEF IInv, CInv

LEMMA CallTyped ==
  ASSUME TypeOK
  PROVE  /\ Current \in Nat /\ Current <= MaxCalls /\ MaxCalls \in Nat /\ MaxTry \in Nat
         /\ opened \in Nat /\ opened <= MaxConns /\ MaxConns \in Nat
         /\ Current # 0 => Current \in Call
         /\ client.tried \in Nat
         /\ \A c \in Conn : c \in Nat /\ c > 0
  BY RpcAssumption, LenProperties DEF TypeOK, Current, Call, Tries, Conn

LEMMA FramesOn ==
  ASSUME TypeOK, NEW c \in Conn
  PROVE  /\ down[c] \in Seq(Frames) /\ Len(down[c]) \in Nat
         /\ down[c] = <<>> => Len(down[c]) = 0
         /\ down[c] # <<>> => Len(down[c]) > 0
<1>1. down[c] \in Seq(Frames)
  BY DEF TypeOK
<1> QED
  BY <1>1, EmptySeq, LenProperties

\* Nobody is told anything while a call goes on,
LEMMA ToldStays ==
  ASSUME IInv, UNCHANGED <<made, outcome, ran>>, client'.pc = "idle" => client.pc = "idle",
         client.pc = "idle" => client'.pc = "idle"
  PROVE  Told'
BY DEF IInv, CInv, Told, Current

\* and what is told at its end must be true.
LEMMA ToldAtEnd ==
  ASSUME IInv, UNCHANGED <<made, ran>>, Current \in Call,
         client.pc # "idle", client'.pc = "idle",
         NEW how \in Outcomes \ {"failed", "pending"},
         outcome' = [outcome EXCEPT ![Current] = how],
         how \in {"returned", "unreadable"} => Len(ran[Current]) = 1,
         how \in {"error", "host"} => ran[Current] = <<>>
  PROVE  Told' /\ outcome' \in [Call -> Outcomes]
<1>1. /\ outcome' \in [Call -> Outcomes] /\ outcome'[Current] = how
      /\ \A k \in Call : k # Current => outcome'[k] = outcome[k]
  BY DEF IInv, TypeOK
<1>2. Current' = Current /\ Current \in Nat
  BY CallTyped DEF IInv, Current
<1>3. ASSUME NEW k \in Call
      PROVE  /\ outcome'[k] # "failed"
             /\ k > Current => outcome'[k] = "pending"
             /\ outcome'[k] \in {"returned", "unreadable"} => Len(ran[k]) = 1
             /\ outcome'[k] \in {"error", "host"} => ran[k] = <<>>
  <2>1. CASE k = Current
    <3>1. ~ (k > Current)
      BY <1>2, <2>1
    <3> QED BY <1>1, <2>1, <3>1
  <2>2. CASE k # Current
    BY <1>1, <2>2 DEF IInv, CInv, Told
  <2> QED BY <2>1, <2>2
<1> QED
  BY <1>1, <1>2, <1>3 DEF Told

LEMMA MakeCallKeeps ==
  ASSUME IInv, MakeCall
  PROVE  IInv'
<1>1. /\ UNCHANGED <<outcome, ran, server, opened, end, srv, shut, up, down, phase>>
      /\ client.pc = "idle" /\ Current < MaxCalls
      /\ client' = [client EXCEPT !.pc = Attempt, !.tried = 0]
  BY DEF MakeCall, connVars, contractVars
<1>2. PICK m \in Methods : made' = Append(made, m)
  BY DEF MakeCall
<1>3. client \in [pc : ClientPcs, tried : Tries, sock : Conn \cup {Uninit, Stale}]
      /\ 0 \in Tries /\ made \in Seq(Methods)
  BY RpcAssumption DEF IInv, TypeOK, Tries
<1>4. /\ client'.pc = Attempt /\ client'.tried = 0 /\ client'.sock = client.sock
      /\ client' \in [pc : ClientPcs, tried : Tries, sock : Conn \cup {Uninit, Stale}]
      /\ Attempt \in {"connect", "send"}
      /\ Attempt = "send" => client.sock # Uninit
  BY <1>1, <1>3 DEF Attempt, ClientPcs
<1>5. /\ made' \in Seq(Methods) /\ Len(made') = Current + 1 /\ Current' = Current + 1
      /\ Current \in Nat /\ MaxCalls \in Nat
  BY <1>2, <1>3, CallTyped DEF IInv, Current
<1>6. TypeOK'
  BY <1>1, <1>4, <1>5 DEF IInv, TypeOK
<1>7. /\ up = [c \in Conn |-> 0]
      /\ \A c \in Conn : srv[c] # "replying"
  BY <1>1 DEF IInv, TypeOK, CInv, InHand
<1>8. Elsewhere' /\ Unopened' /\ Behind' /\ Told'
  <2>1. Elsewhere' /\ Unopened' /\ Behind'
    BY <1>1, <1>4 DEF IInv, CInv, Elsewhere, Unopened, Behind
  <2>2. \A k \in Call : k > Current + 1 \/ k = Current + 1 => k > Current
    BY <1>5 DEF Call
  <2>3. Told'
    BY <1>1, <1>5, <2>2 DEF IInv, CInv, Told
  <2> QED BY <2>1, <2>3
<1>9. InHand'
  BY <1>1, <1>4, <1>7 DEF IInv, CInv, InHand
<1>10. RanOnce'
  <2>1. Current + 1 \in Call /\ ran[Current + 1] = <<>>
    BY <1>1, <1>5 DEF IInv, CInv, RanOnce, Call
  <2> QED BY <1>1, <1>4, <1>5, <2>1 DEF IInv, CInv, RanOnce, Call
<1>11. Retries' /\ Between' /\ Waiting'
  BY <1>1, <1>4 DEF IInv, CInv, Retries, Between, Waiting
<1> QED
  BY <1>6, <1>8, <1>9, <1>10, <1>11 DEF IInv, CInv

LEMMA PhaseMoves ==
  ASSUME TypeOK, NEW c \in Conn, NEW from, NEW to \in Contract!Phases,
         Contract!Moves(c, from, to)
  PROVE  /\ phase[c] \in from /\ phase'[c] = to
         /\ phase' \in [Conn -> Contract!Phases]
         /\ \A d \in Conn : d # c => phase'[d] = phase[d]
<1>1. phase \in [Conn -> Contract!Phases] /\ phase' = [phase EXCEPT ![c] = to]
  BY DEF TypeOK, Contract!Moves
<1>2. phase[c] \in from
  BY DEF Contract!Moves
<1> QED
  BY <1>1, <1>2

\* What becomes of the contract when the client closes its end.
LEMMA LeavesOld ==
  ASSUME TypeOK, CloseOld
  PROVE  /\ phase' \in [Conn -> Contract!Phases]
         /\ \A c \in Conn : c # client.sock => phase'[c] = phase[c]
<1>1. CASE client.sock \in Conn
  <2>1. \/ Contract!Moves(client.sock, {"called"}, "abandoned")
        \/ Contract!Moves(client.sock, {"free", "executed", "resend"}, "gone")
    BY <1>1 DEF CloseOld, Contract!Leave
  <2>2. "abandoned" \in Contract!Phases /\ "gone" \in Contract!Phases
    BY DEF Contract!Phases
  <2> QED BY <1>1, <2>1, <2>2, PhaseMoves
<1>2. CASE client.sock \notin Conn
  BY <1>2 DEF TypeOK, CloseOld, contractVars
<1> QED
  BY <1>1, <1>2

LEMMA ConnectKeeps ==
  ASSUME IInv, Connect
  PROVE  IInv'
<1> DEFINE n == opened + 1
<1>1. /\ UNCHANGED <<made, outcome, ran, server, end, shut, up, down>>
      /\ client.pc = "connect" /\ opened < MaxConns /\ CloseOld
      /\ opened' = n
      /\ srv' = [c \in Conn |-> IF c = n THEN "idle"
                                ELSE IF c = client.sock THEN "over" ELSE srv[c]]
      /\ client' = [client EXCEPT !.pc = "send", !.sock = n]
  BY DEF Connect
<1>2. client \in [pc : ClientPcs, tried : Tries, sock : Conn \cup {Uninit, Stale}]
      /\ n \in Conn /\ n # 0 /\ n # client.sock /\ n \in 0 .. MaxConns
  <2>1. opened \in Nat /\ opened < MaxConns /\ MaxConns \in Nat
    BY <1>1, CallTyped DEF IInv
  <2>2. client.sock <= opened
    BY DEF IInv, CInv, Unopened
  <2>3. client \in [pc : ClientPcs, tried : Tries, sock : Conn \cup {Uninit, Stale}]
    BY DEF IInv, TypeOK
  <2>4. client.sock \in Int
    BY <2>3 DEF Conn, Uninit, Stale
  <2> QED BY <2>1, <2>2, <2>3, <2>4 DEF Conn
<1>3. /\ client'.pc = "send" /\ client'.tried = client.tried /\ client'.sock = n
      /\ client.tried = 0
      /\ client' \in [pc : ClientPcs, tried : Tries, sock : Conn \cup {Uninit, Stale}]
  BY <1>1, <1>2 DEF ClientPcs, IInv, CInv, Retries
<1>4. /\ phase' \in [Conn -> Contract!Phases]
      /\ \A c \in Conn : c # client.sock => phase'[c] = phase[c]
  BY <1>1, LeavesOld DEF IInv
<1>5. /\ srv' \in [Conn -> {"idle", "replying", "deaf", "over"}]
      /\ srv'[n] = "idle"
      /\ \A c \in Conn : c # n => srv'[c] = "over"
  BY <1>1, <1>2 DEF IInv, TypeOK, CInv, Elsewhere
<1>6. /\ phase[n] = "free" /\ end[n] = "open" /\ down[n] = <<>>
      /\ \A c \in Conn : up[c] = 0
  BY <1>1, <1>2, CallTyped DEF IInv, CInv, Unopened, InHand
<1>7. TypeOK'
  BY <1>1, <1>2, <1>3, <1>4, <1>5 DEF IInv, TypeOK, Uninit
<1>8. Elsewhere' /\ Told'
  BY <1>1, <1>3, <1>5, ToldStays DEF Elsewhere
<1>9. Unopened'
  <2>1. n <= opened'
    BY <1>1, CallTyped DEF IInv
  <2>2. \A c \in Conn : c > opened' => c > opened /\ c # client.sock
    BY <1>1, CallTyped DEF IInv, CInv, Unopened
  <2> QED BY <1>1, <1>3, <1>4, <2>1, <2>2 DEF IInv, CInv, Unopened
<1>10. InHand' /\ Behind'
  BY <1>1, <1>3, <1>5, <1>6 DEF IInv, CInv, InHand, Behind
<1>11. RanOnce'
  BY <1>1, <1>3 DEF IInv, CInv, RanOnce, Current
<1>12. Retries' /\ Between' /\ Waiting'
  <2>1. phase'[n] = "free" /\ Len(down[n]) = 0
    BY <1>2, <1>4, <1>6
  <2> QED BY <1>1, <1>2, <1>3, <1>6, <2>1 DEF Retries, Between, Waiting
<1> QED
  BY <1>7, <1>8, <1>9, <1>10, <1>11, <1>12 DEF IInv, CInv

LEMMA ConnectFailsKeeps ==
  ASSUME IInv, ConnectFails
  PROVE  IInv'
<1>1. /\ UNCHANGED <<made, ran, server, opened, end, shut, up, down>>
      /\ client.pc = "connect" /\ CloseOld
      /\ srv' = [c \in Conn |-> IF c = client.sock THEN "over" ELSE srv[c]]
      /\ outcome' = [outcome EXCEPT ![Current] = "host"]
  BY DEF ConnectFails
<1>2. PICK s \in {Stale, Uninit} : client' = [client EXCEPT !.pc = "idle", !.sock = s]
  BY DEF ConnectFails
<1>3. client \in [pc : ClientPcs, tried : Tries, sock : Conn \cup {Uninit, Stale}]
      /\ s \notin Conn /\ s <= 0 /\ s \in Int
  BY DEF IInv, TypeOK, Conn, Uninit, Stale
<1>4. /\ client'.pc = "idle" /\ client'.tried = client.tried /\ client'.sock = s
      /\ client.tried = 0
      /\ client' \in [pc : ClientPcs, tried : Tries, sock : Conn \cup {Uninit, Stale}]
  BY <1>1, <1>2, <1>3 DEF ClientPcs, IInv, CInv, Retries
<1>5. /\ phase' \in [Conn -> Contract!Phases]
      /\ \A c \in Conn : c # client.sock => phase'[c] = phase[c]
  BY <1>1, LeavesOld DEF IInv
<1>6. /\ srv' \in [Conn -> {"idle", "replying", "deaf", "over"}]
      /\ \A c \in Conn : srv'[c] = "over"
      /\ \A c \in Conn : up[c] = 0
  BY <1>1 DEF IInv, TypeOK, CInv, Elsewhere, InHand
<1>7. outcome' \in [Call -> Outcomes] /\ Told'
  <2>1. Current \in Call /\ ran[Current] = <<>>
    BY <1>1, <1>4, CallTyped DEF IInv, CInv, RanOnce
  <2>2. "host" \in Outcomes \ {"failed", "pending"}
    BY DEF Outcomes
  <2> QED BY <1>1, <1>4, <2>1, <2>2, ToldAtEnd
<1>8. TypeOK'
  BY <1>1, <1>4, <1>5, <1>6, <1>7 DEF IInv, TypeOK
<1>9. Elsewhere' /\ InHand' /\ Behind'
  BY <1>1, <1>6 DEF IInv, CInv, Elsewhere, InHand, Behind
<1>10. Unopened'
  <2>1. \A c \in Conn : c > opened => c # client.sock
    BY CallTyped DEF IInv, CInv, Unopened
  <2>2. s <= opened
    BY <1>3, CallTyped DEF IInv
  <2> QED BY <1>1, <1>4, <1>5, <2>1, <2>2 DEF IInv, CInv, Unopened
<1>11. RanOnce' /\ Retries' /\ Between' /\ Waiting'
  BY <1>1, <1>3, <1>4 DEF IInv, CInv, RanOnce, Retries, Between, Waiting, Current
<1> QED
  BY <1>7, <1>8, <1>9, <1>10, <1>11 DEF IInv, CInv

\* The numbers that stand for no socket are no connection's.
LEMMA NoConn ==
  Stale \notin Conn /\ Uninit \notin Conn
  BY DEF Stale, Uninit, Conn

LEMMA SendOpenKeeps ==
  ASSUME IInv, NEW c \in Conn, SendOpen(c)
  PROVE  IInv'
<1>1. /\ UNCHANGED <<made, outcome, ran, server, opened, end, srv, shut, down>>
      /\ client.pc = "send" /\ client.sock = c /\ end[c] = "open"
      /\ up' = [up EXCEPT ![c] = Current]
      /\ client' = [client EXCEPT !.pc = "recv"]
      /\ Contract!Moves(c, {"free"}, "called")
  BY DEF SendOpen, Sends, Goes, Contract!Begin
<1>2. /\ phase'[c] = "called" /\ phase' \in [Conn -> Contract!Phases]
      /\ \A d \in Conn : d # c => phase'[d] = phase[d]
  <2>1. "called" \in Contract!Phases
    BY DEF Contract!Phases
  <2> QED BY <1>1, <2>1, PhaseMoves DEF IInv
<1>3. client.tried = 0 /\ ran[Current] = <<>> /\ Current # 0 /\ down[c] = <<>>
  BY <1>1, NoConn, CallTyped DEF IInv, CInv, Retries, RanOnce, Between
<1>4. /\ client'.pc = "recv" /\ client'.tried = 0 /\ client'.sock = c
      /\ client' \in [pc : ClientPcs, tried : Tries, sock : Conn \cup {Uninit, Stale}]
  BY <1>1, <1>3 DEF IInv, TypeOK, ClientPcs
<1>5. up' \in [Conn -> Call \cup {0}] /\ up'[c] = Current /\ \A d \in Conn : d # c => up'[d] = 0
  BY <1>1, <1>3, CallTyped DEF IInv, TypeOK, CInv, InHand
<1>6. TypeOK'
  BY <1>1, <1>2, <1>4, <1>5, NoConn DEF IInv, TypeOK
<1>7. Elsewhere' /\ Behind' /\ Told'
  <2>1. Elsewhere' /\ Behind'
    BY <1>1, <1>4 DEF IInv, CInv, Elsewhere, Behind
  <2> QED BY <1>1, <1>4, <2>1, ToldStays
<1>8. Unopened'
  BY <1>1, <1>2, <1>4, CallTyped DEF IInv, CInv, Unopened
<1>9. InHand'
  BY <1>1, <1>2, <1>3, <1>4, <1>5 DEF IInv, CInv, InHand, Current
<1>10. RanOnce' /\ Retries' /\ Between'
  BY <1>1, <1>3, <1>4 DEF IInv, CInv, RanOnce, Retries, Between, Current
<1>11. Waiting'
  BY <1>1, <1>2, <1>3, <1>4 DEF Waiting, NotRun, Current
<1> QED
  BY <1>6, <1>7, <1>8, <1>9, <1>10, <1>11 DEF IInv, CInv

LEMMA SendLateKeeps ==
  ASSUME IInv, NEW c \in Conn, SendLate(c)
  PROVE  IInv'
<1>1. /\ UNCHANGED <<made, outcome, ran, server, opened, srv, shut, up, down>>
      /\ client.pc = "send" /\ client.sock = c /\ end[c] = "hup"
      /\ end' = [end EXCEPT ![c] = "reset"]
      /\ client' = [client EXCEPT !.pc = "recv"]
      /\ IF phase[c] = "free" THEN Contract!Moves(c, {"free"}, "called") ELSE phase' = phase
  BY DEF SendLate, Sends, Goes, Contract!Begin, contractVars
<1>2. /\ phase' \in [Conn -> Contract!Phases]
      /\ phase[c] = "free" => phase'[c] = "called"
      /\ \A d \in Conn : d # c => phase'[d] = phase[d]
  <2>1. CASE phase[c] = "free"
    <3>1. "called" \in Contract!Phases
      BY DEF Contract!Phases
    <3> QED BY <1>1, <2>1, <3>1, PhaseMoves DEF IInv
  <2>2. CASE phase[c] # "free"
    BY <1>1, <2>2 DEF IInv, TypeOK
  <2> QED BY <2>1, <2>2
<1>3. /\ client'.pc = "recv" /\ client'.tried = client.tried /\ client'.sock = c
      /\ client' \in [pc : ClientPcs, tried : Tries, sock : Conn \cup {Uninit, Stale}]
  BY <1>1 DEF IInv, TypeOK, ClientPcs
<1>4. /\ end' \in [Conn -> {"open", "hup", "reset"}] /\ end'[c] = "reset"
      /\ \A d \in Conn : d # c => end'[d] = end[d]
  BY <1>1 DEF IInv, TypeOK
<1>5. TypeOK'
  BY <1>1, <1>2, <1>3, <1>4 DEF IInv, TypeOK
<1>6. Elsewhere' /\ Told'
  <2>1. Elsewhere'
    BY <1>1, <1>3 DEF IInv, CInv, Elsewhere
  <2> QED BY <1>1, <1>3, <2>1, ToldStays
<1>7. Behind'
  <2>1. ~ (Len(down[c]) > 1)
    <3>1. client.tried > 0 => down[c] = <<>>
      BY <1>1, NoConn DEF IInv, CInv, Retries
    <3>2. client.tried = 0 => Len(down[c]) <= 1
      BY <1>1 DEF IInv, CInv, Between
    <3>3. client.tried > 0 \/ client.tried = 0
      BY CallTyped DEF IInv
    <3>4. /\ down[c] \in Seq(Frames) /\ Len(down[c]) \in Nat
          /\ down[c] = <<>> => Len(down[c]) = 0
      BY FramesOn DEF IInv
    <3> QED BY <3>1, <3>2, <3>3, <3>4
  <2> QED BY <1>1, <1>4, <2>1 DEF IInv, CInv, Behind
<1>8. Unopened'
  BY <1>1, <1>2, <1>3, <1>4, CallTyped DEF IInv, CInv, Unopened
<1>9. InHand'
  <2>1. srv[c] = "over" /\ \A d \in Conn : up[d] = 0 /\ srv[d] # "replying"
    BY <1>1 DEF IInv, CInv, InHand
  <2> QED BY <1>1, <1>4, <2>1 DEF IInv, CInv, InHand
<1>10. RanOnce' /\ Between'
  BY <1>1, <1>3 DEF IInv, CInv, RanOnce, Between, Current
<1>11. Retries'
  BY <1>1, <1>3, <1>4, NoConn DEF IInv, CInv, Retries
<1>12. Waiting'
  <2>1. SUFFICES ASSUME client.tried = 0 PROVE NotRun(c)'
    BY <1>1, <1>3 DEF Waiting
  <2>2. /\ phase[c] = "free" /\ ran[Current] = <<>>
        /\ down[c] # <<>> => down[c][1] = "SOCKET_CLOSED"
    BY <1>1, <2>1 DEF IInv, CInv, Between, RanOnce
  <2> QED BY <1>1, <1>2, <2>2 DEF NotRun, Current, ErrorCodes
<1> QED
  BY <1>5, <1>6, <1>7, <1>8, <1>9, <1>10, <1>11, <1>12 DEF IInv, CInv

LEMMA GivesUpMoves ==
  ASSUME TypeOK, NEW c \in Conn, GivesUp(c)
  PROVE  /\ phase' \in [Conn -> Contract!Phases]
         /\ \A d \in Conn : d # c => phase'[d] = phase[d]
<1>1. CASE phase[c] \in {"free", "called"}
  <2>1. Contract!Moves(c, {"free", "called"}, "resend") /\ "resend" \in Contract!Phases
    BY <1>1 DEF GivesUp, Contract!GiveUp, Contract!Phases
  <2> QED BY <2>1, PhaseMoves
<1>2. CASE phase[c] \notin {"free", "called"}
  BY <1>2 DEF TypeOK, GivesUp, contractVars
<1> QED
  BY <1>1, <1>2

LEMMA TriesAgain ==
  ASSUME TypeOK, TryAgain, client.sock # Uninit
  PROVE  /\ client' \in [pc : ClientPcs, tried : Tries, sock : Conn \cup {Uninit, Stale}]
         /\ client'.pc = "send" /\ client'.sock = client.sock
         /\ client'.tried > 0 /\ client'.tried \in Nat
<1> DEFINE t == IF client.tried < MaxTry + 2 THEN client.tried + 1 ELSE client.tried
<1>1. client \in [pc : ClientPcs, tried : Tries, sock : Conn \cup {Uninit, Stale}]
  BY DEF TypeOK
<1>2. t \in Tries /\ t > 0 /\ t \in Nat
  BY <1>1, RpcAssumption DEF Tries
<1>3. client' = [client EXCEPT !.pc = "send", !.tried = t]
  BY DEF TryAgain, Attempt
<1> HIDE DEF t
<1> QED
  BY <1>1, <1>2, <1>3 DEF ClientPcs

\* On a dead connection a client tries again, or it hangs or ends.
LEMMA DeadKeeps ==
  ASSUME IInv, NEW c \in Conn, client.sock = c, client.pc \in {"send", "recv"},
         end[c] # "open",
         UNCHANGED <<made, outcome, ran, server, opened, end, srv, shut, up>>,
         down' = down \/ down' = [down EXCEPT ![c] = <<>>],
         phase' = phase \/ GivesUp(c),
         \/ TryAgain /\ down'[c] = <<>>
         \/ \E pc \in {"spin", "killed"} : Goes(pc)
  PROVE  IInv'
<1>1. /\ phase' \in [Conn -> Contract!Phases]
      /\ \A d \in Conn : d # c => phase'[d] = phase[d]
  BY GivesUpMoves DEF IInv, TypeOK
<1>2. /\ down' \in [Conn -> Seq(Frames)]
      /\ \A d \in Conn : d # c => down'[d] = down[d]
      /\ down'[c] = <<>> \/ down'[c] = down[c]
  <2>1. <<>> \in Seq(Frames) /\ down \in [Conn -> Seq(Frames)]
    BY EmptySeq DEF IInv, TypeOK
  <2> QED BY <2>1
<1>3. /\ client' \in [pc : ClientPcs, tried : Tries, sock : Conn \cup {Uninit, Stale}]
      /\ client'.sock = c
      /\ \/ client'.pc = "send" /\ client'.tried > 0 /\ down'[c] = <<>>
         \/ client'.pc \in {"spin", "killed"} /\ client'.tried = client.tried
  <2>1. client \in [pc : ClientPcs, tried : Tries, sock : Conn \cup {Uninit, Stale}]
        /\ MaxTry \in Nat
    BY RpcAssumption DEF IInv, TypeOK
  <2>2. CASE TryAgain /\ down'[c] = <<>>
    BY <2>2, NoConn, TriesAgain DEF IInv
  <2>3. CASE \E pc \in {"spin", "killed"} : Goes(pc)
    BY <2>1, <2>3 DEF Goes, ClientPcs
  <2> QED BY <2>2, <2>3
<1>4. client.tried \in Nat /\ client'.tried \in Nat
  BY <1>3, RpcAssumption DEF IInv, TypeOK, Tries
<1>5. /\ srv[c] = "over" /\ \A d \in Conn : up[d] = 0 /\ srv[d] = "over"
  BY DEF IInv, CInv, InHand, Elsewhere
<1>6. TypeOK'
  BY <1>1, <1>2, <1>3, NoConn DEF IInv, TypeOK
<1>7. Elsewhere' /\ Told'
  <2>1. Elsewhere'
    BY <1>3 DEF IInv, CInv, Elsewhere
  <2> QED BY <1>3, <2>1, ToldStays
<1>8. Unopened'
  BY <1>1, <1>2, <1>3, CallTyped DEF IInv, CInv, Unopened
<1>9. InHand'
  BY <1>5 DEF InHand
<1>10. Behind'
  <2>1. Len(<<>>) = 0
    OBVIOUS
  <2> QED BY <1>2, <2>1 DEF IInv, CInv, Behind
<1>11. RanOnce' /\ Between' /\ Waiting'
  BY <1>3, <1>4 DEF IInv, CInv, RanOnce, Between, Waiting, Current
<1>12. Retries'
  BY <1>2, <1>3, <1>4, NoConn DEF IInv, CInv, Retries
<1> QED
  BY <1>6, <1>7, <1>8, <1>9, <1>10, <1>11, <1>12 DEF IInv, CInv

LEMMA FailuresKeep ==
  ASSUME IInv, NEW c \in Conn,
         SendFails(c) \/ RecvFails(c) \/ RecvPart(c) \/ RecvTooMuch(c)
  PROVE  IInv'
<1>1. CASE SendFails(c)
  <2>1. /\ UNCHANGED <<made, outcome, ran, server, opened, end, srv, shut, up, down>>
        /\ client.pc = "send" /\ client.sock = c /\ end[c] = "reset" /\ GivesUp(c)
        /\ TryAgain \/ Goes("killed")
    BY <1>1 DEF SendFails, Sends, connVars
  <2>2. down[c] = <<>>
    <3>1. client.tried > 0 \/ client.tried = 0
      BY CallTyped DEF IInv
    <3> QED BY <2>1, <3>1, NoConn DEF IInv, CInv, Retries, Between
  <2> QED BY <2>1, <2>2, DeadKeeps
<1>2. CASE RecvFails(c)
  BY <1>2, DeadKeeps DEF RecvFails, Receives, connVars
<1>3. CASE RecvPart(c)
  <2>1. /\ UNCHANGED <<made, outcome, ran, server, opened, end, srv, shut, up>>
        /\ client.pc = "recv" /\ client.sock = c /\ GivesUp(c)
        /\ down[c] = <<"part">> /\ down' = [down EXCEPT ![c] = <<>>]
        /\ TryAgain \/ Goes("spin")
    BY <1>3 DEF RecvPart, Receives
  <2>2. down'[c] = <<>>
    BY <2>1 DEF IInv, TypeOK
  <2>3. client.tried = 0
    <3>1. client.tried > 0 => down[c] = <<>>
      BY <2>1, NoConn DEF IInv, CInv, Retries
    <3>2. <<"part">> # <<>>
      OBVIOUS
    <3> QED BY <2>1, <3>1, <3>2, CallTyped DEF IInv
  <2>4. end[c] # "open"
    <3>1. NotRun(c) \/ HasRun(c)
      BY <2>1, <2>3 DEF IInv, CInv, Waiting
    <3>2. down[c] # <<>> /\ down[c][1] = "part"
      BY <2>1
    <3> QED BY <3>1, <3>2 DEF NotRun, HasRun, ErrorCodes
  <2> QED BY <2>1, <2>2, <2>4, DeadKeeps
<1>4. CASE RecvTooMuch(c)
  <2>1. /\ UNCHANGED <<made, outcome, ran, server, opened, end, srv, shut, up, down, phase>>
        /\ client.pc = "recv" /\ client.sock = c /\ Goes("spin") /\ Len(down[c]) > 1
    BY <1>4 DEF RecvTooMuch, Receives, connVars, contractVars
  <2>2. end[c] # "open"
    BY <2>1 DEF IInv, CInv, Behind
  <2> QED BY <2>1, <2>2, DeadKeeps
<1> QED
  BY <1>1, <1>2, <1>3, <1>4

\* Where the model leaves a client whose read is interrupted, the rest goes on
\* as for one that waits.
LEMMA InterruptedKeeps ==
  ASSUME IInv, NEW c \in Conn, RecvInterrupted(c)
  PROVE  IInv'
<1>1. /\ UNCHANGED <<made, outcome, ran, server, opened, end, srv, shut, up, down, phase>>
      /\ client.pc = "recv" /\ client.sock = c /\ Goes("astray")
  BY DEF RecvInterrupted, Receives, connVars, contractVars
<1>2. /\ client' \in [pc : ClientPcs, tried : Tries, sock : Conn \cup {Uninit, Stale}]
      /\ client'.pc = "astray" /\ client'.tried = client.tried /\ client'.sock = c
  BY <1>1 DEF Goes, IInv, TypeOK, ClientPcs
<1>3. TypeOK'
  BY <1>1, <1>2 DEF IInv, TypeOK
<1>4. Elsewhere' /\ Unopened' /\ InHand' /\ Behind'
  BY <1>1, <1>2 DEF IInv, CInv, Elsewhere, Unopened, InHand, Behind, Current
<1>5. RanOnce' /\ Retries' /\ Between'
  BY <1>1, <1>2 DEF IInv, CInv, RanOnce, Retries, Between, Current
<1>6. Waiting'
  BY <1>1, <1>2 DEF IInv, CInv, Waiting, NotRun, HasRun, Current
<1>7. Told'
  BY <1>1, <1>2, ToldStays
<1> QED
  BY <1>3, <1>4, <1>5, <1>6, <1>7 DEF IInv, CInv

LEMMA SendStaleKeeps ==
  ASSUME IInv, SendStale
  PROVE  IInv'
<1>1. /\ UNCHANGED <<made, outcome, ran, server, opened, end, srv, shut, up, down, phase>>
      /\ client.pc = "send" /\ client.sock = Stale /\ TryAgain
  BY DEF SendStale, Sends, connVars, contractVars
<1>3. /\ client' \in [pc : ClientPcs, tried : Tries, sock : Conn \cup {Uninit, Stale}]
      /\ client'.sock = Stale /\ client'.pc = "send" /\ client'.tried > 0 /\ client'.tried \in Nat
  BY <1>1, TriesAgain DEF IInv, Stale, Uninit
<1>4. TypeOK'
  BY <1>1, <1>3 DEF IInv, TypeOK, Stale, Uninit
<1>5. Elsewhere' /\ Unopened' /\ InHand' /\ Behind' /\ Told'
  <2>1. Elsewhere' /\ Unopened' /\ InHand' /\ Behind'
    BY <1>1, <1>3 DEF IInv, CInv, Elsewhere, Unopened, InHand, Behind
  <2> QED BY <1>1, <1>3, <2>1, ToldStays
<1>6. RanOnce' /\ Retries' /\ Between' /\ Waiting'
  BY <1>1, <1>3, NoConn DEF IInv, CInv, RanOnce, Retries, Between, Waiting, Current
<1> QED
  BY <1>4, <1>5, <1>6 DEF IInv, CInv

\* Taking a frame leaves what the next call may find.
LEMMA FrameTaken ==
  ASSUME IInv, NEW c \in Conn, down[c] # <<>>,
         down' = [down EXCEPT ![c] = Tail(@)], UNCHANGED end
  PROVE  /\ down' \in [Conn -> Seq(Frames)]
         /\ \A d \in Conn : d # c => down'[d] = down[d]
         /\ Head(down[c]) = down[c][1]
         /\ Len(down'[c]) <= 1
         /\ down'[c] # <<>> => down'[c][1] = "SOCKET_CLOSED" /\ end[c] = "hup"
         /\ Behind'
<1>1. down \in [Conn -> Seq(Frames)] /\ down[c] \in Seq(Frames)
  BY DEF IInv, TypeOK
<1>2. /\ Tail(down[c]) \in Seq(Frames) /\ Len(Tail(down[c])) = Len(down[c]) - 1
      /\ Head(down[c]) = down[c][1] /\ Len(down[c]) \in Nat /\ Len(down[c]) > 0
      /\ Tail(down[c]) # <<>> => Tail(down[c])[1] = down[c][2]
      /\ Tail(down[c]) # <<>> => Len(Tail(down[c])) > 0
  BY <1>1, TailOf, EmptySeq, LenProperties
<1>3. /\ down' \in [Conn -> Seq(Frames)] /\ down'[c] = Tail(down[c])
      /\ \A d \in Conn : d # c => down'[d] = down[d]
  BY <1>1, <1>2
<1>4. /\ Len(down[c]) <= 2
      /\ Len(down[c]) > 1 => down[c][2] = "SOCKET_CLOSED" /\ end[c] = "hup"
  BY DEF IInv, CInv, Behind
<1>5. Len(down'[c]) <= 1
  BY <1>2, <1>3, <1>4
<1>6. down'[c] # <<>> => down'[c][1] = "SOCKET_CLOSED" /\ end[c] = "hup"
  <2>1. down'[c] # <<>> => Len(down[c]) > 1
    BY <1>2, <1>3, <1>4
  <2> QED BY <1>2, <1>3, <1>4, <2>1
<1>7. Behind'
  <2>1. ~ (Len(down'[c]) > 1) /\ Len(down'[c]) <= 2
    BY <1>2, <1>3, <1>5
  <2> QED BY <1>3, <2>1 DEF IInv, CInv, Behind
<1> QED
  BY <1>2, <1>3, <1>5, <1>6, <1>7

\* An answer that is there is the first the client gets.
LEMMA FirstAnswer ==
  ASSUME IInv, NEW c \in Conn, client.sock = c, client.pc = "recv", down[c] # <<>>
  PROVE  /\ client.tried = 0
         /\ up[c] = 0 /\ srv[c] # "replying"
         /\ NotRun(c) \/ HasRun(c)
         /\ Current \in Call
<1>1. client.tried = 0
  <2>1. ~ (client.tried > 0)
    BY NoConn DEF IInv, CInv, Retries
  <2> QED BY <2>1, CallTyped DEF IInv
<1> QED
  BY <1>1, CallTyped DEF IInv, CInv, InHand, Waiting, RanOnce

LEMMA RecvResultKeeps ==
  ASSUME IInv, NEW c \in Conn, RecvResult(c)
  PROVE  IInv'
<1> DEFINE how == IF Wants /\ ~Reads[ran[Current][1]][made[Current]] THEN "unreadable"
                    ELSE IF client.tried > MaxTry THEN "failed" ELSE "returned"
<1>1. /\ UNCHANGED <<made, ran, server, opened, end, srv, shut, up>>
      /\ client.pc = "recv" /\ client.sock = c
      /\ down[c] # <<>> /\ Head(down[c]) = "result"
      /\ down' = [down EXCEPT ![c] = Tail(@)]
      /\ Contract!Moves(c, {"executed"}, "free")
      /\ client' = [client EXCEPT !.pc = "idle"]
      /\ outcome' = [outcome EXCEPT ![Current] = how]
  BY DEF RecvResult, Receives, Contract!Return, Ends, Goes
<1>2. /\ down' \in [Conn -> Seq(Frames)]
      /\ \A d \in Conn : d # c => down'[d] = down[d]
      /\ Len(down'[c]) <= 1
      /\ down'[c] # <<>> => down'[c][1] = "SOCKET_CLOSED" /\ end[c] = "hup"
      /\ Behind'
  BY <1>1, FrameTaken
<1>3. /\ client.tried = 0 /\ up[c] = 0 /\ srv[c] # "replying" /\ Current \in Call
  BY <1>1, FirstAnswer
<1>4. /\ phase'[c] = "free" /\ phase' \in [Conn -> Contract!Phases]
      /\ \A d \in Conn : d # c => phase'[d] = phase[d]
  <2>1. "free" \in Contract!Phases
    BY DEF Contract!Phases
  <2> QED BY <1>1, <2>1, PhaseMoves DEF IInv
<1>5. /\ client' \in [pc : ClientPcs, tried : Tries, sock : Conn \cup {Uninit, Stale}]
      /\ client'.pc = "idle" /\ client'.sock = c /\ client'.tried = 0
  BY <1>1, <1>3 DEF IInv, TypeOK, ClientPcs
<1>6. outcome' \in [Call -> Outcomes] /\ Told'
  <2>1. how \in {"returned", "unreadable"}
    BY <1>3, RpcAssumption
  <2>2. {"returned", "unreadable"} \subseteq Outcomes \ {"failed", "pending"}
    BY DEF Outcomes
  <2>3. Len(ran[Current]) = 1
    <3>1. NotRun(c) \/ HasRun(c)
      BY <1>1, FirstAnswer
    <3>2. phase[c] = "executed"
      BY <1>1 DEF Contract!Moves
    <3> QED BY <3>1, <3>2 DEF NotRun, HasRun
  <2> HIDE DEF how
  <2> QED BY <1>1, <1>3, <1>5, <2>1, <2>2, <2>3, ToldAtEnd
<1> HIDE DEF how
<1>7. TypeOK'
  BY <1>1, <1>2, <1>4, <1>5, <1>6 DEF IInv, TypeOK
<1>8. Elsewhere' /\ Unopened'
  <2>1. Elsewhere'
    BY <1>1, <1>5 DEF IInv, CInv, Elsewhere
  <2>2. \A d \in Conn : d > opened => d # c
    BY <1>1, CallTyped DEF IInv, CInv, Unopened
  <2>3. Unopened'
    BY <1>1, <1>2, <1>4, <1>5, <2>2 DEF IInv, CInv, Unopened
  <2> QED BY <2>1, <2>3
<1>9. InHand'
  BY <1>1, <1>2, <1>3, <1>4, <1>5 DEF IInv, CInv, InHand
<1>10. RanOnce' /\ Retries' /\ Between' /\ Waiting'
  BY <1>1, <1>2, <1>4, <1>5 DEF IInv, CInv, RanOnce, Retries, Between, Waiting, Current
<1> QED
  BY <1>2, <1>6, <1>7, <1>8, <1>9, <1>10 DEF IInv, CInv

LEMMA RecvErrorKeeps ==
  ASSUME IInv, NEW c \in Conn, RecvError(c)
  PROVE  IInv'
<1>1. /\ UNCHANGED <<made, ran, server, opened, end, srv, shut, up>>
      /\ client.pc = "recv" /\ client.sock = c
      /\ down[c] # <<>> /\ Head(down[c]) \in ErrorCodes
      /\ down' = [down EXCEPT ![c] = Tail(@)]
      /\ IF Head(down[c]) = "SOCKET_CLOSED" THEN Contract!GiveUp(c) ELSE Contract!Reject(c)
      /\ IF Head(down[c]) = "SOCKET_CLOSED" \/ ~Wants
           THEN Goes("connect") /\ UNCHANGED outcome
           ELSE Ends("error")
  BY DEF RecvError, Receives
<1>2. /\ down' \in [Conn -> Seq(Frames)]
      /\ \A d \in Conn : d # c => down'[d] = down[d]
      /\ Len(down'[c]) <= 1
      /\ down'[c] # <<>> => down'[c][1] = "SOCKET_CLOSED" /\ end[c] = "hup"
      /\ Behind' /\ down[c][1] \in ErrorCodes
  BY <1>1, FrameTaken
<1>3. /\ client.tried = 0 /\ up[c] = 0 /\ srv[c] # "replying" /\ Current \in Call
      /\ ran[Current] = <<>>
  BY <1>1, <1>2, FirstAnswer DEF NotRun, HasRun, ErrorCodes
<1>4. /\ phase' \in [Conn -> Contract!Phases]
      /\ \A d \in Conn : d # c => phase'[d] = phase[d]
      /\ Head(down[c]) # "SOCKET_CLOSED" => phase'[c] = "free"
  <2>1. "free" \in Contract!Phases /\ "resend" \in Contract!Phases
    BY DEF Contract!Phases
  <2>2. \/ Contract!Moves(c, {"free", "called"}, "resend") /\ Head(down[c]) = "SOCKET_CLOSED"
        \/ Contract!Moves(c, {"called"}, "free")
    BY <1>1 DEF Contract!GiveUp, Contract!Reject
  <2> QED BY <2>1, <2>2, PhaseMoves DEF IInv
<1>5. /\ client' \in [pc : ClientPcs, tried : Tries, sock : Conn \cup {Uninit, Stale}]
      /\ client'.sock = c /\ client'.tried = 0
      /\ \/ client'.pc = "connect"
         \/ client'.pc = "idle" /\ phase'[c] = "free"
  BY <1>1, <1>3, <1>4 DEF IInv, TypeOK, ClientPcs, Goes, Ends
<1>6. outcome' \in [Call -> Outcomes] /\ Told'
  <2>1. "error" \in Outcomes \ {"failed", "pending"}
    BY DEF Outcomes
  <2>2. CASE UNCHANGED outcome /\ Goes("connect")
    <3>1. client'.pc = "connect"
      BY <2>2 DEF IInv, TypeOK, Goes
    <3> QED BY <1>1, <2>2, <3>1, ToldStays DEF IInv, TypeOK
  <2>3. CASE Ends("error")
    <3>1. client'.pc = "idle" /\ outcome' = [outcome EXCEPT ![Current] = "error"]
      BY <2>3 DEF IInv, TypeOK, Goes, Ends
    <3> QED BY <1>1, <1>3, <2>1, <3>1, ToldAtEnd
  <2> QED BY <1>1, <2>2, <2>3
<1>7. TypeOK'
  BY <1>1, <1>2, <1>4, <1>5, <1>6 DEF IInv, TypeOK
<1>8. Elsewhere' /\ Unopened'
  <2>1. Elsewhere'
    BY <1>1, <1>5 DEF IInv, CInv, Elsewhere
  <2>2. \A d \in Conn : d > opened => d # c
    BY <1>1, CallTyped DEF IInv, CInv, Unopened
  <2>3. Unopened'
    BY <1>1, <1>2, <1>4, <1>5, <2>2 DEF IInv, CInv, Unopened
  <2> QED BY <2>1, <2>3
<1>9. InHand'
  BY <1>1, <1>2, <1>3, <1>4, <1>5 DEF IInv, CInv, InHand
<1>10. RanOnce' /\ Retries' /\ Between' /\ Waiting'
  BY <1>1, <1>2, <1>3, <1>4, <1>5 DEF IInv, CInv, RanOnce, Retries, Between, Waiting, Current
<1> QED
  BY <1>2, <1>6, <1>7, <1>8, <1>9, <1>10 DEF IInv, CInv

\* What the server does while the client waits for its first answer.
LEMMA Served ==
  ASSUME IInv, NEW c \in Conn, srv[c] = "idle", up[c] # 0
  PROVE  /\ end[c] = "open" /\ down[c] = <<>> /\ client.sock = c /\ client.pc \in {"recv", "astray"}
         /\ up[c] = Current /\ phase[c] = "called" /\ client.tried = 0
         /\ Current \in Call /\ ran[Current] = <<>>
         /\ made[Current] \in Methods /\ server.version \in Versions
<1>1. /\ end[c] = "open" /\ down[c] = <<>> /\ client.sock = c /\ client.pc \in {"recv", "astray"}
      /\ up[c] = Current /\ phase[c] = "called"
  BY DEF IInv, CInv, InHand
<1>2. client.tried = 0
  <2>1. ~ (client.tried > 0)
    BY <1>1, NoConn DEF IInv, CInv, Retries
  <2> QED BY <2>1, CallTyped DEF IInv
<1>3. Current \in Call /\ Current \in 1 .. Len(made)
  BY <1>1, CallTyped DEF IInv, Current, Call
<1>4. made[Current] \in Methods /\ server.version \in Versions
  BY <1>3 DEF IInv, TypeOK
<1>5. ran[Current] = <<>>
  BY <1>1, <1>2 DEF IInv, CInv, Waiting, NotRun, HasRun
<1> QED
  BY <1>1, <1>2, <1>3, <1>4, <1>5

\* The method runs: it has not before.
LEMMA ServeRuns ==
  ASSUME IInv, NEW c \in Conn, Serve(c), AnswerTo(up[c]) = "result"
  PROVE  IInv'
<1>1. /\ UNCHANGED <<client, made, outcome, server, opened, end, shut, down>>
      /\ srv[c] = "idle" /\ up[c] # 0
      /\ up' = [up EXCEPT ![c] = 0] /\ srv' = [srv EXCEPT ![c] = "replying"]
      /\ ran' = [ran EXCEPT ![up[c]] = Append(@, server.version)]
      /\ \/ Contract!Moves(c, {"called"}, "executed")
         \/ Contract!Moves(c, {"abandoned"}, "gone")
  BY DEF Serve, Execute, Contract!Execute, clientVars
<1>2. /\ end[c] = "open" /\ down[c] = <<>> /\ client.sock = c /\ client.pc \in {"recv", "astray"}
      /\ up[c] = Current /\ phase[c] = "called" /\ client.tried = 0
      /\ Current \in Call /\ ran[Current] = <<>> /\ server.version \in Versions
  BY <1>1, Served
<1>3. /\ phase'[c] = "executed" /\ phase' \in [Conn -> Contract!Phases]
      /\ \A d \in Conn : d # c => phase'[d] = phase[d]
  <2>1. "executed" \in Contract!Phases /\ Contract!Moves(c, {"called"}, "executed")
    BY <1>1, <1>2 DEF Contract!Phases, Contract!Moves
  <2> QED BY <2>1, PhaseMoves DEF IInv
<1>4. /\ ran' \in [Call -> Seq(Versions)]
      /\ Len(ran'[Current]) = 1 /\ Len(ran'[Current]) <= 1
      /\ \A k \in Call : k # Current => ran'[k] = ran[k]
  <2>1. /\ Append(<<>>, server.version) \in Seq(Versions)
        /\ Len(Append(<<>>, server.version)) = 1
        /\ Len(Append(<<>>, server.version)) <= 1
    BY <1>2
  <2>2. ran \in [Call -> Seq(Versions)]
    BY DEF IInv, TypeOK
  <2>3. ran' = [ran EXCEPT ![Current] = Append(<<>>, server.version)]
    BY <1>1, <1>2
  <2> QED BY <1>2, <2>1, <2>2, <2>3
<1>5. /\ up' \in [Conn -> Call \cup {0}] /\ \A d \in Conn : up'[d] = 0
      /\ srv' \in [Conn -> {"idle", "replying", "deaf", "over"}]
      /\ srv'[c] = "replying" /\ \A d \in Conn : d # c => srv'[d] = "over"
  BY <1>1, <1>2 DEF IInv, TypeOK, CInv, InHand, Elsewhere
<1>6. TypeOK'
  BY <1>1, <1>3, <1>4, <1>5 DEF IInv, TypeOK
<1>7. Elsewhere' /\ Behind' /\ Retries' /\ Between'
  BY <1>1, <1>2, <1>5 DEF IInv, CInv, Elsewhere, Behind, Retries, Between
<1>8. Unopened'
  <2>1. \A d \in Conn : d > opened => d # c
    BY <1>2, CallTyped DEF IInv, CInv, Unopened
  <2> QED BY <1>1, <1>3, <2>1 DEF IInv, CInv, Unopened
<1>9. InHand'
  BY <1>1, <1>2, <1>3, <1>5 DEF IInv, CInv, InHand
<1>10. RanOnce'
  <2>1. Current' = Current /\ Current \in Nat
    BY <1>1, CallTyped DEF IInv, Current
  <2>2. ASSUME NEW k \in Call PROVE Len(ran'[k]) <= 1 /\ (k > Current => ran'[k] = <<>>)
    <3>1. CASE k = Current
      <4>1. ~ (k > Current)
        BY <2>1, <3>1
      <4>2. Len(ran'[k]) <= 1
        BY <1>4, <3>1
      <4> QED BY <4>1, <4>2
    <3>2. CASE k # Current
      BY <1>4, <3>2 DEF IInv, CInv, RanOnce
    <3> QED BY <3>1, <3>2
  <2> QED BY <1>1, <1>2, <2>1, <2>2 DEF IInv, CInv, RanOnce
<1>11. Waiting'
  BY <1>1, <1>2, <1>3, <1>4, <1>5 DEF Waiting, HasRun, Current
<1>12. Told'
  <2>1. Current' = Current /\ outcome[Current] = "pending"
    BY <1>1, <1>2 DEF Current, IInv, CInv, Told
  <2>2. ASSUME NEW k \in Call
        PROVE  /\ outcome[k] # "failed"
               /\ k > Current \/ k = Current => outcome[k] = "pending"
               /\ outcome[k] \in {"returned", "unreadable"} => Len(ran'[k]) = 1
               /\ outcome[k] \in {"error", "host"} => ran'[k] = <<>>
    <3>1. CASE k = Current
      BY <2>1, <3>1
    <3>2. CASE k # Current
      BY <1>2, <1>4, <3>2 DEF IInv, CInv, Told
    <3> QED BY <3>1, <3>2
  <2> QED BY <1>1, <1>2, <2>1, <2>2 DEF Told
<1> QED
  BY <1>6, <1>7, <1>8, <1>9, <1>10, <1>11, <1>12 DEF IInv, CInv

\* The request is answered with an error, and nothing runs.
LEMMA ServeRefuses ==
  ASSUME IInv, NEW c \in Conn, Serve(c), AnswerTo(up[c]) # "result"
  PROVE  IInv'
<1> DEFINE a == AnswerTo(up[c])
<1>1. /\ UNCHANGED <<client, made, outcome, ran, server, opened, end, shut, phase>>
      /\ srv[c] = "idle" /\ up[c] # 0
      /\ up' = [up EXCEPT ![c] = 0]
      /\ down' = [down EXCEPT ![c] = Append(@, a)]
      /\ \E next \in {"idle", "deaf"} : srv' = [srv EXCEPT ![c] = next]
  BY DEF Serve, clientVars, contractVars
<1>2. /\ end[c] = "open" /\ down[c] = <<>> /\ client.sock = c /\ client.pc \in {"recv", "astray"}
      /\ up[c] = Current /\ phase[c] = "called" /\ client.tried = 0
      /\ Current \in Call /\ ran[Current] = <<>>
      /\ made[Current] \in Methods /\ server.version \in Versions
  BY <1>1, Served
<1>3. a \in ErrorCodes /\ a \in Frames
  BY <1>2, AnswerKnown DEF AnswerTo, Frames
<1> HIDE DEF a
<1>4. /\ down' \in [Conn -> Seq(Frames)] /\ Len(down'[c]) = 1 /\ down'[c][1] = a
      /\ \A d \in Conn : d # c => down'[d] = down[d]
  <2>1. /\ Append(<<>>, a) \in Seq(Frames) /\ Len(Append(<<>>, a)) = 1
        /\ Append(<<>>, a)[1] = a
    BY <1>3
  <2>2. down \in [Conn -> Seq(Frames)] /\ down' = [down EXCEPT ![c] = Append(<<>>, a)]
    BY <1>1, <1>2 DEF IInv, TypeOK
  <2> QED BY <2>1, <2>2
<1>5. /\ up' \in [Conn -> Call \cup {0}] /\ \A d \in Conn : up'[d] = 0
      /\ srv' \in [Conn -> {"idle", "replying", "deaf", "over"}]
      /\ srv'[c] \in {"idle", "deaf"} /\ \A d \in Conn : d # c => srv'[d] = "over"
  BY <1>1, <1>2 DEF IInv, TypeOK, CInv, InHand, Elsewhere
<1>6. TypeOK'
  BY <1>1, <1>4, <1>5 DEF IInv, TypeOK
<1>7. Elsewhere' /\ Told' /\ RanOnce'
  <2>1. Elsewhere' /\ RanOnce'
    BY <1>1, <1>2, <1>5 DEF IInv, CInv, Elsewhere, RanOnce, Current
  <2> QED BY <1>1, <2>1, ToldStays
<1>8. Unopened'
  <2>1. \A d \in Conn : d > opened => d # c
    BY <1>2, CallTyped DEF IInv, CInv, Unopened
  <2> QED BY <1>1, <1>4, <2>1 DEF IInv, CInv, Unopened
<1>9. InHand'
  BY <1>1, <1>2, <1>5 DEF IInv, CInv, InHand
<1>10. Behind'
  BY <1>1, <1>4 DEF IInv, CInv, Behind
<1>11. Retries' /\ Between' /\ Waiting'
  BY <1>1, <1>2, <1>3, <1>4 DEF Retries, Between, Waiting, NotRun, Current
<1> QED
  BY <1>6, <1>7, <1>8, <1>9, <1>10, <1>11 DEF IInv, CInv

LEMMA CloseKeeps ==
  ASSUME IInv, NEW c \in Conn, Close(c)
  PROVE  IInv'
<1>1. /\ UNCHANGED <<client, made, outcome, ran, server, opened, shut, phase>>
      /\ srv[c] \in {"idle", "deaf"}
      /\ srv' = [srv EXCEPT ![c] = "over"] /\ up' = [up EXCEPT ![c] = 0]
      /\ end' = [end EXCEPT ![c] = IF up[c] = 0 THEN "hup" ELSE "reset"]
      /\ down' = down \/ down' = [down EXCEPT ![c] = Append(@, "SOCKET_CLOSED")]
  BY DEF Close, clientVars, contractVars
<1>2. /\ end[c] = "open" /\ client.sock = c
      /\ client.tried = 0 /\ client.pc \notin {"spin", "killed"}
      /\ ~ (Len(down[c]) > 1) /\ Len(down[c]) <= 2 /\ down[c] \in Seq(Frames)
  <2>1. end[c] = "open" /\ client.sock = c
    BY <1>1 DEF IInv, CInv, InHand, Elsewhere
  <2>2. ~ (client.tried > 0) /\ client.pc \notin {"spin", "killed"}
    BY <2>1, NoConn DEF IInv, CInv, Retries
  <2>3. ~ (Len(down[c]) > 1) /\ Len(down[c]) <= 2
    BY <2>1 DEF IInv, CInv, Behind
  <2> QED BY <2>1, <2>2, <2>3, CallTyped, FramesOn DEF IInv
<1>3. /\ down' \in [Conn -> Seq(Frames)]
      /\ \A d \in Conn : d # c => down'[d] = down[d]
      /\ Len(down'[c]) <= 2
      /\ down[c] = <<>> => /\ ~ (Len(down'[c]) > 1) /\ (Len(down[c]) <= 1 => Len(down'[c]) <= 1)
                           /\ down'[c] # <<>> => down'[c][1] = "SOCKET_CLOSED"
      /\ down[c] # <<>> => /\ down'[c] # <<>> /\ down'[c][1] = down[c][1]
                           /\ Len(down'[c]) > 1 => down'[c][2] = "SOCKET_CLOSED"
  <2>1. down \in [Conn -> Seq(Frames)]
    BY DEF IInv, TypeOK
  <2>2. CASE down' = down
    BY <1>2, <2>1, <2>2
  <2>3. CASE down' = [down EXCEPT ![c] = Append(@, "SOCKET_CLOSED")]
    <3>1. /\ down'[c] = Append(down[c], "SOCKET_CLOSED")
          /\ Append(down[c], "SOCKET_CLOSED") \in Seq(Frames)
      BY <1>2, <2>1, <2>3, ClosedAfter
    <3>2. down' \in [Conn -> Seq(Frames)] /\ \A d \in Conn : d # c => down'[d] = down[d]
      BY <2>1, <2>3, <3>1
    <3> QED BY <1>2, <3>1, <3>2, ClosedAfter
  <2> QED BY <1>1, <2>2, <2>3
<1>4. /\ end' \in [Conn -> {"open", "hup", "reset"}]
      /\ end'[c] = IF up[c] = 0 THEN "hup" ELSE "reset"
      /\ \A d \in Conn : d # c => end'[d] = end[d]
      /\ srv' \in [Conn -> {"idle", "replying", "deaf", "over"}]
      /\ \A d \in Conn : srv'[d] = "over"
      /\ up' \in [Conn -> Call \cup {0}] /\ \A d \in Conn : up'[d] = 0
  BY <1>1, <1>2 DEF IInv, TypeOK, CInv, InHand, Elsewhere
<1>5. up[c] # 0 => down[c] = <<>> /\ phase[c] = "called" /\ client.pc \in {"recv", "astray"}
  BY DEF IInv, CInv, InHand
<1>6. TypeOK'
  BY <1>1, <1>3, <1>4 DEF IInv, TypeOK
<1>7. Elsewhere' /\ Told' /\ RanOnce' /\ InHand'
  <2>1. Elsewhere' /\ RanOnce' /\ InHand'
    BY <1>1, <1>4 DEF IInv, CInv, Elsewhere, RanOnce, InHand, Current
  <2> QED BY <1>1, <2>1, ToldStays
<1>8. Unopened'
  <2>1. \A d \in Conn : d > opened => d # c
    BY <1>2, CallTyped DEF IInv, CInv, Unopened
  <2> QED BY <1>1, <1>3, <1>4, <2>1 DEF IInv, CInv, Unopened
<1>9. Behind'
  <2>1. /\ Len(down'[c]) <= 2
        /\ Len(down'[c]) > 1 => down'[c][2] = "SOCKET_CLOSED" /\ end'[c] = "hup"
    <3>1. CASE down[c] = <<>>
      BY <1>3, <3>1
    <3>2. CASE down[c] # <<>>
      <4>1. end'[c] = "hup"
        BY <1>4, <1>5, <3>2
      <4> QED BY <1>3, <3>2, <4>1
    <3> QED BY <3>1, <3>2
  <2>2. ASSUME NEW d \in Conn, d # c
        PROVE  /\ Len(down'[d]) <= 2
               /\ Len(down'[d]) > 1 => down'[d][2] = "SOCKET_CLOSED" /\ end'[d] = "hup"
    <3>1. down'[d] = down[d] /\ end'[d] = end[d]
      BY <1>3, <1>4, <2>2
    <3>2. /\ Len(down[d]) <= 2
          /\ Len(down[d]) > 1 => down[d][2] = "SOCKET_CLOSED" /\ end[d] = "hup"
      BY DEF IInv, CInv, Behind
    <3> QED BY ONLY <3>1, <3>2
  <2> QED BY ONLY <2>1, <2>2 DEF Behind
<1>10. Retries'
  BY <1>1, <1>2 DEF Retries, IInv, CInv
<1>11. Between'
  <2>1. SUFFICES ASSUME client.pc \in {"idle", "send"}
                 PROVE  /\ phase[c] = "free" /\ Len(down'[c]) <= 1
                        /\ down'[c] # <<>> => down'[c][1] = "SOCKET_CLOSED" /\ end'[c] = "hup"
    BY <1>1, <1>2 DEF Between
  <2>2. phase[c] = "free" /\ down[c] = <<>> /\ Len(down[c]) <= 1
    BY <1>2, <2>1 DEF IInv, CInv, Between
  <2>3. end'[c] = "hup"
    BY <1>4, <1>5, <2>1
  <2> QED BY <1>2, <1>3, <2>2, <2>3
<1>12. Waiting'
  <2>1. SUFFICES ASSUME client.pc \in {"recv", "astray"} PROVE NotRun(c)' \/ HasRun(c)'
    BY <1>1, <1>2 DEF Waiting
  <2>2. end'[c] # "open" /\ Current' = Current
    BY <1>1, <1>4 DEF Current
  <2>3. CASE NotRun(c)
    <3>1. down'[c] # <<>> => down'[c][1] \in ErrorCodes
      <4>1. CASE down[c] = <<>>
        BY <1>3, <4>1 DEF ErrorCodes
      <4>2. CASE down[c] # <<>>
        BY <1>3, <2>3, <4>2 DEF NotRun
      <4> QED BY <4>1, <4>2
    <3> QED BY <1>1, <2>2, <2>3, <3>1 DEF NotRun
  <2>4. CASE HasRun(c)
    <3>1. down[c] # <<>>
      BY <1>1, <1>2, <2>4 DEF HasRun
    <3>2. down'[c] # <<>> /\ down'[c][1] = down[c][1]
      BY <1>3, <3>1
    <3> QED BY <1>1, <2>2, <2>4, <3>1, <3>2 DEF HasRun
  <2> QED BY <1>2, <2>1, <2>3, <2>4 DEF IInv, CInv, Waiting
<1> QED
  BY <1>6, <1>7, <1>8, <1>9, <1>10, <1>11, <1>12 DEF IInv, CInv

\* What a death does to a connection that was served, and to the others.
LEMMA DieTouches ==
  ASSUME IInv, Die
  PROVE  /\ end' \in [Conn -> {"open", "hup", "reset"}]
         /\ down' \in [Conn -> Seq(Frames)]
         /\ \A c \in Conn : srv[c] = "over" => end'[c] = end[c] /\ down'[c] = down[c]
         /\ \A c \in Conn : srv[c] # "over" =>
              /\ end'[c] # "open" /\ ~ (Len(down'[c]) > 1) /\ Len(down'[c]) <= 2
              /\ \/ down'[c] = down[c]
                 \/ down'[c] = <<>>
                 \/ srv[c] = "replying" /\ down'[c] = <<"part">>
<1>1. PICK e \in {"hup", "reset"} :
        end' = [c \in Conn |-> IF srv[c] # "over" THEN e ELSE end[c]]
  BY DEF Die
<1>2. /\ down \in [Conn -> Seq(Frames)] /\ end \in [Conn -> {"open", "hup", "reset"}]
      /\ <<>> \in Seq(Frames) /\ <<"part">> \in Seq(Frames)
      /\ ~ (Len(<<>>) > 1) /\ Len(<<>>) <= 2
      /\ ~ (Len(<<"part">>) > 1) /\ Len(<<"part">>) <= 2
  <2>1. "part" \in Frames
    BY DEF Frames
  <2> QED BY <2>1 DEF IInv, TypeOK
<1>3. \/ down' = down
      \/ down' = [c \in Conn |-> IF srv[c] # "over" THEN <<>> ELSE down[c]]
      \/ down' = [c \in Conn |-> IF srv[c] = "replying" /\ down[c] = <<>>
                                   THEN <<"part">> ELSE down[c]]
  BY DEF Die
<1>4. end' \in [Conn -> {"open", "hup", "reset"}] /\ down' \in [Conn -> Seq(Frames)]
  BY <1>1, <1>2, <1>3
<1>5. ASSUME NEW c \in Conn, srv[c] = "over"
      PROVE  end'[c] = end[c] /\ down'[c] = down[c]
  BY <1>1, <1>2, <1>3, <1>5
<1>6. ASSUME NEW c \in Conn, srv[c] # "over"
      PROVE  /\ end'[c] # "open" /\ ~ (Len(down'[c]) > 1) /\ Len(down'[c]) <= 2
             /\ \/ down'[c] = down[c]
                \/ down'[c] = <<>>
                \/ srv[c] = "replying" /\ down'[c] = <<"part">>
  <2>1. end'[c] # "open"
    BY <1>1, <1>6
  <2>2. end[c] = "open" /\ ~ (Len(down[c]) > 1) /\ Len(down[c]) <= 2
    BY <1>6 DEF IInv, CInv, InHand, Behind
  <2>3. \/ down'[c] = down[c]
        \/ down'[c] = <<>>
        \/ srv[c] = "replying" /\ down'[c] = <<"part">>
    BY <1>2, <1>3
  <2>4. ~ (Len(down'[c]) > 1) /\ Len(down'[c]) <= 2
    <3>1. CASE down'[c] = down[c]
      BY <2>2, <3>1
    <3>2. CASE down'[c] = <<>> \/ down'[c] = <<"part">>
      BY <1>2, <3>2
    <3> QED BY <2>3, <3>1, <3>2
  <2> QED BY <2>1, <2>3, <2>4
<1> QED
  BY <1>4, <1>5, <1>6

LEMMA DieKeeps ==
  ASSUME IInv, Die
  PROVE  IInv'
<1> DEFINE s == client.sock
<1>1. /\ UNCHANGED <<client, made, outcome, ran, opened, shut, phase>>
      /\ server.deaths < MaxDeaths
      /\ server' = [server EXCEPT !.up = FALSE, !.deaths = @ + 1]
      /\ srv' = [c \in Conn |-> "over"] /\ up' = [c \in Conn |-> 0]
  BY DEF Die, clientVars, contractVars
<1>2. /\ end' \in [Conn -> {"open", "hup", "reset"}]
      /\ down' \in [Conn -> Seq(Frames)]
      /\ \A c \in Conn : srv[c] = "over" => end'[c] = end[c] /\ down'[c] = down[c]
      /\ \A c \in Conn : srv[c] # "over" =>
           /\ end'[c] # "open" /\ ~ (Len(down'[c]) > 1) /\ Len(down'[c]) <= 2
           /\ \/ down'[c] = down[c]
              \/ down'[c] = <<>>
              \/ srv[c] = "replying" /\ down'[c] = <<"part">>
  BY DieTouches
<1>3. server' \in [up : BOOLEAN, version : Versions, deaths : 0 .. MaxDeaths]
  <2>1. server \in [up : BOOLEAN, version : Versions, deaths : 0 .. MaxDeaths]
    BY DEF IInv, TypeOK
  <2>2. server.deaths + 1 \in 0 .. MaxDeaths
    BY <1>1, <2>1, RpcAssumption
  <2> QED BY <1>1, <2>1, <2>2
<1>4. TypeOK'
  BY <1>1, <1>2, <1>3 DEF IInv, TypeOK
<1>5. Elsewhere' /\ Told' /\ RanOnce' /\ InHand'
  <2>1. Elsewhere' /\ RanOnce' /\ InHand'
    BY <1>1 DEF IInv, CInv, Elsewhere, RanOnce, InHand, Current
  <2> QED BY <1>1, <2>1, ToldStays
<1>6. Unopened'
  <2>1. \A c \in Conn : c > opened => srv[c] = "over"
    BY CallTyped DEF IInv, CInv, Unopened, Elsewhere
  <2> QED BY <1>1, <1>2, <2>1 DEF IInv, CInv, Unopened
<1>7. Behind'
  <2>1. SUFFICES ASSUME NEW c \in Conn
                 PROVE  /\ Len(down'[c]) <= 2
                        /\ Len(down'[c]) > 1 => down'[c][2] = "SOCKET_CLOSED" /\ end'[c] = "hup"
    BY DEF Behind
  <2>2. CASE srv[c] = "over"
    BY <1>2, <2>2 DEF IInv, CInv, Behind
  <2>3. CASE srv[c] # "over"
    BY <1>2, <2>3
  <2> QED BY <2>2, <2>3
<1>8. CASE s \notin Conn \/ (s \in Conn /\ srv[s] = "over")
  <2>1. s \in Conn => end'[s] = end[s] /\ down'[s] = down[s]
    BY <1>2, <1>8
  <2>2. Retries' /\ Between'
    BY <1>1, <2>1 DEF IInv, CInv, Retries, Between
  <2>3. Waiting'
    <3>1. SUFFICES ASSUME client.pc \in {"recv", "astray"}, client.tried = 0
                   PROVE  NotRun(s)' \/ HasRun(s)'
      BY <1>1 DEF Waiting
    <3>2. s \in Conn /\ (NotRun(s) \/ HasRun(s))
      BY <3>1 DEF IInv, CInv, TypeOK, Waiting
    <3>3. srv[s] # "replying"
      BY <1>8, <3>2
    <3> QED BY <1>1, <2>1, <3>2, <3>3 DEF NotRun, HasRun, Current
  <2> QED BY <1>4, <1>5, <1>6, <1>7, <2>2, <2>3 DEF IInv, CInv
<1>9. CASE s \in Conn /\ srv[s] # "over"
  <2>1. end[s] = "open" /\ ~ (client.tried > 0) /\ client.pc \notin {"spin", "killed"}
    BY <1>9, NoConn DEF IInv, CInv, InHand, Retries
  <2>2. client.tried = 0
    BY <2>1, CallTyped DEF IInv
  <2>3. Retries'
    BY <1>1, <2>1 DEF IInv, CInv, Retries
  <2>4. Between'
    <3>1. SUFFICES ASSUME client.pc \in {"idle", "send"}
                   PROVE  /\ phase[s] = "free" /\ Len(down'[s]) <= 1
                          /\ down'[s] # <<>> => down'[s][1] = "SOCKET_CLOSED" /\ end'[s] = "hup"
      BY <1>1 DEF Between
    <3>2. phase[s] = "free" /\ down[s] = <<>> /\ srv[s] # "replying" /\ Len(down[s]) <= 1
      BY <1>9, <2>1, <2>2, <3>1 DEF IInv, CInv, Between, InHand
    <3>3. down'[s] = <<>> /\ Len(down'[s]) <= 1
      BY <1>2, <1>9, <3>2
    <3> QED BY <3>2, <3>3
  <2>5. Waiting'
    <3>1. SUFFICES ASSUME client.pc \in {"recv", "astray"} PROVE NotRun(s)' \/ HasRun(s)'
      BY <1>1 DEF Waiting
    <3>2. CASE NotRun(s)
      <4>1. srv[s] # "replying"
        BY <1>9, <3>2 DEF IInv, CInv, InHand, NotRun
      <4> QED BY <1>1, <1>2, <1>9, <3>2, <4>1 DEF NotRun, Current
    <3>3. CASE HasRun(s)
      <4>1. \/ down'[s] = down[s] \/ down'[s] = <<>>
            \/ down'[s] # <<>> /\ down'[s][1] = "part"
        BY <1>2, <1>9
      <4> QED BY <1>1, <1>2, <1>9, <3>3, <4>1 DEF HasRun, Current
    <3> QED BY <2>2, <3>1, <3>2, <3>3 DEF IInv, CInv, Waiting
  <2> QED BY <1>4, <1>5, <1>6, <1>7, <2>3, <2>4, <2>5 DEF IInv, CInv
<1> QED
  BY <1>8, <1>9

LEMMA RestartKeeps ==
  ASSUME IInv, Restart
  PROVE  IInv'
<1>1. UNCHANGED <<client, made, outcome, ran, opened, end, srv, shut, up, down, phase>>
  BY DEF Restart, clientVars, connVars, contractVars
<1>2. server' \in [up : BOOLEAN, version : Versions, deaths : 0 .. MaxDeaths]
  BY DEF Restart, IInv, TypeOK
<1>3. TypeOK'
  BY <1>1, <1>2 DEF IInv, TypeOK
<1>4. CInv'
  BY <1>1 DEF IInv, CInv, Elsewhere, Unopened, InHand, Behind, RanOnce, Retries, Between,
      Waiting, NotRun, HasRun, Told, Current
<1> QED
  BY <1>3, <1>4 DEF IInv

-----------------------------------------------------------------------------
(* The theorems *)

LEMMA InitSound ==
  ASSUME Init
  PROVE  IInv
<1>1. /\ client = [pc |-> "idle", tried |-> 0, sock |-> Uninit]
      /\ made = <<>> /\ outcome = [k \in Call |-> "pending"] /\ ran = [k \in Call |-> <<>>]
      /\ server \in [up : BOOLEAN, version : Versions, deaths : {0}]
      /\ opened = 0 /\ end = [c \in Conn |-> "open"] /\ srv = [c \in Conn |-> "over"]
      /\ shut = [c \in Conn |-> FALSE] /\ up = [c \in Conn |-> 0]
      /\ down = [c \in Conn |-> <<>>] /\ phase = [c \in Conn |-> "free"]
  BY DEF Init, Contract!Init
<1>2. /\ 0 \in Tries /\ Uninit \notin Conn /\ Stale \notin Conn
      /\ <<>> \in Seq(Methods) /\ <<>> \in Seq(Versions) /\ <<>> \in Seq(Frames)
      /\ Len(<<>>) = 0
  BY NoConn, RpcAssumption DEF Tries
<1>3. TypeOK
  BY <1>1, <1>2, RpcAssumption DEF TypeOK, ClientPcs, Outcomes, Contract!Phases
<1>4. /\ Elsewhere /\ Unopened /\ InHand /\ Behind /\ Retries /\ Between /\ Waiting
      /\ Told
  BY <1>1, <1>2 DEF Elsewhere, Unopened, InHand, Behind, Retries, Between, Waiting,
      Told, Uninit
<1>5. RanOnce
  BY <1>1, <1>2 DEF RanOnce
<1> QED
  BY <1>3, <1>4, <1>5 DEF IInv, CInv

LEMMA StepSound ==
  ASSUME IInv, [Next]_vars
  PROVE  IInv'
<1>1. CASE UNCHANGED vars
  <2>1. UNCHANGED <<client, made, outcome, ran, server, opened, end, srv, shut, up, down, phase>>
    BY <1>1 DEF vars, clientVars, connVars, contractVars
  <2> QED BY <2>1 DEF IInv, TypeOK, CInv, Elsewhere, Unopened, InHand, Behind, RanOnce,
              Retries, Between, Waiting, NotRun, HasRun, Told, Current
<1>2. CASE MakeCall
  BY <1>2, MakeCallKeeps
<1>3. CASE Connect \/ ConnectFails \/ SendStale
  BY <1>3, ConnectKeeps, ConnectFailsKeeps, SendStaleKeeps
<1>4. ASSUME NEW c \in Conn, SendOpen(c) \/ SendLate(c) \/ SendFails(c)
      PROVE  IInv'
  BY <1>4, SendOpenKeeps, SendLateKeeps, FailuresKeep
<1>5. ASSUME NEW c \in Conn,
             \/ RecvResult(c) \/ RecvTooMuch(c) \/ RecvError(c)
             \/ RecvFails(c) \/ RecvInterrupted(c) \/ RecvPart(c)
      PROVE  IInv'
  BY <1>5, RecvResultKeeps, RecvErrorKeeps, FailuresKeep, InterruptedKeeps
<1>6. ASSUME NEW c \in Conn, Serve(c) \/ Reply(c) \/ Close(c) \/ Shut(c)
      PROVE  IInv'
  BY <1>6, ServeRuns, ServeRefuses, ReplyKeeps, CloseKeeps, ShutKeeps
<1>7. CASE Die
  BY <1>7, DieKeeps
<1>8. CASE Restart
  BY <1>8, RestartKeeps
<1> QED
  BY <1>1, <1>2, <1>3, <1>4, <1>5, <1>6, <1>7, <1>8 DEF Next, ClientStep, ServerNext

\* The strengthening of the invariants is one.
THEOREM Invariant == Spec => []IInv
BY InitSound, StepSound, PTL DEF Spec

\* Every variable has its type, and UNINIT_SOCKET is never written to or read
\* from.
THEOREM Typed == Spec => []TypeOK
<1>1. IInv => TypeOK
  BY DEF IInv
<1> QED
  BY <1>1, Invariant, PTL

\* Client and server agree about where a call stands, whatever the stubs, the
\* number of calls and of connections, and what the server dies of, up to a
\* read that fails on a connection which is alive.
THEOREM AlwaysInStep == Spec => []InStep
<1>1. ASSUME IInv PROVE InStep
  <2>1. SUFFICES ASSUME NEW c \in Conn, client.sock = c
                 PROVE  /\ client.pc = "send" /\ end[c] = "open" => phase[c] = "free"
                        /\ up[c] # 0 => up[c] = Current /\ phase[c] = "called"
                        /\ srv[c] = "replying" =>
                             client.pc \in {"recv", "astray"} /\ phase[c] = "executed"
                        /\ client.pc = "recv" /\ down[c] # <<>> =>
                             phase[c] = IF Head(down[c]) \in ErrorCodes THEN "called"
                                        ELSE "executed"
    BY DEF InStep
  <2>2. ASSUME client.pc = "send", end[c] = "open"
        PROVE  phase[c] = "free"
    <3>1. ~ (client.tried > 0)
      BY <1>1, <2>1, <2>2, NoConn DEF IInv, CInv, Retries
    <3>2. client.tried = 0
      BY <1>1, <3>1, CallTyped DEF IInv
    <3> QED BY <1>1, <2>1, <2>2, <3>2 DEF IInv, CInv, Between
  <2>3. ASSUME client.pc = "recv", down[c] # <<>>
        PROVE  phase[c] = IF Head(down[c]) \in ErrorCodes THEN "called" ELSE "executed"
    <3>1. NotRun(c) \/ HasRun(c)
      BY <1>1, <2>1, <2>3, FirstAnswer
    <3>2. Head(down[c]) = down[c][1]
      BY <1>1, <2>3, FramesOn, TailOf DEF IInv
    <3> QED BY <2>3, <3>1, <3>2 DEF NotRun, HasRun, ErrorCodes
  <2> QED BY <1>1, <2>1, <2>2, <2>3 DEF IInv, CInv, InHand
<1> QED
  BY <1>1, Invariant, PTL

\* No call runs its method twice, over however many connections it is sent, as
\* long as no read fails on a connection which is alive.
THEOREM RunsOnce == Spec => []AtMostOnce
<1>1. IInv => AtMostOnce
  BY DEF IInv, CInv, RanOnce, AtMostOnce
<1> QED
  BY <1>1, Invariant, PTL

\* What a caller is told of the method is what happened: after a result it has
\* run once, after an error or with no host it has not run and never will.
THEOREM ToldTheTruth == Spec => []OutcomeTrue
<1>1. IInv => OutcomeTrue
  BY CallTyped DEF IInv, CInv, Told, OutcomeTrue, Call, Current
<1> QED
  BY <1>1, Invariant, PTL

-----------------------------------------------------------------------------
(* Induction up to a number, and the recursive functions it justifies.  The *)
(* induction hypothesis is a set and the step a function, because a theorem *)
(* with an operator for a parameter cannot be instantiated.                 *)

LEMMA UpToInduction ==
  ASSUME NEW n \in Nat, NEW G, 0 \in G, \A i \in 1 .. n : i - 1 \in G => i \in G
  PROVE  \A i \in 0 .. n : i \in G
<1> DEFINE R == OpToRel(<, Nat)
           Bad == {i \in 0 .. n : i \notin G}
<1>1. SUFFICES ASSUME Bad # {} PROVE FALSE
  OBVIOUS
<1>2. Bad \subseteq Nat
  OBVIOUS
<1>3. PICK x \in Bad : \A y \in Bad : ~(<<y, x>> \in R)
  BY <1>1, <1>2, NatLessThanWellFounded, WFMin
<1>4. x \in 1 .. n /\ x - 1 \in 0 .. n /\ x - 1 < x
  OBVIOUS
<1>5. x - 1 \notin Bad
  <2>1. <<x - 1, x>> \in R
    BY <1>4 DEF OpToRel
  <2> QED
    BY <1>3, <2>1
<1> QED
  BY <1>4, <1>5

Iterates(h, n, b, step) ==
  \A i \in 0 .. n : h[i] = IF i = 0 THEN b ELSE step[<<i, h[i - 1]>>]

LEMMA Recursion ==
  ASSUME NEW n \in Nat, NEW S, NEW b \in S, NEW step \in [(0 .. n) \X S -> S]
  PROVE  \E h \in [0 .. n -> S] : Iterates(h, n, b, step)
<1> DEFINE Upto(k, g) == Iterates(g, k, b, step)
           G == {k \in 0 .. n : \E g \in [0 .. k -> S] : Upto(k, g)}
<1>1. 0 \in G
  <2> DEFINE g == [i \in 0 .. 0 |-> b]
  <2>1. g \in [0 .. 0 -> S] /\ Upto(0, g)
    BY DEF Iterates
  <2> HIDE DEF g
  <2>2. \E g0 \in [0 .. 0 -> S] : Upto(0, g0)
    BY <2>1
  <2>3. 0 \in 0 .. n
    OBVIOUS
  <2> QED
    BY <2>2, <2>3
<1>2. ASSUME NEW k \in 1 .. n, k - 1 \in G PROVE k \in G
  <2>1. PICK g \in [0 .. k - 1 -> S] : Upto(k - 1, g)
    BY <1>2
  <2> DEFINE h == [i \in 0 .. k |-> IF i = k THEN step[<<k, g[k - 1]>>] ELSE g[i]]
  <2>2. <<k, g[k - 1]>> \in (0 .. n) \X S
    OBVIOUS
  <2>3. h \in [0 .. k -> S]
    BY <2>2
  <2>4. ASSUME NEW i \in 0 .. k PROVE h[i] = IF i = 0 THEN b ELSE step[<<i, h[i - 1]>>]
    <3>1. i # 0 => i - 1 \in 0 .. k /\ i - 1 # k
      OBVIOUS
    <3>2. i # 0 => h[i - 1] = g[i - 1]
      BY <3>1
    <3>3. i # k => i \in 0 .. k - 1 /\ h[i] = g[i]
      OBVIOUS
    <3>4. k # 0 /\ h[k] = step[<<k, g[k - 1]>>]
      OBVIOUS
    <3> QED
      BY <2>1, <3>2, <3>3, <3>4 DEF Iterates
  <2> HIDE DEF h
  <2>5. Upto(k, h)
    BY <2>4 DEF Iterates
  <2> QED
    BY <2>3, <2>5
<1>3. n \in G
  <2> HIDE DEF G
  <2> QED
    BY <1>1, <1>2, UpToInduction
<1>4. PICK h \in [0 .. n -> S] : Upto(n, h)
  BY <1>3
<1> QED
  BY <1>4

-----------------------------------------------------------------------------
(* The stubs *)

\* The numbers of the names keep them apart.
LEMMA RankApart ==
  ASSUME NEW names, IsFiniteSet(names), names \subseteq Int, NEW m \in names, NEW n \in names
  PROVE  Rank(m, names) \in Nat /\ (Rank(m, names) = Rank(n, names) => m = n)
<1>1. ASSUME NEW a \in names, NEW b \in names, a < b
      PROVE  Rank(a, names) # Rank(b, names)
  <2> DEFINE A == {x \in names : x <= a}
             B == {x \in names : x <= b}
  <2>0. a \in Int /\ b \in Int
    OBVIOUS
  <2>1. b \in B /\ b \notin A
    BY <1>1, <2>0
  <2>2. ASSUME NEW x \in A PROVE x \in B
    <3>1. x \in Int /\ x <= a
      OBVIOUS
    <3> QED
      BY <1>1, <2>0, <3>1
  <2>3. IsFiniteSet(B)
    BY FS_Subset
  <2>4. Rank(a, names) = Cardinality(A) /\ Rank(b, names) = Cardinality(B)
    BY DEF Rank
  <2> HIDE DEF A, B
  <2>5. Cardinality(A) = Cardinality(B) => A = B
    BY <2>2, <2>3, FS_Subset
  <2> QED
    BY <2>1, <2>4, <2>5
<1>2. Rank(m, names) \in Nat
  <2>1. IsFiniteSet({x \in names : x <= m})
    BY FS_Subset
  <2> QED
    BY <2>1, FS_CardinalityType DEF Rank
<1>3. m < n \/ n < m \/ m = n
  OBVIOUS
<1> QED
  BY <1>1, <1>2, <1>3

\* A place among the members and a place below it can be told apart.
LEMMA PlacesApart ==
  ASSUME NEW a \in Nat, NEW b \in Nat, NEW s \in Seq(Nat), NEW t \in Seq(Nat)
  PROVE  <<a>> \o s \in Seq(Nat) /\ (<<a>> \o s = <<b>> \o t => a = b /\ s = t)
<1>1. /\ <<a>> \in Seq(Nat) /\ <<b>> \in Seq(Nat) /\ Len(<<a>>) = 1 /\ Len(<<b>>) = 1
      /\ <<a>>[1] = a /\ <<b>>[1] = b
  OBVIOUS
<1>2. (<<a>> \o s)[1] = a /\ (<<b>> \o t)[1] = b
  <2>1. Len(s) \in Nat /\ Len(t) \in Nat
    BY LenProperties
  <2>2. 1 \in 1 .. 1 + Len(s) /\ 1 \in 1 .. 1 + Len(t)
    BY <2>1
  <2> QED
    BY <1>1, <2>2, ConcatProperties
<1>3. <<a>> \o s = <<a>> \o t => s = t
  BY <1>1, ConcatSimplifications
<1> QED
  BY <1>1, <1>2, <1>3, ConcatProperties

\* Leaves no two of which lie at one place.
Leaf(types) == [at : Seq(Nat), type : types, name : Seq(Int)]

Apart(types) ==
  {S \in SUBSET Leaf(types) : \A a, b \in S : a.at = b.at => a.name = b.name}

LEMMA SpreadApart ==
  ASSUME NEW types, NEW fields, Named(fields), TypesOf(fields) \subseteq types,
         NEW inner \in [types -> Apart(types)]
  PROVE  Spread(fields, inner) \in Apart(types)
<1> DEFINE L(n, leaf) ==
      [at |-> <<Rank(n, DOMAIN fields)>> \o leaf.at, type |-> leaf.type,
       name |-> <<n>> \o leaf.name]
<1>1. ASSUME NEW n \in DOMAIN fields
      PROVE  n \in Int /\ Rank(n, DOMAIN fields) \in Nat /\ inner[fields[n]] \in Apart(types)
  <2>1. fields[n] \in types
    BY DEF TypesOf
  <2> QED
    BY <2>1, RankApart DEF Named
<1>2. ASSUME NEW n \in DOMAIN fields, NEW leaf \in inner[fields[n]]
      PROVE  leaf \in Leaf(types) /\ L(n, leaf) \in Leaf(types)
  <2>1. leaf \in Leaf(types)
    BY <1>1 DEF Apart
  <2>2. leaf.at \in Seq(Nat) /\ leaf.type \in types /\ leaf.name \in Seq(Int)
    BY <2>1 DEF Leaf
  <2>3. <<Rank(n, DOMAIN fields)>> \o leaf.at \in Seq(Nat)
    BY <1>1, <2>2, PlacesApart
  <2>4. <<n>> \o leaf.name \in Seq(Int)
    <3>1. <<n>> \in Seq(Int)
      BY <1>1
    <3> QED
      BY <2>2, <3>1, ConcatProperties
  <2> QED
    BY <2>1, <2>2, <2>3, <2>4 DEF Leaf
<1>3. ASSUME NEW x PROVE x \in Spread(fields, inner) <=>
                           \E n \in DOMAIN fields : \E leaf \in inner[fields[n]] : x = L(n, leaf)
  <2>1. Spread(fields, inner) =
          UNION {{L(n, leaf) : leaf \in inner[fields[n]]} : n \in DOMAIN fields}
    BY DEF Spread
  <2> HIDE DEF L
  <2> QED
    BY <2>1
<1>4. ASSUME NEW n \in DOMAIN fields, NEW m \in DOMAIN fields,
             NEW x \in inner[fields[n]], NEW y \in inner[fields[m]],
             L(n, x).at = L(m, y).at
      PROVE  L(n, x).name = L(m, y).name
  <2>1. x.at \in Seq(Nat) /\ y.at \in Seq(Nat)
    BY <1>2 DEF Leaf
  <2>2. Rank(n, DOMAIN fields) = Rank(m, DOMAIN fields) /\ x.at = y.at
    <3>1. /\ L(n, x).at = <<Rank(n, DOMAIN fields)>> \o x.at
          /\ L(m, y).at = <<Rank(m, DOMAIN fields)>> \o y.at
      OBVIOUS
    <3>2. PICK r \in Nat : r = Rank(n, DOMAIN fields)
      BY <1>1
    <3>3. PICK s \in Nat : s = Rank(m, DOMAIN fields)
      BY <1>1
    <3>4. <<r>> \o x.at = <<s>> \o y.at
      BY <1>4, <3>1, <3>2, <3>3
    <3> QED
      <4>1. r = s /\ x.at = y.at
        BY ONLY <2>1, <3>4, PlacesApart, r \in Nat, s \in Nat
      <4> QED
        BY <3>2, <3>3, <4>1
  <2>3. n = m
    BY <2>2, RankApart DEF Named
  <2>4. x.name = y.name
    BY <1>1, <2>2, <2>3 DEF Apart
  <2> QED
    BY <2>3, <2>4
<1> HIDE DEF L
<1>5. Spread(fields, inner) \subseteq Leaf(types)
  BY <1>2, <1>3
<1>6. ASSUME NEW a \in Spread(fields, inner), NEW b \in Spread(fields, inner), a.at = b.at
      PROVE  a.name = b.name
  <2>1. PICK n \in DOMAIN fields : \E leaf \in inner[fields[n]] : a = L(n, leaf)
    BY <1>3
  <2>2. PICK m \in DOMAIN fields : \E leaf \in inner[fields[m]] : b = L(m, leaf)
    BY <1>3
  <2> QED
    BY <1>4, <1>6, <2>1, <2>2
<1> QED
  BY <1>5, <1>6 DEF Apart

\* However deep classes are nested, the leaves of a value are kept apart by
\* their places.
LEMMA NestedApart ==
  ASSUME NEW classes, NEW types, IsFiniteSet(DOMAIN classes),
         \A t \in DOMAIN classes : Named(classes[t])
  PROVE  \E all : types \subseteq all /\ LeavesOf(classes, types) \in [all -> Apart(all)]
<1> DEFINE all == types \cup UNION {TypesOf(classes[k]) : k \in DOMAIN classes}
           N == Cardinality(DOMAIN classes)
           Basic(t) == {[at |-> <<>>, type |-> t, name |-> <<>>]}
           S == [all -> Apart(all)]
           First == [t \in all |-> IF t \notin DOMAIN classes THEN Basic(t) ELSE {}]
           Deeper(x) == [t \in all |-> IF t \notin DOMAIN classes THEN Basic(t)
                                        ELSE Spread(classes[t], x)]
           Equation(g) ==
             g = [depth \in 0 .. N |->
                    [t \in all |-> IF t \notin DOMAIN classes THEN Basic(t)
                                   ELSE IF depth = 0 THEN {}
                                   ELSE Spread(classes[t], g[depth - 1])]]
           nested == CHOOSE g : Equation(g)
<1>1. N \in Nat
  BY FS_CardinalityType
<1>2. LeavesOf(classes, types) = nested[N]
  BY DEF LeavesOf
<1>3. First \in S
  <2>1. ASSUME NEW t \in all PROVE Basic(t) \in Apart(all) /\ {} \in Apart(all)
    BY DEF Apart, Leaf
  <2> HIDE DEF all, Basic
  <2> QED
    BY <2>1
<1>4. ASSUME NEW x \in S PROVE Deeper(x) \in S
  <2>1. ASSUME NEW t \in all PROVE Basic(t) \in Apart(all)
    BY DEF Apart, Leaf
  <2>2. ASSUME NEW t \in DOMAIN classes PROVE Spread(classes[t], x) \in Apart(all)
    <3>1. Named(classes[t]) /\ TypesOf(classes[t]) \subseteq all
      OBVIOUS
    <3> HIDE DEF all
    <3> QED
      BY <3>1, SpreadApart
  <2> HIDE DEF all, Basic
  <2> QED
    BY <2>1, <2>2
<1> HIDE DEF all, N, Basic, S
<1>5. \E g : Equation(g)
  <2> DEFINE step == [p \in (0 .. N) \X S |-> Deeper(p[2])]
  <2>1. step \in [(0 .. N) \X S -> S]
    <3>1. \A p \in (0 .. N) \X S : Deeper(p[2]) \in S
      BY <1>4
    <3> HIDE DEF Deeper
    <3> QED
      BY <3>1
  <2>2. PICK h \in [0 .. N -> S] :
          Iterates(h, N, First, step)
    <3> HIDE DEF step, First
    <3> QED
      BY <1>1, <1>3, <2>1, Recursion
  <2>3. ASSUME NEW i \in 0 .. N
        PROVE  h[i] = [t \in all |-> IF t \notin DOMAIN classes THEN Basic(t)
                                     ELSE IF i = 0 THEN {} ELSE Spread(classes[t], h[i - 1])]
    <3>1. CASE i = 0
      BY <2>2, <3>1 DEF Iterates
    <3>2. CASE i # 0
      <4>1. i - 1 \in 0 .. N
        BY <1>1, <3>2
      <4>2. <<i, h[i - 1]>> \in (0 .. N) \X S
        BY <4>1
      <4>3. h[i] = Deeper(h[i - 1])
        BY <2>2, <3>2, <4>2 DEF Iterates
      <4> QED
        BY <3>2, <4>3
    <3> QED
      BY <3>1, <3>2
  <2>4. Equation(h)
    BY <2>3
  <2> QED
    BY <2>4
<1>6. Equation(nested)
  <2> HIDE DEF Equation
  <2> QED
    BY <1>5
<1> HIDE DEF nested
<1>7. nested[N] \in S
  <2> DEFINE G == {i \in 0 .. N : nested[i] \in S}
  <2>1. 0 \in G
    BY <1>1, <1>3, <1>6
  <2>2. ASSUME NEW i \in 1 .. N, i - 1 \in G PROVE i \in G
    <3>0. i \in 0 .. N /\ i # 0
      BY <1>1
    <3>2. nested[i] = [t \in all |-> IF t \notin DOMAIN classes THEN Basic(t)
                                     ELSE IF i = 0 THEN {}
                                     ELSE Spread(classes[t], nested[i - 1])]
      BY <1>6, <3>0
    <3>1. i \in 0 .. N /\ nested[i] = Deeper(nested[i - 1])
      BY <3>0, <3>2
    <3> QED
      BY <1>4, <2>2, <3>1
  <2> HIDE DEF G
  <2>3. \A i \in 0 .. N : i \in G
    BY <1>1, <2>1, <2>2, UpToInduction
  <2> QED
    BY <1>1, <2>3 DEF G
<1>8. types \subseteq all
  BY DEF all
<1> QED
  BY <1>2, <1>7, <1>8 DEF S

LEMMA LeavesApart ==
  ASSUME NEW d, Described(d), NEW fields, Named(fields)
  PROVE  \E all : Leaves(d, fields) \in Apart(all)
<1>1. PICK all : /\ TypesOf(fields) \subseteq all
                 /\ LeavesOf(d.classes, TypesOf(fields)) \in [all -> Apart(all)]
  BY NestedApart DEF Described
<1>2. Leaves(d, fields) \in Apart(all)
  BY <1>1, SpreadApart DEF Leaves
<1> QED
  BY <1>2

\* What is sent as it is wanted is received as it was sent.
LEMMA BoundToItself ==
  ASSUME NEW all, NEW A \in Apart(all)
  PROVE  Fits(A, A) /\ Bound(A, A) = {<<l.name, l.name>> : l \in A}
<1>1. Fits(A, A)
  BY DEF Fits
<1> DEFINE Twins == {q \in A \X A : q[1].at = q[2].at}
<1>2. ASSUME NEW p \in Twins
      PROVE  <<p[1].name, p[2].name>> \in {<<l.name, l.name>> : l \in A}
  <2>1. p[1] \in A /\ p[2] \in A /\ p[1].at = p[2].at
    BY <1>2
  <2>2. p[1].name = p[2].name
    BY <2>1 DEF Apart
  <2> QED
    BY <2>1, <2>2
<1>3. ASSUME NEW l \in A
      PROVE  <<l.name, l.name>> \in {<<p[1].name, p[2].name>> : p \in Twins}
  <2>1. <<l, l>> \in Twins /\ <<l, l>>[1] = l /\ <<l, l>>[2] = l
    OBVIOUS
  <2> QED
    BY <2>1
<1>4. Bound(A, A) = {<<p[1].name, p[2].name>> : p \in Twins}
  BY DEF Bound
<1> HIDE DEF Twins
<1>5. {<<p[1].name, p[2].name>> : p \in Twins} \subseteq {<<l.name, l.name>> : l \in A}
  BY <1>2
<1>6. {<<l.name, l.name>> : l \in A} \subseteq {<<p[1].name, p[2].name>> : p \in Twins}
  BY <1>3
<1> QED
  BY <1>1, <1>4, <1>5, <1>6

-----------------------------------------------------------------------------
(* The handlers of a service *)

Functions(d) == {d.functions[i] : i \in DOMAIN d.functions}

CodesUpTo(d, i) == {Code(d.functions[j]) : j \in 1 .. i}

\* Tables that have each handler under its own code.
Handlers(d) ==
  {h \in UNION {[C -> Functions(d)] : C \in SUBSET CodesUpTo(d, Len(d.functions))} :
     \A c \in DOMAIN h : Code(h[c]) = c}

LEMMA HandlersAre ==
  ASSUME NEW d, NEW C \in SUBSET CodesUpTo(d, Len(d.functions)),
         NEW h \in [C -> Functions(d)], \A c \in C : Code(h[c]) = c
  PROVE  h \in Handlers(d)
<1>1. h \in UNION {[D -> Functions(d)] : D \in SUBSET CodesUpTo(d, Len(d.functions))}
  OBVIOUS
<1>2. DOMAIN h = C
  OBVIOUS
<1> QED
  BY <1>1, <1>2 DEF Handlers

LEMMA RegKeeps ==
  ASSUME NEW d, Described(d), NEW i \in 1 .. Len(d.functions), NEW h \in Handlers(d)
  PROVE  LET g == reg(h, Code(d.functions[i]), d.functions[i]) IN
         g \in Handlers(d) /\ DOMAIN g = DOMAIN h \cup {Code(d.functions[i])}
<1>1. PICK f : f = d.functions[i]
  OBVIOUS
<1>2. PICK g : g = reg(h, Code(f), f)
  OBVIOUS
<1>3. PICK C \in SUBSET CodesUpTo(d, Len(d.functions)) : h \in [C -> Functions(d)]
  BY DEF Handlers
<1>4. DOMAIN h = C /\ \A c \in C : Code(h[c]) = c
  BY <1>3 DEF Handlers
<1>5. f \in Functions(d) /\ Code(f) \in CodesUpTo(d, Len(d.functions))
  <2>1. i \in DOMAIN d.functions
    BY DEF Described
  <2> QED
    BY <1>1, <2>1 DEF Functions, CodesUpTo
<1>6. g \in [C \cup {Code(f)} -> Functions(d)]
  BY <1>2, <1>3, <1>4, <1>5 DEF reg
<1>7. \A c \in C \cup {Code(f)} : Code(g[c]) = c
  BY <1>2, <1>4 DEF reg
<1>8. g \in Handlers(d)
  BY <1>5, <1>6, <1>7, HandlersAre
<1> QED
  BY <1>1, <1>2, <1>4, <1>6, <1>8

\* The table has the code of every method, and under each code a method that
\* has it.
LEMMA WrappersRegistered ==
  ASSUME NEW d, Described(d)
  PROVE  /\ reg_wrappers(d) \in Handlers(d)
         /\ DOMAIN reg_wrappers(d) = CodesUpTo(d, Len(d.functions))
<1> DEFINE F == d.functions
           N == Len(d.functions)
           S == Handlers(d)
           Next1(i, x) == reg(x, Code(F[i]), F[i])
           Equation(g) ==
             g = [i \in 0 .. N |-> IF i = 0 THEN NoNames ELSE reg(g[i - 1], Code(F[i]), F[i])]
           upTo == CHOOSE g : Equation(g)
<1>1. N \in Nat
  BY LenProperties DEF Described
<1>2. reg_wrappers(d) = upTo[N]
  BY DEF reg_wrappers
<1>3. NoNames \in S /\ DOMAIN NoNames = {}
  <2>1. {} \in SUBSET CodesUpTo(d, Len(d.functions)) /\ NoNames \in [{} -> Functions(d)]
    BY DEF NoNames
  <2>2. NoNames \in S
    BY <2>1, HandlersAre
  <2> QED
    BY <2>1, <2>2
<1>4. ASSUME NEW i \in 1 .. N, NEW x \in S
      PROVE  Next1(i, x) \in S /\ DOMAIN Next1(i, x) = DOMAIN x \cup {Code(F[i])}
  BY RegKeeps
<1>5. \E g : Equation(g)
  <2> DEFINE step == [p \in (0 .. N) \X S |-> IF p[1] = 0 THEN p[2] ELSE Next1(p[1], p[2])]
  <2>1. step \in [(0 .. N) \X S -> S]
    <3>1. ASSUME NEW p \in (0 .. N) \X S
          PROVE  (IF p[1] = 0 THEN p[2] ELSE Next1(p[1], p[2])) \in S
      <4>1. p[2] \in S /\ (p[1] # 0 => p[1] \in 1 .. N)
        BY <1>1, <3>1
      <4> HIDE DEF Next1, S
      <4> QED
        BY <1>4, <4>1
    <3> HIDE DEF Next1, S
    <3> QED
      BY <3>1
  <2>2. PICK h \in [0 .. N -> S] : Iterates(h, N, NoNames, step)
    <3> HIDE DEF step, S, N
    <3> QED
      BY <1>1, <1>3, <2>1, Recursion
  <2>3. ASSUME NEW i \in 0 .. N
        PROVE  h[i] = IF i = 0 THEN NoNames ELSE reg(h[i - 1], Code(F[i]), F[i])
    <3> HIDE DEF N, S
    <3>1. CASE i = 0
      BY <2>2, <3>1 DEF Iterates
    <3>2. CASE i # 0
      <4>1. i - 1 \in 0 .. N
        BY <1>1, <3>2
      <4>2. <<i, h[i - 1]>> \in (0 .. N) \X S
        BY <4>1
      <4>3. h[i] = Next1(i, h[i - 1])
        BY <2>2, <3>2, <4>2 DEF Iterates
      <4> QED
        BY <3>2, <4>3
    <3> QED
      BY <3>1, <3>2
  <2>4. Equation(h)
    BY <2>3
  <2> QED
    BY <2>4
<1>6. Equation(upTo)
  <2> HIDE DEF Equation
  <2> QED
    BY <1>5
<1> HIDE DEF upTo, S, N
<1>7. upTo[N] \in S /\ DOMAIN upTo[N] = CodesUpTo(d, N)
  <2> DEFINE G == {i \in 0 .. N : upTo[i] \in S /\ DOMAIN upTo[i] = CodesUpTo(d, i)}
  <2>1. 0 \in G
    <3>1. upTo[0] = NoNames
      BY <1>1, <1>6
    <3>2. CodesUpTo(d, 0) = {}
      BY DEF CodesUpTo
    <3> QED
      BY <1>1, <1>3, <3>1, <3>2
  <2>2. ASSUME NEW i \in 1 .. N, i - 1 \in G PROVE i \in G
    <3>1. i \in 0 .. N /\ i # 0 /\ i - 1 \in 0 .. N
      BY <1>1
    <3>2. upTo[i] = Next1(i, upTo[i - 1])
      BY <1>6, <3>1
    <3>3. CodesUpTo(d, i) = CodesUpTo(d, i - 1) \cup {Code(F[i])}
      <4>1. i \in Nat /\ 1 .. i = (1 .. i - 1) \cup {i}
        BY <1>1
      <4> QED
        BY <4>1 DEF CodesUpTo
    <3> HIDE DEF Next1
    <3> QED
      BY <1>4, <2>2, <3>1, <3>2, <3>3
  <2> HIDE DEF G
  <2>3. \A i \in 0 .. N : i \in G
    BY <1>1, <2>1, <2>2, UpToInduction
  <2> QED
    BY <1>1, <2>3 DEF G
<1> QED
  BY <1>2, <1>7 DEF S, N

-----------------------------------------------------------------------------
(* What the stubs agree about *)

\* The handler of a method whose code no other has is its own.
LEMMA OwnHandler ==
  ASSUME NEW d, Described(d), NEW i \in DOMAIN d.functions,
         \A j \in DOMAIN d.functions : Code(d.functions[j]) = Code(d.functions[i]) => j = i
  PROVE  /\ Code(d.functions[i]) \in DOMAIN reg_wrappers(d)
         /\ reg_wrappers(d)[Code(d.functions[i])] = d.functions[i]
<1>1. PICK c : c = Code(d.functions[i])
  OBVIOUS
<1>2. c \in DOMAIN reg_wrappers(d)
  <2>1. DOMAIN d.functions = 1 .. Len(d.functions)
    BY LenProperties DEF Described
  <2>2. c \in CodesUpTo(d, Len(d.functions))
    BY <1>1, <2>1 DEF CodesUpTo
  <2> QED
    BY <2>2, WrappersRegistered
<1>3. PICK h : h = reg_wrappers(d)
  OBVIOUS
<1>4. Code(h[c]) = c /\ h[c] \in Functions(d)
  <2>1. h \in Handlers(d) /\ c \in DOMAIN h
    BY <1>2, <1>3, WrappersRegistered
  <2>2. PICK C \in SUBSET CodesUpTo(d, Len(d.functions)) : h \in [C -> Functions(d)]
    BY <2>1 DEF Handlers
  <2> QED
    BY <2>1, <2>2 DEF Handlers
<1>5. PICK j \in DOMAIN d.functions : h[c] = d.functions[j]
  BY <1>4 DEF Functions
<1> QED
  BY <1>1, <1>2, <1>3, <1>4, <1>5

\* A call that the stubs agree about is answered with its result, which the
\* caller can read, and runs its own method, each of whose parameters gets
\* the argument given for it.
THEOREM StubsFit ==
  ASSUME NEW dc, NEW ds, Described(dc), Described(ds),
         NEW m \in DOMAIN dc.functions, Agreed(dc, dc.functions[m], ds)
  PROVE  LET f == dc.functions[m]
             msg == build_request(dc, f)
         IN /\ Answer(ds, msg) = "result"
            /\ Execution(ds, msg) = Faithful(dc, f)
            /\ Readable(dc, f, ds)
<1>1. PICK f : f = dc.functions[m]
  OBVIOUS
<1>2. PICK msg : msg = build_request(dc, f)
  OBVIOUS
<1>3. /\ msg.method = Code(f) /\ msg.params = Arguments(dc, f)
      /\ msg.fields = [x \in RequestFields |-> IF x = "params" THEN "array" ELSE "integer"]
  BY <1>2 DEF build_request
<1>4. Parsed(msg)
  BY <1>3 DEF Parsed
<1>5. /\ Code(f) \in DOMAIN reg_wrappers(ds)
      /\ reg_wrappers(ds)[Code(f)] = f
  <2>1. PICK i \in DOMAIN ds.functions :
          /\ ds.functions[i] = f
          /\ \A j \in DOMAIN ds.functions : Code(ds.functions[j]) = Code(f) => j = i
    BY <1>1 DEF Agreed
  <2> QED
    BY <2>1, OwnHandler
<1>6. dc.classes = ds.classes
  BY DEF Agreed
<1>7. Arguments(ds, f) = Arguments(dc, f) /\ ResultOf(ds, f) = ResultOf(dc, f)
  BY <1>6 DEF Arguments, ResultOf, Leaves
<1>8. PICK all : Arguments(dc, f) \in Apart(all)
  <2>1. Named(f.params)
    BY <1>1 DEF Described
  <2> QED
    BY <2>1, LeavesApart DEF Arguments
<1>9. Answer(ds, msg) = "result"
  <2>1. Fits(Arguments(ds, f), msg.params)
    BY <1>3, <1>7, <1>8, BoundToItself
  <2> QED
    BY <1>3, <1>4, <1>5, <2>1 DEF Answer, on_request
<1>10. Execution(ds, msg) = Faithful(dc, f)
  <2>1. Bound(Arguments(ds, f), msg.params) = {<<l.name, l.name>> : l \in Arguments(dc, f)}
    BY <1>3, <1>7, <1>8, BoundToItself
  <2> QED
    BY <1>3, <1>5, <2>1 DEF Execution, Faithful
<1>11. Readable(dc, f, ds)
  BY <1>5, <1>7 DEF Readable, Fits
<1> QED
  BY <1>1, <1>2, <1>9, <1>10, <1>11

-----------------------------------------------------------------------------
(* Errors, and results that cannot be read, are the stubs' doing.           *)

Refusals == ErrorCodes \ {"SOCKET_CLOSED"}

Refuses(k) == Answers[server.version][made[k]] # "result"

\* A service that has never died is the one that refused a call, and is up.
Refused ==
  /\ opened > 0 /\ server.deaths = 0 => server.up
  /\ \A k \in 1 .. Current : outcome[k] = "error" =>
       opened > 0 /\ (server.deaths = 0 => Refuses(k))

\* So it is while the caller has yet to read the error.
Refusing ==
  \A c \in Conn :
    /\ client.sock = c /\ client.pc = "recv" /\ server.deaths = 0
    /\ down[c] # <<>> /\ down[c][1] \in Refusals
    => Refuses(Current)

\* A result that its caller cannot read is one of the service that ran the call.
Unread ==
  \A k \in 1 .. Current : outcome[k] = "unreadable" => ~Reads[ran[k][1]][made[k]]

RInv == Refused /\ Refusing /\ Unread

LEMMA CallsMade ==
  ASSUME TypeOK
  PROVE  1 .. Current \subseteq Call /\ \A k \in 1 .. Current : made[k] \in Methods
<1>1. Current \in Nat /\ Current <= MaxCalls /\ MaxCalls \in Nat
  BY CallTyped
<1>2. \A k \in 1 .. Current : made[k] \in Methods
  BY DEF TypeOK, Current
<1> QED
  BY <1>1, <1>2 DEF Call

\* A step that ends no call and brings no error,
LEMMA GoesOn ==
  ASSUME RInv, UNCHANGED <<made, outcome, ran, server, opened>>,
         \A c \in Conn :
           /\ client'.sock = c /\ client'.pc = "recv"
           /\ down'[c] # <<>> /\ down'[c][1] \in Refusals
           => /\ client.sock = c /\ client.pc = "recv"
              /\ down[c] # <<>> /\ down[c][1] \in Refusals
  PROVE  RInv'
<1>1. Current' = Current /\ \A k : Refuses(k)' = Refuses(k)
  BY DEF Current, Refuses
<1>2. Refused' /\ Unread'
  BY <1>1 DEF RInv, Refused, Unread
<1>3. Refusing'
  BY <1>1 DEF RInv, Refusing
<1> QED
  BY <1>2, <1>3 DEF RInv

\* and one that ends the call.
LEMMA EndsJustly ==
  ASSUME TypeOK, RInv, UNCHANGED <<made, ran, server, opened>>,
         client'.pc = "idle", NEW how, outcome' = [outcome EXCEPT ![Current] = how],
         how = "error" => opened > 0 /\ (server.deaths = 0 => Refuses(Current)),
         how = "unreadable" => ~Reads[ran[Current][1]][made[Current]]
  PROVE  RInv'
<1>1. Current' = Current /\ \A k : Refuses(k)' = Refuses(k)
  BY DEF Current, Refuses
<1>2. outcome \in [Call -> Outcomes]
  BY DEF TypeOK
<1>3. ASSUME NEW k \in 1 .. Current
      PROVE  outcome'[k] = IF k = Current THEN how ELSE outcome[k]
  BY <1>2, CallsMade
<1>4. Refused' /\ Unread'
  BY <1>1, <1>3 DEF RInv, Refused, Unread
<1>5. Refusing'
  BY DEF Refusing
<1> QED
  BY <1>4, <1>5 DEF RInv

LEMMA CallsJustly ==
  ASSUME IInv, RInv, MakeCall
  PROVE  RInv'
<1>1. /\ UNCHANGED <<outcome, ran, server, opened>> /\ client.pc = "idle"
      /\ client'.pc # "recv" /\ Current < MaxCalls
  BY DEF MakeCall, connVars, Attempt, IInv, TypeOK
<1>2. PICK m \in Methods : made' = Append(made, m)
  BY DEF MakeCall
<1>3. /\ Current' = Current + 1 /\ Current \in Nat
      /\ \A k \in 1 .. Current : made'[k] = made[k]
  BY <1>2, AppendProperties, LenProperties DEF IInv, TypeOK, Current
<1>4. outcome[Current + 1] = "pending"
  BY <1>1, <1>3, CallTyped DEF IInv, CInv, Told, Call
<1>5. ASSUME NEW k \in 1 .. Current'
      PROVE  \/ k \in 1 .. Current /\ Refuses(k)' = Refuses(k) /\ made'[k] = made[k]
             \/ outcome'[k] = "pending"
  <2>1. CASE k = Current + 1
    BY <1>1, <1>4, <2>1
  <2>2. CASE k # Current + 1
    <3>1. k \in 1 .. Current
      BY <1>3, <2>2
    <3> QED
      BY <1>1, <1>3, <3>1 DEF Refuses
  <2> QED
    BY <2>1, <2>2
<1>6. Refused'
  BY <1>1, <1>5 DEF RInv, Refused
<1>7. Unread'
  BY <1>1, <1>5 DEF RInv, Unread
<1>8. Refusing'
  BY <1>1 DEF Refusing
<1> QED
  BY <1>6, <1>7, <1>8 DEF RInv

LEMMA ConnectsJustly ==
  ASSUME IInv, RInv, Connect
  PROVE  RInv'
<1>1. /\ UNCHANGED <<made, outcome, ran, server>> /\ server.up
      /\ opened' = opened + 1 /\ client'.pc # "recv"
  BY DEF Connect, IInv, TypeOK
<1>2. Current' = Current /\ \A k : Refuses(k)' = Refuses(k)
  BY <1>1 DEF Current, Refuses
<1>3. opened' > 0
  BY <1>1, CallTyped DEF IInv
<1>4. Refused' /\ Unread'
  BY <1>1, <1>2, <1>3 DEF RInv, Refused, Unread
<1>5. Refusing'
  BY <1>1 DEF Refusing
<1> QED
  BY <1>4, <1>5 DEF RInv

\* What a client reads that begins to wait is at most that the connection is
\* closed.
LEMMA SendsJustly ==
  ASSUME IInv, RInv, NEW c \in Conn, SendOpen(c) \/ SendLate(c)
  PROVE  RInv'
<1>1. /\ UNCHANGED <<made, outcome, ran, server, opened, down>>
      /\ client.pc = "send" /\ client.sock = c /\ client'.sock = c
  BY DEF SendOpen, SendLate, Sends, Goes, IInv, TypeOK
<1>2. down[c] # <<>> => down[c][1] = "SOCKET_CLOSED"
  <2>1. client.tried = 0 \/ client.tried > 0
    BY CallTyped DEF IInv
  <2> QED
    BY <1>1, <2>1, NoConn DEF IInv, CInv, Between, Retries
<1> QED
  BY <1>1, <1>2, GoesOn DEF Refusals

LEMMA ResultsJustly ==
  ASSUME IInv, RInv, NEW c \in Conn, RecvResult(c)
  PROVE  RInv'
<1> DEFINE how == IF Wants /\ ~Reads[ran[Current][1]][made[Current]] THEN "unreadable"
                    ELSE IF client.tried > MaxTry THEN "failed" ELSE "returned"
<1>1. /\ UNCHANGED <<made, ran, server, opened>> /\ client'.pc = "idle"
      /\ outcome' = [outcome EXCEPT ![Current] = how]
  BY DEF RecvResult, Ends, Goes, IInv, TypeOK
<1>2. how # "error" /\ (how = "unreadable" => ~Reads[ran[Current][1]][made[Current]])
  OBVIOUS
<1> HIDE DEF how
<1> QED
  BY <1>1, <1>2, EndsJustly DEF IInv

LEMMA ErrorsJustly ==
  ASSUME IInv, RInv, NEW c \in Conn, RecvError(c)
  PROVE  RInv'
<1>1. /\ UNCHANGED <<made, ran, server, opened>>
      /\ client.pc = "recv" /\ client.sock = c
      /\ down[c] # <<>> /\ Head(down[c]) \in ErrorCodes
      /\ \/ Goes("connect") /\ UNCHANGED outcome
         \/ Ends("error") /\ Head(down[c]) # "SOCKET_CLOSED"
  BY DEF RecvError, Receives
<1>2. Head(down[c]) = down[c][1]
  BY <1>1, FramesOn, TailOf DEF IInv
<1>3. CASE Goes("connect") /\ UNCHANGED outcome
  <2>1. client'.pc = "connect"
    BY <1>3 DEF Goes, IInv, TypeOK
  <2> QED
    BY <1>1, <1>3, <2>1, GoesOn
<1>4. CASE Ends("error") /\ Head(down[c]) # "SOCKET_CLOSED"
  <2>1. server.deaths = 0 => Refuses(Current)
    BY <1>1, <1>2, <1>4 DEF RInv, Refusing, Refusals
  <2>2. opened > 0
    BY <1>1, CallTyped DEF IInv, CInv, Unopened
  <2>3. client'.pc = "idle" /\ outcome' = [outcome EXCEPT ![Current] = "error"]
    BY <1>4 DEF Ends, Goes, IInv, TypeOK
  <2> QED
    BY <1>1, <2>1, <2>2, <2>3, EndsJustly DEF IInv
<1> QED
  BY <1>1, <1>3, <1>4

\* An error that is sent is what the service makes of the current call.
LEMMA ServesJustly ==
  ASSUME IInv, RInv, NEW c \in Conn, Serve(c)
  PROVE  RInv'
<1>1. /\ UNCHANGED <<client, made, outcome, server, opened>>
      /\ srv[c] = "idle" /\ up[c] # 0
  BY DEF Serve, clientVars
<1>2. /\ down[c] = <<>> /\ client.sock = c /\ client.pc \in {"recv", "astray"}
      /\ up[c] = Current /\ Current \in Call
  BY <1>1, Served
<1>3. CASE AnswerTo(up[c]) # "result"
  <2>1. UNCHANGED ran /\ down' = [down EXCEPT ![c] = Append(@, AnswerTo(up[c]))]
    BY <1>3 DEF Serve
  <2>2. Current' = Current /\ \A k : Refuses(k)' = Refuses(k)
    BY <1>1 DEF Current, Refuses
  <2>3. Refuses(Current)
    BY <1>2, <1>3 DEF AnswerTo, Refuses
  <2>4. Refused' /\ Unread'
    BY <1>1, <2>1, <2>2 DEF RInv, Refused, Unread
  <2>5. Refusing'
    BY <2>2, <2>3 DEF Refusing
  <2> QED
    BY <2>4, <2>5 DEF RInv
<1>4. CASE AnswerTo(up[c]) = "result"
  <2>1. UNCHANGED down /\ ran' = [ran EXCEPT ![Current] = Append(@, server.version)]
    BY <1>2, <1>4 DEF Serve, Execute
  <2>2. Current' = Current /\ \A k : Refuses(k)' = Refuses(k)
    BY <1>1 DEF Current, Refuses
  <2>3. outcome[Current] = "pending"
    BY <1>2 DEF IInv, CInv, Told
  <2>4. Refused'
    BY <1>1, <2>2 DEF RInv, Refused
  <2>5. Refusing'
    BY <1>1, <2>1, <2>2 DEF RInv, Refusing
  <2>6. ASSUME NEW k \in 1 .. Current, outcome[k] = "unreadable"
        PROVE  ran'[k] = ran[k]
    <3>1. k # Current
      BY <2>3, <2>6
    <3>2. ran \in [Call -> Seq(Versions)] /\ k \in Call
      BY CallsMade DEF IInv, TypeOK
    <3> QED
      BY <2>1, <3>1, <3>2
  <2>7. Unread'
    BY <1>1, <2>2, <2>6 DEF RInv, Unread
  <2> QED
    BY <2>4, <2>5, <2>7 DEF RInv
<1> QED
  BY <1>3, <1>4

LEMMA RepliesJustly ==
  ASSUME IInv, RInv, NEW c \in Conn, Reply(c) \/ Shut(c)
  PROVE  RInv'
<1>1. UNCHANGED <<client, made, outcome, ran, server, opened>>
  BY DEF Reply, Shut, clientVars
<1>2. CASE Shut(c)
  <2>1. UNCHANGED down
    BY <1>2 DEF Shut
  <2> QED
    BY <1>1, <2>1, GoesOn
<1>3. CASE Reply(c)
  <2>1. down[c] = <<>> /\ down' = [down EXCEPT ![c] = Append(@, "result")]
    BY <1>3 DEF Reply, IInv, CInv, InHand
  <2>2. down \in [Conn -> Seq(Frames)] /\ "result" \in Frames
    BY DEF IInv, TypeOK, Frames
  <2>3. /\ down'[c][1] = "result" /\ "result" \notin Refusals
        /\ \A d \in Conn : d # c => down'[d] = down[d]
    <3>1. Append(<<>>, "result")[1] = "result"
      OBVIOUS
    <3> QED
      BY <2>1, <2>2, <3>1 DEF Refusals, ErrorCodes
  <2> QED
    BY <1>1, <2>3, GoesOn
<1> QED
  BY <1>2, <1>3

LEMMA ClosesJustly ==
  ASSUME IInv, RInv, NEW c \in Conn, Close(c)
  PROVE  RInv'
<1>1. UNCHANGED <<client, made, outcome, ran, server, opened>>
  BY DEF Close, clientVars
<1>2. down' = down \/ down' = [down EXCEPT ![c] = Append(@, "SOCKET_CLOSED")]
  BY DEF Close
<1>3. CASE down' = down
  BY <1>1, <1>3, GoesOn
<1>4. CASE down' = [down EXCEPT ![c] = Append(@, "SOCKET_CLOSED")]
  <2>1. down \in [Conn -> Seq(Frames)] /\ "SOCKET_CLOSED" \in Frames
    BY DEF IInv, TypeOK, Frames, ErrorCodes
  <2>2. /\ down'[c] = Append(down[c], "SOCKET_CLOSED")
        /\ \A d \in Conn : d # c => down'[d] = down[d]
    BY <1>4, <2>1
  <2>3. IF down[c] = <<>> THEN down'[c][1] = "SOCKET_CLOSED" ELSE down'[c][1] = down[c][1]
    <3>1. PICK s \in Seq(Frames) : s = down[c]
      BY <2>1
    <3>2. /\ Len(s) \in Nat /\ (s = <<>> => Len(s) = 0) /\ (s # <<>> => Len(s) > 0)
          /\ Append(s, "SOCKET_CLOSED")[Len(s) + 1] = "SOCKET_CLOSED"
          /\ \A i \in 1 .. Len(s) : Append(s, "SOCKET_CLOSED")[i] = s[i]
      BY <2>1, AppendOf
    <3>3. s # <<>> => 1 \in 1 .. Len(s)
      BY <3>2
    <3> QED
      BY <2>2, <3>1, <3>2, <3>3
  <2> QED
    BY <1>1, <2>2, <2>3, GoesOn DEF Refusals
<1> QED
  BY <1>2, <1>3, <1>4

\* After a death nothing is said of errors, and there is no other way to
\* another description once somebody has connected.
LEMMA DiesJustly ==
  ASSUME IInv, RInv, Die \/ Restart
  PROVE  RInv'
<1>1. UNCHANGED <<client, made, outcome, ran, opened>>
  BY DEF Die, Restart, clientVars, connVars
<1>2. Current' = Current
  BY <1>1 DEF Current
<1>3. Unread'
  BY <1>1, <1>2 DEF RInv, Unread
<1>4. CASE Die
  <2>1. server.deaths \in Nat /\ server'.deaths = server.deaths + 1
    BY <1>4, RpcAssumption DEF Die, IInv, TypeOK
  <2>2. server'.deaths # 0
    BY <2>1
  <2>3. Refused' /\ Refusing'
    BY <1>1, <1>2, <2>2 DEF RInv, Refused, Refusing
  <2> QED
    BY <1>3, <2>3 DEF RInv
<1>5. CASE Restart
  <2>1. ~server.up /\ server'.up /\ server'.deaths = server.deaths
    BY <1>5 DEF Restart, IInv, TypeOK
  <2>2. opened > 0 => server'.deaths # 0
    BY <2>1 DEF RInv, Refused
  <2>3. Refused'
    BY <1>1, <1>2, <2>1, <2>2 DEF RInv, Refused
  <2>4. Refusing'
    <3>1. \A c \in Conn : client.sock = c => opened > 0
      BY CallTyped DEF IInv, CInv, Unopened
    <3> QED
      BY <1>1, <2>2, <3>1 DEF Refusing
  <2> QED
    BY <1>3, <2>3, <2>4 DEF RInv
<1> QED
  BY <1>4, <1>5

LEMMA RStep ==
  ASSUME IInv, RInv, [Next]_vars
  PROVE  RInv'
<1>1. CASE UNCHANGED vars
  <2>1. UNCHANGED <<client, made, outcome, ran, server, opened, down>>
    BY <1>1 DEF vars, clientVars, connVars
  <2> QED
    BY <2>1, GoesOn
<1>2. CASE MakeCall \/ Connect
  BY <1>2, CallsJustly, ConnectsJustly
<1>3. CASE ConnectFails
  <2>1. /\ UNCHANGED <<made, ran, server, opened>> /\ client'.pc = "idle"
        /\ outcome' = [outcome EXCEPT ![Current] = "host"]
    BY <1>3 DEF ConnectFails, IInv, TypeOK
  <2> QED
    BY <2>1, EndsJustly DEF IInv
<1>4. ASSUME NEW c \in Conn,
             \/ SendFails(c) \/ RecvTooMuch(c) \/ RecvFails(c) \/ RecvInterrupted(c)
             \/ RecvPart(c)
      PROVE  RInv'
  <2>1. UNCHANGED <<made, outcome, ran, server, opened>>
    BY <1>4 DEF SendFails, RecvTooMuch, RecvFails, RecvInterrupted, RecvPart, connVars
  <2>2. client'.pc \in {"killed", "spin", "astray", Attempt}
    BY <1>4 DEF SendFails, RecvTooMuch, RecvFails, RecvInterrupted, RecvPart,
                TryAgain, Goes, IInv, TypeOK
  <2>3. client'.pc # "recv"
    BY <2>2 DEF Attempt
  <2> QED
    BY <2>1, <2>3, GoesOn
<1>5. CASE SendStale
  <2>1. UNCHANGED <<made, outcome, ran, server, opened>> /\ client'.pc # "recv"
    BY <1>5 DEF SendStale, TryAgain, Attempt, connVars, IInv, TypeOK
  <2> QED
    BY <2>1, GoesOn
<1>6. ASSUME NEW c \in Conn, SendOpen(c) \/ SendLate(c) \/ RecvResult(c) \/ RecvError(c)
      PROVE  RInv'
  BY <1>6, SendsJustly, ResultsJustly, ErrorsJustly
<1>7. ASSUME NEW c \in Conn, Serve(c) \/ Reply(c) \/ Close(c) \/ Shut(c)
      PROVE  RInv'
  BY <1>7, ServesJustly, RepliesJustly, ClosesJustly
<1>8. CASE Die \/ Restart
  BY <1>8, DiesJustly
<1> QED
  BY <1>1, <1>2, <1>3, <1>4, <1>5, <1>6, <1>7, <1>8 DEF Next, ClientStep, ServerNext

LEMMA RInvHolds == Spec => []RInv
<1>1. Init => RInv
  <2>1. SUFFICES ASSUME Init PROVE RInv
    OBVIOUS
  <2>2. opened = 0 /\ made = <<>> /\ client.pc = "idle" /\ Len(<<>>) = 0
    BY <2>1 DEF Init
  <2> QED
    BY <2>2 DEF RInv, Refused, Refusing, Unread, Current
<1>2. IInv /\ RInv /\ [Next]_vars => RInv'
  BY RStep
<1> QED
  BY <1>1, <1>2, Invariant, PTL DEF Spec

\* What the stubs agree about is answered, run and read as it should be.
LEMMA AgreeFits ==
  ASSUME NEW v \in Versions, NEW m \in Methods, Agree[v][m]
  PROVE  /\ Answers[v][m] = "result" /\ Reads[v][m]
         /\ Runs[v][m] = {Faithful(ClientDef, Declared(m))}
<1>1. Agreed(ClientDef, ClientDef.functions[m], ServerDefs[v])
  BY DEF Agree, Declared
<1>2. /\ Answer(ServerDefs[v], build_request(ClientDef, Declared(m))) = "result"
      /\ Execution(ServerDefs[v], build_request(ClientDef, Declared(m)))
           = Faithful(ClientDef, Declared(m))
      /\ Readable(ClientDef, Declared(m), ServerDefs[v])
  BY <1>1, StubsFit, RpcAssumption DEF Declared, Methods, Versions
<1> QED
  BY <1>2 DEF Answers, Reads, Runs

\* An error is thrown, and a result cannot be read, only if the stubs disagree
\* about the method.
THEOREM JustErrors == Spec => []ErrorsJustified
<1>1. ASSUME IInv, RInv PROVE ErrorsJustified
  <2>1. SUFFICES ASSUME NEW k \in 1 .. Current
                 PROVE  /\ outcome[k] = "error" /\ server.deaths = 0 =>
                             ~Agree[server.version][made[k]]
                        /\ outcome[k] = "unreadable" => ~Agree[ran[k][1]][made[k]]
    BY DEF ErrorsJustified, Current
  <2>2. made[k] \in Methods /\ server.version \in Versions /\ k \in Call
    BY <1>1, CallsMade DEF IInv, TypeOK
  <2>3. outcome[k] = "error" /\ server.deaths = 0 => ~Agree[server.version][made[k]]
    BY <1>1, <2>2, AgreeFits DEF RInv, Refused, Refuses
  <2>4. outcome[k] = "unreadable" => ~Agree[ran[k][1]][made[k]]
    <3>1. outcome[k] = "unreadable" => ran[k] \in Seq(Versions) /\ Len(ran[k]) = 1
      BY <1>1, <2>2 DEF IInv, TypeOK, CInv, Told
    <3>2. outcome[k] = "unreadable" => ran[k][1] \in Versions
      BY <3>1
    <3> QED
      BY <1>1, <2>2, <3>2, AgreeFits DEF RInv, Unread
  <2> QED
    BY <2>3, <2>4
<1> QED
  BY <1>1, Invariant, RInvHolds, PTL

\* Where the stubs agree, a call runs its own method and each parameter gets
\* the argument given for it, however deep classes are nested.
THEOREM BoundAsNamed == Spec => []BoundByName
<1>1. ASSUME IInv PROVE BoundByName
  <2>1. SUFFICES ASSUME NEW k \in 1 .. Current, NEW i \in DOMAIN ran[k],
                        Agree[ran[k][i]][made[k]]
                 PROVE  Runs[ran[k][i]][made[k]] = {Faithful(ClientDef, Declared(made[k]))}
    BY DEF BoundByName, Current
  <2>2. made[k] \in Methods /\ k \in Call
    BY <1>1, CallsMade DEF IInv
  <2>3. ran[k] \in Seq(Versions)
    BY <1>1, <2>2 DEF IInv, TypeOK
  <2>4. ran[k][i] \in Versions
    BY <2>1, <2>3
  <2> QED
    BY <2>1, <2>2, <2>4, AgreeFits
<1> QED
  BY <1>1, Invariant, PTL
=============================================================================
