-------------------------------- MODULE RpcClient --------------------------------
(***************************************************************************)
(* AbstractClient::call and SockClient: one client object, whose calls are *)
(* made one after the other, over as many connections as reconnect() makes *)
(* of it.  The server at the other end is any that keeps CallContract (as  *)
(* SockServer and PollServer do), so that its steps are those of the       *)
(* contract, and what it may write is what these two write.  It may die or *)
(* be stopped, and be started again from another description.              *)
(*                                                                         *)
(* A reply is one frame: "result", an error, or the "part" of a result     *)
(* that a dying server got out.  A request is the number of its call.      *)
(***************************************************************************)
EXTENDS Dispatch

CONSTANTS
  MaxConns,    \* connections the server accepts from this client (a bound)
  MaxCalls,    \* calls made (a bound)
  MaxDeaths,   \* times the server dies (a bound)
  MaxTry,      \* MAX_TRY
  SigPipe,     \* does SIGPIPE have its default effect in the client?
  ClientDef,   \* the description the client's stub was generated from
  ServerDefs   \* descriptions the service's stub may be generated from: a sequence

ASSUME RpcAssumption ==
  /\ MaxConns \in Nat
  /\ MaxCalls \in Nat
  /\ MaxDeaths \in Nat
  /\ MaxTry \in Nat
  /\ SigPipe \in BOOLEAN
  /\ Described(ClientDef) /\ Compiles(ClientDef)
  /\ \A v \in DOMAIN ServerDefs : Described(ServerDefs[v]) /\ Compiles(ServerDefs[v])

Conn == 1 .. MaxConns
Uninit == 0       \* _sock is UNINIT_SOCKET
Stale == -1       \* _sock is the number of a socket that reconnect() closed

VARIABLES
  client,     \* [pc, tried, sock]
  made,       \* the methods called, in order (places in the client's description)
  outcome,    \* how each call ended
  ran,        \* for each call, the versions of the service that ran a method
  server,     \* [up, version (of its description), deaths]
  opened,     \* connections made so far
  end,        \* how the server's end looks to the client
  srv,        \* what serves the connection
  shut,       \* has the server decided to close it? (~_connected)
  up,         \* the request on its way, or 0
  down,       \* frames on their way to the client
  phase, begun, executed, returned    \* the contract, per connection

clientVars == <<client, made, outcome>>
connVars == <<opened, end, srv, shut, up, down>>
contractVars == <<phase, begun, executed, returned>>
vars == <<clientVars, ran, server, connVars, contractVars>>

Contract == INSTANCE CallContract WITH Client <- Conn

ClientPcs == {"idle", "connect", "send", "recv", "spin", "killed", "astray"}
Outcomes == {"pending", "returned", "error", "unreadable", "host", "failed"}
ErrorCodes == {"SOCKET_CLOSED", "METHOD_NOT_FOUND", "JSON_NOT_PARSED",
               "PARAM_MISMATCH"}
Frames == {"result", "part"} \cup ErrorCodes

\* "tried" need not be counted beyond the first value that is too large.
Tries == 0 .. MaxTry + 2
Methods == DOMAIN ClientDef.functions
Versions == DOMAIN ServerDefs
Call == 1 .. MaxCalls

\* Every variable has its type, and nothing is written to or read from
\* UNINIT_SOCKET.
TypeOK ==
  /\ client \in [pc : ClientPcs, tried : Tries, sock : Conn \cup {Uninit, Stale}]
  /\ client.pc = "send" => client.sock # Uninit
  /\ client.pc \in {"recv", "spin", "astray"} => client.sock \in Conn
  /\ made \in Seq(Methods) /\ Len(made) <= MaxCalls
  /\ outcome \in [Call -> Outcomes]
  /\ ran \in [Call -> Seq(Versions)]
  /\ server \in [up : BOOLEAN, version : Versions, deaths : 0 .. MaxDeaths]
  /\ opened \in 0 .. MaxConns
  /\ end \in [Conn -> {"open", "hup", "reset"}]
  /\ srv \in [Conn -> {"idle", "replying", "deaf", "over"}]
  /\ shut \in [Conn -> BOOLEAN]
  /\ up \in [Conn -> Call \cup {0}]
  /\ down \in [Conn -> Seq(Frames)]
  /\ phase \in [Conn -> Contract!Phases]

Init ==
  /\ client = [pc |-> "idle", tried |-> 0, sock |-> Uninit]
  /\ made = <<>>
  /\ outcome = [k \in Call |-> "pending"]
  /\ ran = [k \in Call |-> <<>>]
  /\ server \in [up : BOOLEAN, version : Versions, deaths : {0}]
  /\ opened = 0
  /\ end = [c \in Conn |-> "open"]
  /\ srv = [c \in Conn |-> "over"]
  /\ shut = [c \in Conn |-> FALSE]
  /\ up = [c \in Conn |-> 0]
  /\ down = [c \in Conn |-> <<>>]
  /\ Contract!Init

-----------------------------------------------------------------------------
(* What the stubs make of a call: the frame it is answered with, what it    *)
(* runs, and whether its caller can read the result.                        *)

Declared(m) == ClientDef.functions[m]

Answers ==
  [v \in Versions |-> [m \in Methods |->
     Answer(ServerDefs[v], build_request(ClientDef, Declared(m)))]]

Runs ==
  [v \in Versions |-> [m \in Methods |->
     IF Answers[v][m] = "result"
       THEN {Execution(ServerDefs[v], build_request(ClientDef, Declared(m)))}
       ELSE {}]]

Reads ==
  [v \in Versions |-> [m \in Methods |->
     Answers[v][m] = "result" /\ Readable(ClientDef, Declared(m), ServerDefs[v])]]

Agree ==
  [v \in Versions |-> [m \in Methods |-> Agreed(ClientDef, Declared(m), ServerDefs[v])]]

-----------------------------------------------------------------------------
(* The client *)

Current == Len(made)
Wants == WantsResult(Declared(made[Current]))

\* Mutant: whether there is a socket is not looked at.
AttemptUnchecked == "send"

\* send_and_response() connects first if it never has.
Attempt == IF client.sock = Uninit THEN "connect" ELSE "send"

Goes(pc) == client' = [client EXCEPT !.pc = pc]

Ends(how) ==
  /\ Goes("idle")
  /\ outcome' = [outcome EXCEPT ![Current] = how]

\* A generated stub calls call().
MakeCall ==
  /\ client.pc = "idle" /\ Current < MaxCalls
  /\ \E m \in Methods : made' = Append(made, m)
  /\ client' = [client EXCEPT !.pc = Attempt, !.tried = 0]
  /\ UNCHANGED <<outcome, ran, server, connVars, contractVars>>

\* catch (ReadFailException, WriteFailException): try again, without
\* reconnecting.
TryAgain ==
  client' = [client EXCEPT !.pc = Attempt,
                           !.tried = IF @ < MaxTry + 2 THEN @ + 1 ELSE @]

\* reconnect() closes the old socket, whatever its state.
CloseOld ==
  IF client.sock \in Conn THEN Contract!Leave(client.sock) ELSE UNCHANGED contractVars

Connect ==
  /\ client.pc = "connect"
  /\ server.up /\ opened < MaxConns
  /\ CloseOld
  /\ opened' = opened + 1
  /\ srv' = [c \in Conn |-> IF c = opened + 1 THEN "idle"
                            ELSE IF c = client.sock THEN "over" ELSE srv[c]]
  /\ client' = [client EXCEPT !.pc = "send", !.sock = opened + 1]
  /\ UNCHANGED <<made, outcome, ran, server, end, shut, up, down>>

\* No address can be connected to: HostFailException passes through call().
\* _sock is -1 only if the last socket() failed.
ConnectFails ==
  /\ client.pc = "connect"
  /\ CloseOld
  /\ srv' = [c \in Conn |-> IF c = client.sock THEN "over" ELSE srv[c]]
  /\ \E s \in {Stale, Uninit} :
       client' = [client EXCEPT !.pc = "idle", !.sock = s]
  /\ outcome' = [outcome EXCEPT ![Current] = "host"]
  /\ UNCHANGED <<made, ran, server, opened, end, shut, up, down>>

Sends(c) == client.pc = "send" /\ client.sock = c
Receives(c) == client.pc = "recv" /\ client.sock = c

SendOpen(c) ==
  /\ Sends(c) /\ end[c] = "open"
  /\ Contract!Begin(c)
  /\ up' = [up EXCEPT ![c] = Current]
  /\ Goes("recv")
  /\ UNCHANGED <<made, outcome, ran, server, opened, end, srv, shut, down>>

\* The first write after the server has closed is accepted and answered with
\* a reset.
SendLate(c) ==
  /\ Sends(c) /\ end[c] = "hup"
  /\ IF phase[c] = "free" THEN Contract!Begin(c) ELSE UNCHANGED contractVars
  /\ end' = [end EXCEPT ![c] = "reset"]
  /\ Goes("recv")
  /\ UNCHANGED <<made, outcome, ran, server, opened, srv, shut, up, down>>

GivesUp(c) ==
  IF phase[c] \in {"free", "called"} THEN Contract!GiveUp(c) ELSE UNCHANGED contractVars

\* WriteFailException, or the end of the client.
SendFails(c) ==
  /\ Sends(c) /\ end[c] = "reset"
  /\ TryAgain \/ (SigPipe /\ Goes("killed"))
  /\ GivesUp(c)
  /\ UNCHANGED <<made, outcome, ran, server, connVars>>

\* The number is nobody's: EBADF, WriteFailException.
SendStale ==
  /\ Sends(Stale)
  /\ TryAgain
  /\ UNCHANGED <<made, outcome, ran, server, connVars, contractVars>>

\* The result is parsed before tried is looked at.
RecvResult(c) ==
  /\ Receives(c) /\ down[c] # <<>> /\ Head(down[c]) = "result"
  /\ Contract!Return(c)
  /\ down' = [down EXCEPT ![c] = Tail(@)]
  /\ Ends(IF Wants /\ ~Reads[ran[Current][1]][made[Current]] THEN "unreadable"
            ELSE IF client.tried > MaxTry THEN "failed" ELSE "returned")
  /\ UNCHANGED <<made, ran, server, opened, end, srv, shut, up>>

\* read() takes what there is, up to a chunk: if the next frame is there
\* too, the sizes never become equal.
RecvTooMuch(c) ==
  /\ Receives(c) /\ Len(down[c]) > 1
  /\ Goes("spin")
  /\ UNCHANGED <<made, outcome, ran, server, connVars, contractVars>>

\* Mutant: only SOCKET_CLOSED is an error to a call without a result.
RecvErrorLost(c) ==
  /\ Receives(c) /\ down[c] # <<>> /\ Head(down[c]) \in ErrorCodes
  /\ IF Head(down[c]) = "SOCKET_CLOSED" THEN Contract!GiveUp(c) ELSE Contract!Reject(c)
  /\ down' = [down EXCEPT ![c] = Tail(@)]
  /\ IF Head(down[c]) = "SOCKET_CLOSED"
       THEN Goes("connect") /\ UNCHANGED outcome
       ELSE Ends(IF Wants THEN "error" ELSE "returned")
  /\ UNCHANGED <<made, ran, server, opened, end, srv, shut, up>>

\* Proto::parse_response throws what the frame says.  A call without a result
\* reconnects and tries again whatever it is, a call with one only if the
\* server has closed the connection; the caller gets the rest.
RecvError(c) ==
  /\ Receives(c) /\ down[c] # <<>> /\ Head(down[c]) \in ErrorCodes
  /\ IF Head(down[c]) = "SOCKET_CLOSED" THEN Contract!GiveUp(c) ELSE Contract!Reject(c)
  /\ down' = [down EXCEPT ![c] = Tail(@)]
  /\ IF Head(down[c]) = "SOCKET_CLOSED" \/ ~Wants
       THEN Goes("connect") /\ UNCHANGED outcome
       ELSE Ends("error")
  /\ UNCHANGED <<made, ran, server, opened, end, srv, shut, up>>

\* Mutant: a failed read reconnects, as SOCKET_CLOSED does.
RecvFailsReconnect(c) ==
  /\ Receives(c) /\ down[c] = <<>> /\ end[c] # "open"
  /\ Goes("connect")
  /\ GivesUp(c)
  /\ UNCHANGED <<made, outcome, ran, server, connVars>>

\* End of file or a reset in place of the size: ReadFailException.
RecvFails(c) ==
  /\ Receives(c) /\ down[c] = <<>> /\ end[c] # "open"
  /\ TryAgain
  /\ GivesUp(c)
  /\ UNCHANGED <<made, outcome, ran, server, connVars>>

\* A read may also fail on a connection that is alive: a signal interrupts it,
\* or a size comes in parts.  The code then sends the request once more behind
\* the first, and takes what comes for its answer; the model lets the rest of
\* the system go on and follows the client no further.
RecvInterrupted(c) ==
  /\ Receives(c) /\ (down[c] # <<>> \/ end[c] = "open")
  /\ Goes("astray")
  /\ UNCHANGED <<made, outcome, ran, server, connVars, contractVars>>

\* After a part of a message, a reset is a ReadFailException, while end of
\* file is read for ever.
RecvPart(c) ==
  /\ Receives(c) /\ down[c] = <<"part">>
  /\ IF end[c] = "reset" THEN TryAgain ELSE Goes("spin")
  /\ down' = [down EXCEPT ![c] = <<>>]
  /\ GivesUp(c)
  /\ UNCHANGED <<made, outcome, ran, server, opened, end, srv, shut, up>>

ClientStep ==
  \/ Connect \/ ConnectFails \/ SendStale
  \/ \E c \in Conn :
       \/ SendOpen(c) \/ SendLate(c) \/ SendFails(c)
       \/ RecvResult(c) \/ RecvTooMuch(c) \/ RecvError(c)
       \/ RecvFails(c) \/ RecvPart(c)

-----------------------------------------------------------------------------
(* The server.  Each connection is served on its own; a request that has     *)
(* been read is executed and answered, or answered with an error.            *)

\* The frame that call k is answered with.
AnswerTo(k) == Answers[server.version][made[k]]

\* The method runs.
Execute(c) ==
  /\ Contract!Execute(c)
  /\ ran' = [ran EXCEPT ![up[c]] = Append(@, server.version)]

\* After an error the thread of a SockServer has ended, and nobody reads the
\* connection; a PollServer goes on with it.
Serve(c) ==
  /\ srv[c] = "idle" /\ up[c] # 0
  /\ up' = [up EXCEPT ![c] = 0]
  /\ IF AnswerTo(up[c]) = "result"
       THEN /\ Execute(c)
            /\ srv' = [srv EXCEPT ![c] = "replying"]
            /\ UNCHANGED down
       ELSE /\ down' = [down EXCEPT ![c] = Append(@, AnswerTo(up[c]))]
            /\ \E next \in {"idle", "deaf"} : srv' = [srv EXCEPT ![c] = next]
            /\ UNCHANGED <<ran, contractVars>>
  /\ UNCHANGED <<clientVars, server, opened, end, shut>>

Reply(c) ==
  /\ srv[c] = "replying"
  /\ srv' = [srv EXCEPT ![c] = "idle"]
  /\ down' = [down EXCEPT ![c] = Append(@, "result")]
  /\ UNCHANGED <<clientVars, ran, server, opened, end, shut, up, contractVars>>

\* The connection is evicted, or closed by stop().
Shut(c) ==
  /\ srv[c] # "over" /\ ~shut[c]
  /\ shut' = [shut EXCEPT ![c] = TRUE]
  /\ UNCHANGED <<clientVars, ran, server, opened, end, srv, up, down, contractVars>>

\* Mutant: a request that is being executed is refused as well.
CloseExecuting(c) ==
  /\ srv[c] \in {"idle", "deaf", "replying"} /\ shut[c]
  /\ srv' = [srv EXCEPT ![c] = "over"]
  /\ up' = [up EXCEPT ![c] = 0]
  /\ end' = [end EXCEPT ![c] = IF up[c] = 0 THEN "hup" ELSE "reset"]
  /\ \/ UNCHANGED down
     \/ srv[c] # "deaf" /\ down' = [down EXCEPT ![c] = Append(@, "SOCKET_CLOSED")]
  /\ UNCHANGED <<clientVars, ran, server, opened, shut, contractVars>>

\* Mutant: the thread leaves and the socket stays open.
CloseLeftOpen(c) ==
  /\ srv[c] \in {"idle", "deaf"} /\ shut[c]
  /\ srv' = [srv EXCEPT ![c] = "over"]
  /\ up' = [up EXCEPT ![c] = 0]
  /\ UNCHANGED <<clientVars, ran, server, opened, end, shut, down, contractVars>>

\* Its thread notices and leaves, with or without a word.  Closing over a
\* request nobody has read resets the connection.
Close(c) ==
  /\ srv[c] \in {"idle", "deaf"} /\ shut[c]
  /\ srv' = [srv EXCEPT ![c] = "over"]
  /\ up' = [up EXCEPT ![c] = 0]
  /\ end' = [end EXCEPT ![c] = IF up[c] = 0 THEN "hup" ELSE "reset"]
  /\ \/ UNCHANGED down
     \/ srv[c] = "idle" /\ down' = [down EXCEPT ![c] = Append(@, "SOCKET_CLOSED")]
  /\ UNCHANGED <<clientVars, ran, server, opened, shut, contractVars>>

\* The process dies, or stop() closes what is open: frames not yet received
\* may be lost, and a reply may have been written in part.
Die ==
  /\ server.up /\ server.deaths < MaxDeaths
  /\ server' = [server EXCEPT !.up = FALSE, !.deaths = @ + 1]
  /\ srv' = [c \in Conn |-> "over"]
  /\ up' = [c \in Conn |-> 0]
  /\ \E e \in {"hup", "reset"} :
       end' = [c \in Conn |-> IF srv[c] # "over" THEN e ELSE end[c]]
  /\ \/ UNCHANGED down
     \/ down' = [c \in Conn |-> IF srv[c] # "over" THEN <<>> ELSE down[c]]
     \/ down' = [c \in Conn |-> IF srv[c] = "replying" /\ down[c] = <<>>
                                  THEN <<"part">> ELSE down[c]]
  /\ UNCHANGED <<clientVars, ran, opened, shut, contractVars>>

Restart ==
  /\ ~server.up
  /\ \E v \in Versions : server' = [server EXCEPT !.up = TRUE, !.version = v]
  /\ UNCHANGED <<clientVars, ran, connVars, contractVars>>

ServerNext(c) == Serve(c) \/ Reply(c) \/ Close(c)

Next ==
  \/ MakeCall \/ ClientStep \/ Die \/ Restart
  \/ \E c \in Conn : ServerNext(c) \/ Shut(c) \/ RecvInterrupted(c)

Spec == Init /\ [][Next]_vars

\* The client is a thread, and so is what serves a connection.  Nobody need
\* call, evict, die or restart, and no read need fail on a live connection.
Fairness ==
  /\ WF_vars(ClientStep)
  /\ \A c \in Conn : WF_vars(ServerNext(c))

LiveSpec == Spec /\ Fairness

-----------------------------------------------------------------------------
(* Properties, all of them up to the first read that fails on a connection  *)
(* which is alive: there the model leaves the client.                       *)

\* Client and server never disagree about where a call stands, though neither
\* numbers its messages: on a connection that is alive a request is sent only
\* when no other is outstanding, what the server has in hand is the current
\* call, and the frame the client is about to take for its answer is one.
\* Hence no step of the contract an action is joined with is ever in its way.
InStep ==
  \A c \in Conn : client.sock = c =>
    /\ client.pc = "send" /\ end[c] = "open" => phase[c] = "free"
    /\ up[c] # 0 => up[c] = Current /\ phase[c] = "called"
    /\ srv[c] = "replying" => client.pc \in {"recv", "astray"} /\ phase[c] = "executed"
    /\ client.pc = "recv" /\ down[c] # <<>> =>
         phase[c] = IF Head(down[c]) \in ErrorCodes THEN "called" ELSE "executed"

\* No call runs its method twice, over all the connections it is sent on and
\* whatever the server dies of.
AtMostOnce == \A k \in Call : Len(ran[k]) <= 1

\* What the caller is told is what happened: a call that returned ran, one
\* that threw because of an error or an unreachable host did not and never
\* will.
OutcomeTrue ==
  \A k \in 1 .. Len(made) :
    /\ outcome[k] \in {"returned", "unreadable"} => Len(ran[k]) = 1
    /\ outcome[k] \in {"error", "host"} => ran[k] = <<>>

\* An error is thrown, and a result cannot be read, only if the stubs disagree
\* about the method.  (A service that has died may have come back from another
\* description than the one that answered.)
ErrorsJustified ==
  \A k \in 1 .. Len(made) :
    /\ outcome[k] = "error" /\ server.deaths = 0 => ~Agree[server.version][made[k]]
    /\ outcome[k] = "unreadable" => ~Agree[ran[k][1]][made[k]]

\* Where the stubs agree, a call runs its own method and each parameter gets
\* the argument given for it, class members included.
BoundByName ==
  \A k \in 1 .. Len(made) : \A i \in DOMAIN ran[k] :
    Agree[ran[k][i]][made[k]] =>
      Runs[ran[k][i]][made[k]] = {Faithful(ClientDef, Declared(made[k]))}

\* A call comes to an end, unless the connection fails under it, nobody reads
\* the connection after an error, two frames are read as one, a read of the
\* client's is interrupted, or it is a call without a result that the service
\* answers with an error (which is tried again for ever).
CallEnds ==
  client.pc # "idle" ~>
    \/ client.pc \in {"idle", "spin", "killed", "astray"}
    \/ client.tried > 0
    \/ client.sock \in Conn /\ srv[client.sock] = "deaf"
    \/ ~Wants /\ Answers[server.version][made[Current]] # "result"

\* MAX_TRY bounds the tries of a call.
GivesUpInTime == client.tried <= MaxTry + 1
=============================================================================
