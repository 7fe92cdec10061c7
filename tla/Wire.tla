--------------------------------- MODULE Wire ---------------------------------
(***************************************************************************)
(* What lies between a server and its clients: the descriptors of the      *)
(* server's process, one byte stream in each direction per connection, and *)
(* at the far end of each connection a SockClient that issues calls one    *)
(* after the other.  Both servers EXTEND this module.                      *)
(*                                                                         *)
(* A request travels as two units, its four-byte "size" and the rest of    *)
(* it, which is what the size announces; the rest is represented by the    *)
(* kind of request it turns out to be.  A "badsize" is a size no reader    *)
(* accepts: not positive, or fewer than four bytes.  A reply is one frame: *)
(* "result", or the name of an error code of Proto.                        *)
(***************************************************************************)
EXTENDS Integers, Sequences, FiniteSets

CONSTANTS
  MaxConns,     \* connections accepted in a behaviour (a bound)
  MaxCalls,     \* requests a client starts on one connection (a bound)
  MaxFd,        \* descriptors the process may have open
  Kinds,        \* the requests clients send
  ClosePoints,  \* the states in which a client may go away
  AppOpens      \* may the rest of the process open a descriptor of its own?

RequestKinds == {"ok", "notjson", "nomethod", "mismatch", "badsize"}
ErrorCodes == {"SOCKET_CLOSED", "METHOD_NOT_FOUND", "JSON_NOT_PARSED",
               "PARAM_MISMATCH", "BAD_MESSAGE"}
Frames == {"result"} \cup ErrorCodes
Units == {"size"} \cup RequestKinds

ASSUME WireAssumption ==
  /\ MaxConns \in Nat \ {0}
  /\ MaxCalls \in Nat \ {0}
  /\ MaxFd \in Nat \ {0}
  /\ Kinds \subseteq RequestKinds
  /\ ClosePoints \subseteq {"idle", "half", "waiting", "stuck"}
  /\ AppOpens \in BOOLEAN

Conn == 1 .. MaxConns       \* connections, in the order of accept()
Fd == 1 .. MaxFd
NoFd == -1                  \* UNINIT_SOCKET, and what a failed accept() returns
Free == 0                   \* owner of a descriptor nobody has open
App == MaxConns + 1         \* owner: the rest of the process

VARIABLES
  owner,    \* [Fd -> who has the descriptor open]
  fdOf,     \* the number a Connection or Channel keeps in _client_sock, _sock
  appFd,    \* the number the rest of the process keeps
  up,       \* units on their way to the server
  down,     \* frames on their way to the client
  client,   \* where the SockClient at the far end stands
  calls,    \* requests the client has started
  acked,    \* results the client has read
  denied,   \* requests the client has seen end without a result
  hup       \* has the server's end been closed?

clientVars == <<up, down, client, calls, acked, denied>>
fdVars == <<owner, fdOf, appFd, hup>>
wireVars == <<clientVars, fdVars>>

ClientStates == {"none", "idle", "half", "waiting", "stuck", "refused", "failed",
                 "closed", "reset"}
Gone == {"closed", "reset"}

WireTypeOK ==
  /\ owner \in [Fd -> Conn \cup {Free, App}]
  /\ fdOf \in [Conn -> Fd \cup {NoFd}]
  /\ appFd \in Fd \cup {NoFd}
  /\ up \in [Conn -> Seq(Units)]
  /\ down \in [Conn -> Seq(Frames)]
  /\ client \in [Conn -> ClientStates]
  /\ calls \in [Conn -> Nat]
  /\ acked \in [Conn -> Nat]
  /\ denied \in [Conn -> Nat]
  /\ hup \in [Conn -> BOOLEAN]

WireInit ==
  /\ owner = [f \in Fd |-> Free]
  /\ fdOf = [c \in Conn |-> NoFd]
  /\ appFd = NoFd
  /\ up = [c \in Conn |-> <<>>]
  /\ down = [c \in Conn |-> <<>>]
  /\ client = [c \in Conn |-> "none"]
  /\ calls = [c \in Conn |-> 0]
  /\ acked = [c \in Conn |-> 0]
  /\ denied = [c \in Conn |-> 0]
  /\ hup = [c \in Conn |-> FALSE]

-----------------------------------------------------------------------------
\* The error a request of this kind is answered with: Proto::build_request
\* and JsonRPCService::on_request throw it.
ErrorOf(kind) == CASE kind = "notjson"  -> "JSON_NOT_PARSED"
                   [] kind = "nomethod" -> "METHOD_NOT_FOUND"
                   [] kind = "mismatch" -> "PARAM_MISMATCH"
                   [] OTHER             -> "BAD_MESSAGE"

-----------------------------------------------------------------------------
(* Descriptors: the lowest free number is given out, close() frees a number *)
(* whoever has it open by then.                                             *)

FreeFds == {f \in Fd : owner[f] = Free}
Lowest(f) == f \in FreeFds /\ \A g \in FreeFds : f <= g

Holds(c) == fdOf[c] # NoFd /\ owner[fdOf[c]] = c

\* accept() hands connection c the lowest free number; its client goes on.
AcceptFd(c) ==
  \E f \in Fd :
    /\ Lowest(f)
    /\ owner' = [owner EXCEPT ![f] = c]
    /\ fdOf' = [fdOf EXCEPT ![c] = f]
    /\ client' = [client EXCEPT ![c] = "idle"]
    /\ UNCHANGED <<appFd, hup, up, down, calls, acked, denied>>

\* close(n): whoever has the number open loses it.
Close(n) ==
  /\ owner' = [f \in Fd |-> IF f = n THEN Free ELSE owner[f]]
  /\ hup' = [c \in Conn |-> hup[c] \/ (Holds(c) /\ fdOf[c] = n)]

CloseFd(c) == Close(fdOf[c]) /\ UNCHANGED <<fdOf, appFd>>

\* The rest of the process (a service method that is itself a client) opens
\* a socket and later closes it.
AppOpen ==
  /\ AppOpens /\ appFd = NoFd
  /\ \E f \in Fd : /\ Lowest(f)
                   /\ appFd' = f
                   /\ owner' = [owner EXCEPT ![f] = App]
  /\ UNCHANGED <<clientVars, fdOf, hup>>

AppClose ==
  /\ appFd # NoFd
  /\ Close(appFd)
  /\ appFd' = NoFd
  /\ UNCHANGED <<clientVars, fdOf>>

-----------------------------------------------------------------------------
(* The server's write() of one frame to c.  The first write after the       *)
(* client has closed is accepted and answered with a reset; a write after   *)
(* a reset kills the process (SIGPIPE).                                     *)

WriteKills(c) == client[c] = "reset"

Write(c, frame) ==
  /\ ~WriteKills(c)
  /\ IF client[c] = "closed"
       THEN /\ client' = [client EXCEPT ![c] = "reset"]
            /\ UNCHANGED down
       ELSE /\ down' = [down EXCEPT ![c] = Append(@, frame)]
            /\ UNCHANGED client
  /\ UNCHANGED <<up, calls, acked, denied>>

-----------------------------------------------------------------------------
(* The client.  SockClient::_send writes size and message together when     *)
(* they fit one chunk, and in several write()s otherwise.                   *)

ClientSend(c) ==
  /\ client[c] = "idle" /\ calls[c] < MaxCalls
  /\ calls' = [calls EXCEPT ![c] = @ + 1]
  /\ \/ \E k \in Kinds :
          /\ up' = [up EXCEPT ![c] =
                      @ \o IF k = "badsize" THEN <<k>> ELSE <<"size", k>>]
          /\ client' = [client EXCEPT ![c] = "waiting"]
     \/ /\ Kinds \ {"badsize"} # {}
        /\ up' = [up EXCEPT ![c] = Append(@, "size")]
        /\ client' = [client EXCEPT ![c] = "half"]
  /\ UNCHANGED <<fdVars, down, acked, denied>>

ClientSendRest(c) ==
  /\ client[c] = "half"
  /\ \E k \in Kinds \ {"badsize"} : up' = [up EXCEPT ![c] = Append(@, k)]
  /\ client' = [client EXCEPT ![c] = "waiting"]
  /\ UNCHANGED <<fdVars, down, calls, acked, denied>>

\* A write to an end the server has closed may be refused: WriteFailException.
ClientSendFails(c) ==
  /\ hup[c]
  /\ \/ client[c] = "idle" /\ calls[c] < MaxCalls
     \/ client[c] = "half"
  /\ client' = [client EXCEPT ![c] = "failed"]
  /\ denied' = [denied EXCEPT ![c] = IF client[c] = "half" THEN @ + 1 ELSE @]
  /\ UNCHANGED <<fdVars, up, down, calls, acked>>

\* SockClient::_recv and AbstractClient's reaction to the frame: a result
\* ends the call, SOCKET_CLOSED makes it reconnect, any other error is the
\* caller's, which may go on using the client.
ClientRecv(c) ==
  /\ client[c] = "waiting" /\ down[c] # <<>>
  /\ down' = [down EXCEPT ![c] = Tail(@)]
  /\ LET frame == Head(down[c]) IN
       /\ client' = [client EXCEPT ![c] =
                       IF frame = "SOCKET_CLOSED" THEN "refused" ELSE "idle"]
       /\ acked' = [acked EXCEPT ![c] = IF frame = "result" THEN @ + 1 ELSE @]
       /\ denied' = [denied EXCEPT ![c] = IF frame = "result" THEN @ ELSE @ + 1]
  /\ UNCHANGED <<fdVars, up, calls>>

\* _recv() reads a chunk whatever the size says.  When the next frame is
\* there as well, more bytes are counted than announced, the two numbers are
\* never equal, and the loop goes on, also at the end of file.
ClientRecvTooMuch(c) ==
  /\ client[c] = "waiting" /\ Len(down[c]) > 1
  /\ down' = [down EXCEPT ![c] = <<>>]
  /\ client' = [client EXCEPT ![c] = "stuck"]
  /\ UNCHANGED <<fdVars, up, calls, acked, denied>>

\* read() returns 0 in place of the size: ReadFailException.
ClientRecvFails(c) ==
  /\ client[c] = "waiting" /\ down[c] = <<>> /\ hup[c]
  /\ client' = [client EXCEPT ![c] = "failed"]
  /\ denied' = [denied EXCEPT ![c] = @ + 1]
  /\ UNCHANGED <<fdVars, up, down, calls, acked>>

ClientReads(c) == ClientRecv(c) \/ ClientRecvTooMuch(c) \/ ClientRecvFails(c)

\* The client closes its end: in reconnect(), in ~SockClient, or because its
\* process dies.  Closing over unread frames resets the connection.
ClientClose(c) ==
  /\ client[c] \in ClosePoints \cup {"refused"}
  /\ client' = [client EXCEPT ![c] = IF down[c] = <<>> THEN "closed" ELSE "reset"]
  /\ down' = [down EXCEPT ![c] = <<>>]
  /\ UNCHANGED <<fdVars, up, calls, acked, denied>>

ClientNext(c) ==
  \/ ClientSend(c) \/ ClientSendRest(c) \/ ClientSendFails(c)
  \/ ClientReads(c) \/ ClientClose(c)
-----------------------------------------------------------------------------
\* What its caller may conclude of a connection, of which e calls have been
\* executed: the phase of CallContract.  Both servers are refined through it.
PhaseOf(c, e) ==
  CASE client[c] \in {"none", "idle"}      -> "free"
    [] client[c] \in {"half", "waiting", "stuck"} -> IF e = acked[c] THEN "called" ELSE "executed"
    [] client[c] \in {"refused", "failed"} -> "resend"
    [] client[c] \in Gone                  ->
         IF calls[c] > acked[c] + denied[c] /\ e = acked[c] THEN "abandoned" ELSE "gone"
=============================================================================
