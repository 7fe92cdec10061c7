----------------------------- MODULE CallContract -----------------------------
(***************************************************************************)
(* What a caller of AbstractClient::call is promised, whichever server is  *)
(* at the other end of the connection: a call runs its service method at   *)
(* most once, it returns a result only after the method has run, and it is *)
(* given up (so that the caller may reconnect and send it again) or        *)
(* answered with an error only if the method has not run, nor ever will.   *)
(***************************************************************************)
EXTENDS Integers

CONSTANT Client

VARIABLES
  phase,     \* of the client: see Phases
  begun,     \* calls the client has begun
  executed,  \* service methods run for the client
  returned   \* results the client's calls have returned

vars == <<phase, begun, executed, returned>>

Phases == {"free", "called", "executed", "resend", "abandoned", "gone"}

Init ==
  /\ phase = [c \in Client |-> "free"]
  /\ begun = [c \in Client |-> 0]
  /\ executed = [c \in Client |-> 0]
  /\ returned = [c \in Client |-> 0]

Moves(c, from, to) ==
  phase[c] \in from /\ phase' = [phase EXCEPT ![c] = to]

Begin(c) ==
  /\ Moves(c, {"free"}, "called")
  /\ begun' = [begun EXCEPT ![c] = @ + 1]
  /\ UNCHANGED <<executed, returned>>

\* Of a client that has left, what it had sent may still be executed.
Execute(c) ==
  /\ executed' = [executed EXCEPT ![c] = @ + 1]
  /\ Moves(c, {"called"}, "executed") \/ Moves(c, {"abandoned"}, "gone")
  /\ UNCHANGED <<begun, returned>>

Return(c) ==
  /\ Moves(c, {"executed"}, "free")
  /\ returned' = [returned EXCEPT ![c] = @ + 1]
  /\ UNCHANGED <<begun, executed>>

Reject(c) == Moves(c, {"called"}, "free") /\ UNCHANGED <<begun, executed, returned>>

\* The write, or the read of the reply, fails; so it may be sent again.
GiveUp(c) ==
  Moves(c, {"free", "called"}, "resend") /\ UNCHANGED <<begun, executed, returned>>

\* The client closes its end.
Leave(c) ==
  /\ Moves(c, {"called"}, "abandoned") \/ Moves(c, {"free", "executed", "resend"}, "gone")
  /\ UNCHANGED <<begun, executed, returned>>

Next == \E c \in Client :
  Begin(c) \/ Execute(c) \/ Return(c) \/ Reject(c) \/ GiveUp(c) \/ Leave(c)

Spec == Init /\ [][Next]_vars
=============================================================================
