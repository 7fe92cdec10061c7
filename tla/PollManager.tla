----------------------------- MODULE PollManager -----------------------------
(***************************************************************************)
(* PollManager: the descriptors a process watches with select().  watch()  *)
(* and unwatch() are called by the loop thread of a PollServer and by its  *)
(* workers; each runs under _mutex and blocks on nothing, so each is one   *)
(* step.  poll() takes a copy of the sets under _mutex and then waits on   *)
(* the copy, which PollServer models.                                      *)
(*                                                                         *)
(* Definitions marked "Mutant" are not part of the specification.          *)
(***************************************************************************)
EXTENDS Integers

CONSTANT Number    \* the descriptors a process may have, natural numbers

Mode == {"READ", "WRITE"}

VARIABLES
  readSet, writeSet,         \* the fd_sets _read_set and _write_set
  watchedRead, watchedWrite, \* _watched_read_fds and _watched_write_fds
  highest                    \* _highest

vars == <<readSet, writeSet, watchedRead, watchedWrite, highest>>

\* The sets hold descriptors, _highest is one or the 0 it starts with.
TypeOK ==
  /\ readSet \subseteq Number
  /\ writeSet \subseteq Number
  /\ watchedRead \subseteq Number
  /\ watchedWrite \subseteq Number
  /\ highest \in Number \cup {0}

Init ==
  /\ readSet = {} /\ writeSet = {}
  /\ watchedRead = {} /\ watchedWrite = {}
  /\ highest = 0

\* Mutant: _highest is what select() takes, one more than the largest.
WatchNfds(f, mode) ==
  /\ IF mode = "READ"
       THEN /\ readSet' = readSet \cup {f}
            /\ watchedRead' = watchedRead \cup {f}
            /\ UNCHANGED <<writeSet, watchedWrite>>
       ELSE /\ writeSet' = writeSet \cup {f}
            /\ watchedWrite' = watchedWrite \cup {f}
            /\ UNCHANGED <<readSet, watchedRead>>
  /\ highest' = IF f + 1 > highest THEN f + 1 ELSE highest

Watch(f, mode) ==
  /\ IF mode = "READ"
       THEN /\ readSet' = readSet \cup {f}
            /\ watchedRead' = watchedRead \cup {f}
            /\ UNCHANGED <<writeSet, watchedWrite>>
       ELSE /\ writeSet' = writeSet \cup {f}
            /\ watchedWrite' = watchedWrite \cup {f}
            /\ UNCHANGED <<readSet, watchedRead>>
  /\ highest' = IF f > highest THEN f ELSE highest

\* Mutant: new_highest is computed from the descriptors watched for reading.
UnwatchReads(f, mode) ==
  /\ IF mode = "READ"
       THEN /\ readSet' = readSet \ {f}
            /\ watchedRead' = watchedRead \ {f}
            /\ UNCHANGED <<writeSet, watchedWrite>>
       ELSE /\ writeSet' = writeSet \ {f}
            /\ watchedWrite' = watchedWrite \ {f}
            /\ UNCHANGED <<readSet, watchedRead>>
  /\ highest' \in watchedRead' \cup {0}
  /\ \A g \in watchedRead' : g <= highest'

\* new_highest is recomputed from what is left.
Unwatch(f, mode) ==
  /\ IF mode = "READ"
       THEN /\ readSet' = readSet \ {f}
            /\ watchedRead' = watchedRead \ {f}
            /\ UNCHANGED <<writeSet, watchedWrite>>
       ELSE /\ writeSet' = writeSet \ {f}
            /\ watchedWrite' = watchedWrite \ {f}
            /\ UNCHANGED <<readSet, watchedRead>>
  /\ highest' \in watchedRead' \cup watchedWrite' \cup {0}
  /\ \A g \in watchedRead' \cup watchedWrite' : g <= highest'

Next == \E f \in Number, mode \in Mode : Watch(f, mode) \/ Unwatch(f, mode)

Spec == Init /\ [][Next]_vars

-----------------------------------------------------------------------------
\* select(highest + 1, ...) looks at every descriptor in the fd_sets, though
\* _highest is computed from other sets than the ones handed to select(), and
\* looks no further than it has to.
HighestCoversSets ==
  /\ \A f \in readSet \cup writeSet : f <= highest
  /\ highest \in readSet \cup writeSet \cup {0}
=============================================================================
