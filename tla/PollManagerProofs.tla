--------------------------- MODULE PollManagerProofs ---------------------------
(***************************************************************************)
(* HighestCoversSets is an invariant of PollManager for any set of         *)
(* descriptors.  It is inductive once it is known that the fd_sets and the *)
(* sets _highest is computed from are the same.                            *)
(***************************************************************************)
EXTENDS PollManager, TLAPS

\* What the invariant needs: each fd_set has its mirror.
Mirrored ==
  /\ watchedRead = readSet
  /\ watchedWrite = writeSet

Inv == TypeOK /\ Mirrored /\ HighestCoversSets

\* At the start nothing is watched.
LEMMA InitInv == Init => Inv
BY DEF Init, Inv, TypeOK, Mirrored, HighestCoversSets

\* watch() raises _highest to the new descriptor when it is below it.
LEMMA WatchInv ==
  ASSUME Number \subseteq Nat, Inv, NEW f \in Number, NEW mode \in Mode, Watch(f, mode)
  PROVE  Inv'
<1>0. Number \subseteq Nat /\ highest \in Nat
  BY DEF Inv, TypeOK
<1>1. TypeOK'
  BY DEF Inv, TypeOK, Watch
<1>2. Mirrored'
  BY DEF Inv, Mirrored, Watch
<1>3. readSet' \cup writeSet' = readSet \cup writeSet \cup {f}
  BY DEF Watch
<1>4. f \in Nat /\ \A g \in readSet \cup writeSet : g \in Nat /\ g <= highest
  BY <1>0 DEF Inv, TypeOK, HighestCoversSets
<1>5. highest' \in Nat /\ f <= highest' /\ highest <= highest'
  BY <1>0, <1>4 DEF Watch
<1>6. \A g \in readSet' \cup writeSet' : g <= highest'
  BY <1>0, <1>3, <1>4, <1>5
<1>7. highest' \in readSet' \cup writeSet' \cup {0}
  BY <1>3 DEF Inv, HighestCoversSets, Watch
<1>8. HighestCoversSets'
  BY <1>6, <1>7 DEF HighestCoversSets
<1> QED
  BY <1>1, <1>2, <1>8 DEF Inv

\* unwatch() recomputes _highest from the mirrors, which are the sets.
LEMMA UnwatchInv ==
  ASSUME Inv, NEW f \in Number, NEW mode \in Mode, Unwatch(f, mode)
  PROVE  Inv'
<1>1. Mirrored'
  BY DEF Inv, Mirrored, Unwatch
<1>2. /\ readSet' \subseteq Number /\ writeSet' \subseteq Number
      /\ watchedRead' \subseteq Number /\ watchedWrite' \subseteq Number
  BY DEF Inv, TypeOK, Unwatch
<1>3. TypeOK'
  BY <1>2 DEF TypeOK, Unwatch
<1>4. HighestCoversSets'
  BY <1>1 DEF Mirrored, HighestCoversSets, Unwatch
<1> QED
  BY <1>1, <1>3, <1>4 DEF Inv

\* Whatever is watched and unwatched, in whatever order, select() is told to
\* look far enough and no further.
THEOREM HighestCovers ==
  ASSUME Number \subseteq Nat
  PROVE  Spec => [](TypeOK /\ HighestCoversSets)
<1>1. Init => Inv
  BY InitInv
<1>2. Inv /\ [Next]_vars => Inv'
  <2> SUFFICES ASSUME Inv, [Next]_vars PROVE Inv'
    OBVIOUS
  <2>1. CASE Next
    BY <2>1, WatchInv, UnwatchInv DEF Next
  <2>2. CASE UNCHANGED vars
    BY <2>2 DEF vars, Inv, TypeOK, Mirrored, HighestCoversSets
  <2> QED
    BY <2>1, <2>2
<1>3. Inv => TypeOK /\ HighestCoversSets
  BY DEF Inv
<1> QED
  BY <1>1, <1>2, <1>3, PTL DEF Spec
=============================================================================
