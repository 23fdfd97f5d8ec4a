------------------------------ MODULE Register ------------------------------
(***************************************************************************)
(* What clients may rely on when they insert identifiers one after the     *)
(* other: the server learns an identifier that it does not know, at most   *)
(* once between two starts; only while it deals with what it has learnt    *)
(* may it make a row and acknowledge, which it does last; and a start      *)
(* knows nothing but rows there are, though not always all of them.  Once  *)
(* two requests overlap, all that is promised until the next start is that *)
(* rows stay.                                                              *)
(***************************************************************************)
CONSTANTS Ids      \* identifiers

VARIABLES up,       \* the server runs
          alone,    \* no two requests have overlapped since the last start
          known,    \* answered DEFINITELY_YES
          learning, \* learnt, and not yet acknowledged
          stored,   \* has a row
          acked     \* acknowledged since the last start

rvars == <<up, alone, known, learning, stored, acked>>

Init ==
  /\ up = TRUE /\ alone = TRUE
  /\ known = {} /\ learning = {} /\ stored = {} /\ acked = {}

Learn(i) ==
  /\ up /\ alone /\ learning = {}
  /\ i \notin known \cup acked
  /\ known' = known \cup {i}
  /\ learning' = {i}
  /\ UNCHANGED <<up, alone, stored, acked>>

\* i may have a row already that the last start did not read.
Persist(i) ==
  /\ up /\ alone /\ i \in learning
  /\ stored' = stored \cup {i}
  /\ UNCHANGED <<up, alone, known, learning, acked>>

Acknowledge(i) ==
  /\ up /\ alone /\ i \in learning
  /\ learning' = {}
  /\ acked' = acked \cup {i}
  /\ UNCHANGED <<up, alone, known, stored>>

Crash ==
  /\ up /\ up' = FALSE
  /\ known' = {} /\ learning' = {} /\ acked' = {}
  /\ UNCHANGED <<alone, stored>>

Restart ==
  /\ ~ up /\ up' = TRUE
  /\ alone' = TRUE
  /\ known' \subseteq stored /\ learning' = {} /\ acked' = {}
  /\ UNCHANGED stored

Overlap ==
  /\ alone' = FALSE
  /\ stored \subseteq stored'

Next ==
  \/ \E i \in Ids : Learn(i) \/ Persist(i) \/ Acknowledge(i)
  \/ Crash \/ Restart \/ Overlap

Spec == Init /\ [][Next]_rvars
=============================================================================
