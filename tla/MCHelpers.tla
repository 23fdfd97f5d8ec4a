----------------------------- MODULE MCHelpers -----------------------------
(* Arena, Frames, Arguments and Instances on small instances.  They share  *)
(* nothing, so a behaviour is one of the arena, of the stream, of the      *)
(* command line or of the test framework.                                  *)
EXTENDS Arena, Frames, Arguments, Instances, Bitwise

CONSTANTS i1, i2, p1, p2

VARIABLE subject

MCProbes == {-64, -1, 0, 63, 64}

\* With Top = 4, 126 and 127 are 2 and 3, and two bytes hold lengths up to 63.
MCXor(b, k) == b ^^ k
Payload(n) == [k \in 1 .. n |-> (5 * k) % 8]
Frame(first, mask, n, length) ==
  [first |-> first, mask |-> mask, length |-> length, payload |-> Payload(n)]

\* Masked text frames with FIN, and a fragment of binary and of none, unmasked.
MCInputs ==
  {Frame(5, <<7, 1, 0, 6>>, 0, <<>>), Frame(5, <<7, 1, 0, 6>>, 2, <<0, 2>>),
   Frame(5, <<7, 1, 0, 6>>, 9, <<0, 0, 0, 0, 0, 0, 1, 1>>)}
    \cup {Frame(first, <<>>, 1, <<>>) : first \in {2, 0}}
    \cup {Frame(first, <<>>, 9, <<1, 1>>) : first \in {2, 0}}

\* These frames have 3, 6, 10, 13 and 23 bytes.
MCArrivals == {1, 2, 3, 5, 6, 9, 10, 12, 13, 16, 19, 20, 22, 23, 26, 29, 33, 36, 46}

MCInit ==
  /\ ArenaInit /\ FramesInit /\ ArgsInit /\ Init
  /\ subject \in {"arena", "frames", "arguments", "instances"}
  /\ subject # "arguments" => argv = <<>>

\* The command line has been read.
ArgsRead == at \in {"serve", "0", "1"} /\ UNCHANGED argsVars

MCNext ==
  /\ UNCHANGED subject
  /\ \/ subject = "arena" /\ ArenaNext /\ UNCHANGED <<framesVars, argsVars, vars>>
     \/ subject = "frames" /\ FramesNext /\ UNCHANGED <<arenaVars, argsVars, vars>>
     \/ /\ subject = "arguments" /\ (ArgsNext \/ ArgsRead)
        /\ UNCHANGED <<arenaVars, framesVars, vars>>
     \/ subject = "instances" /\ Next /\ UNCHANGED <<arenaVars, framesVars, argsVars>>

\* The fairness of the test framework; nothing of it is enabled elsewhere.
MCSpec ==
  MCInit /\ [][MCNext]_<<arenaVars, framesVars, argsVars, vars, subject>> /\ Fairness
=============================================================================
