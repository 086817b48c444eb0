----------------------------- MODULE MarkovChain -----------------------------
(***************************************************************************)
(* What the generation executables promise together with their checkpoint  *)
(* files: one Markov chain of configurations that can be interrupted and   *)
(* taken up again.  The abstract state is the position of the running      *)
(* process on the chain and the set of positions from which the chain can  *)
(* be continued exactly (a configuration and the matching state of the     *)
(* random number generator are both on disk).                              *)
(*                                                                         *)
(* A checkpoint appears, or is rewritten, only at the position the process *)
(* stands at: the positions behind it stay usable whatever happens.        *)
(***************************************************************************)
EXTENDS Naturals

VARIABLES position,     \* the trajectory the process has reached
          checkpoints   \* the trajectories the chain can be continued from

mcVars == <<position, checkpoints>>

MCInit == position = 0 /\ checkpoints = {}

\* One more trajectory.
Advance == position' = position + 1 /\ UNCHANGED checkpoints

\* The checkpoint of the present trajectory becomes usable ...
Commit == checkpoints' = checkpoints \cup {position} /\ UNCHANGED position

\* ... or is being rewritten.
Rewrite == checkpoints' = checkpoints \ {position} /\ UNCHANGED position

\* The process is started again, from a checkpoint or from the beginning.
Resume == position' \in checkpoints \cup {0} /\ UNCHANGED checkpoints

MCNext == Advance \/ Commit \/ Rewrite \/ Resume

MCSpec == MCInit /\ [][MCNext]_mcVars
==============================================================================
