------------------------------ MODULE MCMemory ------------------------------
(***************************************************************************)
(* Buffers, ShmPools and DmabufFeedback for TLC, in one run.  The three    *)
(* share no variable and no action of one reads the state of another, so a *)
(* behaviour of their composition is one of each, interleaved: it is       *)
(* enough to let one of them move.                                         *)
(***************************************************************************)
EXTENDS Buffers, ShmPools, DmabufFeedback

VARIABLE moving   \* the component that takes steps

memoryVars == <<vars, poolVars, feedbackVars, moving>>

MCInit ==
  /\ Init /\ PoolsInit /\ FeedbackInit
  /\ moving \in {"buffers", "pools", "feedback"}

MCNext ==
  /\ \/ moving = "buffers" /\ Next /\ UNCHANGED <<poolVars, feedbackVars>>
     \/ moving = "pools" /\ PoolsNext /\ UNCHANGED <<vars, feedbackVars>>
     \/ moving = "feedback" /\ FeedbackNext /\ UNCHANGED <<vars, poolVars>>
  /\ UNCHANGED moving

MCSpec == MCInit /\ [][MCNext]_memoryVars

=============================================================================
