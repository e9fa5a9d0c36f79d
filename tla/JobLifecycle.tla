---------------------------- MODULE JobLifecycle ----------------------------
(***************************************************************************)
(* What the job queue promises to the uploader of an image, with no        *)
(* workers, no reaper, no crashes: a job is submitted once, is tried a     *)
(* bounded number of times, and ends done or failed for good, unless it    *)
(* goes with its image.  JobQueue implements this specification under the  *)
(* refinement mapping phase <- status, tries <- attempts; so do the images *)
(* of Pipeline, and those of Sessions, where users are deleted.            *)
(***************************************************************************)
EXTENDS Naturals

CONSTANTS Jobs,      \* every job the users of one deployment may submit
          MaxTries,  \* how often a job may be started
          Withdrawable  \* those whose image may be deleted

VARIABLES phase,     \* [Jobs -> Phases]
          tries      \* [Jobs -> 0..MaxTries], how often the job was started

vars == <<phase, tries>>

Settled == {"done", "failed"}
Phases  == {"absent", "pending", "processing", "withdrawn"} \cup Settled

LifecycleTypeOK ==
  /\ phase \in [Jobs -> Phases]
  /\ tries \in [Jobs -> 0..MaxTries]

Init ==
  /\ phase = [j \in Jobs |-> "absent"]
  /\ tries = [j \in Jobs |-> 0]

Stays(j)   == phase'[j] = phase[j] /\ tries'[j] = tries[j]

Submitted(j) ==
  /\ phase[j] = "absent" /\ phase'[j] = "pending"
  /\ tries'[j] = tries[j]

\* A try is counted when it starts, so a try that is never heard of again
\* still uses up one of the MaxTries.
Started(j) ==
  /\ phase[j] = "pending" /\ phase'[j] = "processing"
  /\ tries[j] < MaxTries /\ tries'[j] = tries[j] + 1

\* Only a job with tries left goes back to the queue.
Returned(j) ==
  /\ phase[j] = "processing" /\ phase'[j] = "pending"
  /\ tries[j] < MaxTries /\ tries'[j] = tries[j]

Ended(j) ==
  /\ phase[j] = "processing" /\ phase'[j] \in Settled
  /\ tries'[j] = tries[j]

\* Deleting an image takes its job along, at any time and for good.
Withdrawn(j) ==
  /\ j \in Withdrawable /\ phase'[j] = "withdrawn"
  /\ tries'[j] = tries[j]

\* One statement of the reaper moves several jobs at once, so a step moves
\* every job along its life cycle or leaves it where it is.
Next ==
  /\ LifecycleTypeOK'
  /\ \A j \in Jobs :
       \/ Stays(j) \/ Submitted(j) \/ Started(j) \/ Returned(j) \/ Ended(j)
       \/ Withdrawn(j)

Spec == Init /\ [][Next]_vars
=============================================================================
