----------------------------- MODULE JobWindow -----------------------------
(***************************************************************************)
(* What a session's job history promises (TcpSession.AddJob/FindJob over *)
(* datastruct.Ring, capacity 8): FindJob finds exactly the last N jobs    *)
(* added, and adding a job to a full history forgets the oldest one.     *)
(***************************************************************************)
EXTENDS Sequences, SequencesExt

CONSTANTS
    N,      \* capacity
    Jobs    \* job ids

VARIABLES
    window,     \* the jobs FindJob finds, oldest first
    issued      \* every job added so far: job ids are never reused

TypeOK == window \in Seq(Jobs) /\ Len(window) <= N /\ issued \subseteq Jobs

Init == window = <<>> /\ issued = {}

(* Mutant of Add: a history that never forgets a job. *)
AddNoEvict(j) ==
    /\ j \notin issued
    /\ issued' = issued \cup {j}
    /\ window' = Append(window, j)

(* AddJob: the job joins the window; a full window drops its oldest job. *)
Add(j) ==
    /\ j \notin issued
    /\ issued' = issued \cup {j}
    /\ window' = IF Len(window) < N THEN Append(window, j)
                 ELSE Append(Tail(window), j)

(* FindJob: the linear scan of Ring.Do for the job's id. *)
Findable(j) == j \in ToSet(window)

Spec == Init /\ [][\E j \in Jobs : Add(j)]_<<window, issued>>
=============================================================================
