---------------------------- MODULE JobLifecycle ----------------------------
(***************************************************************************)
(* What the script may rely on when it hands a job to one of the two       *)
(* background workers (outbound requests, outgoing uploads): the job is    *)
(* taken at most once, one job is worked on at a time, its outcome is      *)
(* reported at most once, and outcomes are reported in the order in which  *)
(* the jobs finished.  A job may be withdrawn before it is taken, and a    *)
(* restart of the gamemode may forget it at any point.                     *)
(***************************************************************************)
EXTENDS Sequences

CONSTANT Jobs

VARIABLES
    submitted,      \* jobs that were ever handed over
    waiting,        \* jobs not yet taken
    running,        \* the job being worked on, a set of at most one
    finished,       \* outcomes not yet reported, oldest first
    reported        \* jobs whose outcome the script has heard

vars == <<submitted, waiting, running, finished, reported>>

Init ==
    /\ submitted = {} /\ waiting = {} /\ running = {}
    /\ finished = <<>> /\ reported = {}

Submit(j) ==
    /\ j \notin submitted
    /\ submitted' = submitted \cup {j}
    /\ waiting' = waiting \cup {j}
    /\ UNCHANGED <<running, finished, reported>>

Withdraw(j) ==
    /\ j \in waiting
    /\ waiting' = waiting \ {j}
    /\ UNCHANGED <<submitted, running, finished, reported>>

Take(j) ==
    /\ j \in waiting /\ running = {}
    /\ waiting' = waiting \ {j}
    /\ running' = {j}
    /\ UNCHANGED <<submitted, finished, reported>>

Finish(j) ==
    /\ j \in running
    /\ running' = {}
    /\ finished' = Append(finished, j)
    /\ UNCHANGED <<submitted, waiting, reported>>

Report ==
    /\ finished # <<>>
    /\ reported' = reported \cup {Head(finished)}
    /\ finished' = Tail(finished)
    /\ UNCHANGED <<submitted, waiting, running>>

\* A restart of the gamemode: what waits and what is not yet reported may be
\* forgotten, and so may the job that is running.
Abandon(j) ==
    /\ j \in running
    /\ running' = {}
    /\ UNCHANGED <<submitted, waiting, finished, reported>>

ForgetFinished ==
    /\ finished' = <<>>
    /\ UNCHANGED <<submitted, waiting, running, reported>>

ForgetWaiting ==
    /\ waiting' = {}
    /\ UNCHANGED <<submitted, running, finished, reported>>

Next ==
    \/ \E j \in Jobs : Submit(j) \/ Withdraw(j) \/ Take(j) \/ Finish(j) \/ Abandon(j)
    \/ Report \/ ForgetFinished \/ ForgetWaiting

Spec == Init /\ [][Next]_vars
=============================================================================
