------------------------------- MODULE FanOut -------------------------------
(***************************************************************************)
(* What a DispatchGroup promises the code that fans requests out and goes  *)
(* on when all have called back: every job enters before the group is      *)
(* waited on, each leaves at most once, and the notify block runs once,    *)
(* after the last has left.  NewTweet and DeleteTweet implement it.        *)
(***************************************************************************)

CONSTANTS Group, Job

VARIABLES
    stage,  \* per group: "idle", "waiting" for the jobs, or "notified"
    open    \* per group: the jobs that entered and have not left

Step(g, from, to) == stage[g] = from /\ stage' = [stage EXCEPT ![g] = to]

Init == stage = [g \in Group |-> "idle"] /\ open = [g \in Group |-> {}]

Start(g) ==
    /\ Step(g, "idle", "waiting")
    /\ \E jobs \in SUBSET Job : open' = [open EXCEPT ![g] = jobs]

Leave(g) ==
    /\ Step(g, "waiting", "waiting")
    /\ \E j \in open[g] : open' = [open EXCEPT ![g] = @ \ {j}]

Notify(g) ==
    /\ Step(g, "waiting", "notified")
    /\ open[g] = {} /\ UNCHANGED open

(* The notify block gives up, or what it started is over, or the app was   *)
(* killed meanwhile.                                                       *)
Reset(g) ==
    /\ \/ Step(g, "notified", "idle")
       \/ Step(g, "waiting", "idle")
    /\ open' = [open EXCEPT ![g] = {}]

Next == \E g \in Group : Start(g) \/ Leave(g) \/ Notify(g) \/ Reset(g)

Spec == Init /\ [][Next]_<<stage, open>>
=============================================================================
