------------------------------- MODULE JobBoard -------------------------------
(***************************************************************************)
(* What the job system of app/jobs.py promises to the person who pressed a *)
(* button, with no table, lock or session in it: a job is posted once,     *)
(* lies open until one worker takes it, is in the hands of at most that    *)
(* worker, and once settled is never taken up again.  A worker may give a  *)
(* job back (its camera is away); a restart takes every job out of the     *)
(* workers' hands, and each is then open again or settled.                 *)
(***************************************************************************)
CONSTANTS Worker, Job, Nobody

VARIABLES
  state,   \* "absent", "open", "working" or "settled"
  holder   \* the worker that has the job in hand

Init ==
  /\ state  = [j \in Job |-> "absent"]
  /\ holder = [j \in Job |-> Nobody]

Becomes(j, s, h) ==
  /\ state'  = [state EXCEPT ![j] = s]
  /\ holder' = [holder EXCEPT ![j] = h]

Post(j) == state[j] = "absent" /\ Becomes(j, "open", Nobody)

Take(w, j) ==
  /\ state[j] = "open"
  /\ \A i \in Job : holder[i] # w
  /\ Becomes(j, "working", w)

Settle(w, j)   == holder[j] = w /\ Becomes(j, "settled", Nobody)
GiveBack(w, j) == holder[j] = w /\ Becomes(j, "open", Nobody)

\* Open jobs that a stop or a cancellation settles, all in one step.
Withdraw(S) ==
  /\ \A j \in S : state[j] = "open"
  /\ state' = [j \in Job |-> IF j \in S THEN "settled" ELSE state[j]]
  /\ UNCHANGED holder

Restart ==
  /\ holder' = [j \in Job |-> Nobody]
  /\ \E S \in SUBSET {j \in Job : state[j] = "working"} :
       state' = [j \in Job |-> CASE state[j] # "working" -> state[j]
                                 [] j \in S             -> "settled"
                                 [] OTHER               -> "open"]

Next ==
  \/ \E j \in Job : Post(j)
  \/ \E w \in Worker, j \in Job : Take(w, j) \/ Settle(w, j) \/ GiveBack(w, j)
  \/ \E S \in SUBSET Job : Withdraw(S)
  \/ Restart

Spec == Init /\ [][Next]_<<state, holder>>
=============================================================================
