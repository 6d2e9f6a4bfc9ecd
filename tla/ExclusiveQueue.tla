------------------------------ MODULE ExclusiveQueue ------------------------------
(***************************************************************************)
(* What the job tables promise their users, whatever is evaluated: of one  *)
(* key there is at most one job under way, one worker at most holds it, a  *)
(* worker holds one job at most, and a job whose worker died is never      *)
(* given to another one.                                                   *)
(*                                                                         *)
(* The queues of the evaluations implement this specification with the     *)
(* columns of their partial unique indexes as the key.                     *)
(***************************************************************************)
CONSTANTS
    Keys,       \* what there is at most one active job of
    Workers

VARIABLE phase  \* [Keys -> where the job of the key is]

Free == [at |-> "free"]
Pending == [at |-> "pending"]
HeldBy(w) == [at |-> "held", by |-> w]
Abandoned == [at |-> "abandoned"]       \* no step leaves it

Init == phase = [k \in Keys |-> Free]

Becomes(k, p) == phase' = [phase EXCEPT ![k] = p]

Submit(k) == phase[k] = Free /\ Becomes(k, Pending)

\* Only a worker that holds nothing takes a job.
Claim(k, w) ==
    /\ phase[k] = Pending
    /\ \A l \in Keys : phase[l] # HeldBy(w)
    /\ Becomes(k, HeldBy(w))

\* The attempt ends the job, fails and leaves it for another attempt, or dies.
GiveBack(k, w) == phase[k] = HeldBy(w) /\ Becomes(k, Pending)
End(k, w) == phase[k] = HeldBy(w) /\ Becomes(k, Free)
Abandon(k, w) == phase[k] = HeldBy(w) /\ Becomes(k, Abandoned)

Next ==
    \E k \in Keys :
        \/ Submit(k)
        \/ \E w \in Workers : Claim(k, w) \/ GiveBack(k, w) \/ End(k, w) \/ Abandon(k, w)

Spec == Init /\ [][Next]_phase
===================================================================================
