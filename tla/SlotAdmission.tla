--------------------------- MODULE SlotAdmission ---------------------------
(***************************************************************************)
(* What the model queue promises to those who send requests through it, in *)
(* the words of the docstring of naruto/model_queue.py and without its     *)
(* means: no tickets, futures or callers.  A request is away, waits in its *)
(* place, or holds a slot.  Replies come before background work, each in   *)
(* the order of their places, and a slot is never idle while a request may *)
(* have it.                                                                *)
(***************************************************************************)
EXTENDS Integers, FiniteSets

CONSTANTS Requests, Foreground

VARIABLES phase,      \* "away", "waiting" or "holding"
          place,      \* a request's place in the order; 0 when it has none
          total,      \* requests that may hold a slot at once
          background  \* background requests that may hold one at once

vars == <<phase, place, total, background>>

Waiting == {r \in Requests : phase[r] = "waiting"}
Holding == {r \in Requests : phase[r] = "holding"}

Replies(S) == S \cap Foreground
Work(S) == S \ Foreground

Init ==
    /\ phase = [r \in Requests |-> "away"]
    /\ place = [r \in Requests |-> 0]
    /\ total \in Nat \ {0}
    /\ background \in Nat

\* A request that holds a slot keeps it until it goes away.
Lives ==
    /\ phase' \in [Requests -> {"away", "waiting", "holding"}]
    /\ \A r \in Holding : phase'[r] # "waiting"

\* A request takes a place behind all others and has it until it is over,
\* even while it is away between two attempts.
Places ==
    /\ place' \in [Requests -> Nat]
    /\ \A r \in Requests : place[r] # 0 => place'[r] \in {place[r], 0}
    /\ \A r \in Requests : phase'[r] # "away" =>
           /\ place'[r] # 0
           /\ place[r] = 0 => \A u \in Requests \ {r} : place'[u] < place'[r]

\* What gets a slot in a step, and what may be left waiting after it.
Admission ==
    LET started == Holding' \ Holding
        allTaken == Cardinality(Holding') >= total'
        shareTaken == Cardinality(Work(Holding')) >= background'
    IN  /\ started # {} => Cardinality(Holding') <= total'
        /\ Work(started) # {} =>
               /\ Cardinality(Work(Holding')) <= background'
               /\ Replies(Waiting') = {}
        /\ \A s \in started, w \in Waiting' :
               (s \in Foreground <=> w \in Foreground) => place'[s] < place'[w]
        /\ Replies(Waiting') # {} => allTaken
        /\ Work(Waiting') # {} => allTaken \/ shareTaken

Next ==
    /\ total' \in Nat \ {0}
    /\ background' \in Nat
    /\ Lives
    /\ Places
    /\ Admission

Spec == Init /\ [][Next]_vars
=============================================================================
