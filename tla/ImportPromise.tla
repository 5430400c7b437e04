--------------------------- MODULE ImportPromise ---------------------------
(***************************************************************************)
(* What the imports of a chat's history promise (the docstrings of         *)
(* naruto/importer/service.py and of MessageRepository._incoming): one at  *)
(* a time is at work or paused, and finished once; its messages appear all *)
(* at once, in place of those of the same dates, or not at all.            *)
(*                                                                         *)
(* The code keeps it with two exceptions, which are spelled out here.  An  *)
(* upgrade of the group may meet an import while it stores: of that one    *)
(* import some messages appear, beside the earlier ones.  And a pause may  *)
(* reopen an import that had only its verdict to get: its messages vanish  *)
(* until it has stored them again, or for good.                            *)
(***************************************************************************)
CONSTANTS Imports, Days

VARIABLES phase,  \* where each import stands
          shown,  \* the dates of which each shows its messages
          beside,   \* the import, if any, over which the group was upgraded
          reopened  \* imports a pause has reopened

vars == <<phase, shown, beside, reopened>>

Unfinished == {i \in Imports : phase[i] \in {"running", "paused"}}

Init ==
    /\ phase = [i \in Imports |-> "preview"]
    /\ shown = [i \in Imports |-> {}]
    /\ beside = {}
    /\ reopened = {}

Begin(i) ==
    /\ phase[i] = "preview"
    /\ Unfinished = {}
    /\ phase' = [phase EXCEPT ![i] = "running"]
    /\ UNCHANGED <<shown, beside, reopened>>

\* It pauses, by itself or for the owner, and goes on.
Rest(i) ==
    /\ phase[i] = "running"
    /\ phase' = [phase EXCEPT ![i] = "paused"]
    /\ reopened' \in {reopened, reopened \cup {i}}
    /\ UNCHANGED <<shown, beside>>

GoOn(i) ==
    /\ phase[i] = "paused"
    /\ phase' = [phase EXCEPT ![i] = "running"]
    /\ UNCHANGED <<shown, beside, reopened>>

\* The messages of the dates D take the place of what was there.
Appear(i) ==
    /\ phase[i] = "running"
    /\ shown[i] = {}
    /\ \E D \in (SUBSET Days) \ {{}} :
           shown' = [j \in Imports |-> IF j = i THEN D ELSE shown[j] \ D]
    /\ UNCHANGED <<phase, beside, reopened>>

\* Once: the messages of some dates appear, and take nobody's place.
AppearBeside(i) ==
    /\ phase[i] = "running"
    /\ shown[i] = {}
    /\ beside = {}
    /\ beside' = {i}
    /\ \E D \in SUBSET Days : shown' = [shown EXCEPT ![i] = D]
    /\ UNCHANGED <<phase, reopened>>

\* A reopened import is about to store its messages again, or to end.
Vanish(i) ==
    /\ i \in Unfinished \cap reopened
    /\ shown' = [shown EXCEPT ![i] = {}]
    /\ UNCHANGED <<phase, beside, reopened>>

\* An import that never began is dropped, one that did comes to its end; one
\* that was reopened may lose its messages.
Finish(i) ==
    /\ phase[i] # "finished"
    /\ phase' = [phase EXCEPT ![i] = "finished"]
    /\ \/ UNCHANGED shown
       \/ i \in reopened /\ shown' = [shown EXCEPT ![i] = {}]
    /\ UNCHANGED <<beside, reopened>>

\* The owner deletes the messages, while no import is unfinished.
Forget ==
    /\ Unfinished = {}
    /\ shown' = [i \in Imports |-> {}]
    /\ UNCHANGED <<phase, beside, reopened>>

Next ==
    \/ \E i \in Imports :
           \/ Begin(i) \/ Rest(i) \/ GoOn(i) \/ Finish(i)
           \/ Appear(i) \/ AppearBeside(i) \/ Vanish(i)
    \/ Forget

Spec == Init /\ [][Next]_vars
=============================================================================
