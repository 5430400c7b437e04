-------------------------- MODULE ImportJobProofs --------------------------
(***************************************************************************)
(* Proofs about ImportJob, for any imports, dates and periods and however  *)
(* often the process dies: imports are as they are kept, no date shows two *)
(* of them unless the group was upgraded under the thread of one, and the  *)
(* chat sees what ImportPromise says.                                      *)
(*                                                                         *)
(* Then about ImportPlanning, for any export, calendar, history and        *)
(* choices: the periods of a plan are its dates, and the job makes and     *)
(* replaces what the plan said.                                            *)
(***************************************************************************)
EXTENDS ImportJob, ImportPlanning, FiniteSetTheorems, WellFoundedInduction, TLAPS

\* Where a task goes on.
Live == {"new", "locking", "storing", "stored", "rolled back", "summarizing"} \cup LoadThread

Unfinished(i) == status[i] \in {"running", "paused"}

\* Nothing of a task outlives the process.
NoTaskOutlives ==
    process \in {"down", "starting"} =>
        /\ \A i \in Imports : job[i] = "none"
        /\ pausing = {} /\ cancelling = {} /\ interrupted = {}

\* The task of an import that runs goes on, and ends without a pause or an end
\* of the import only when the process stops.
TaskOk(i) ==
    /\ job[i] \in Live => status[i] = "running"
    /\ job[i] = "gave up" => status[i] # "running"
    /\ process = "up" /\ status[i] = "running" => job[i] \in Live
    /\ job[i] \in {"rolled back", "load stopped"} /\ process = "up" =>
           i \in pausing \cup cancelling
    /\ i \in interrupted =>
           job[i] \in Interruptible /\ (process = "up" => i \in pausing \cup cancelling)

\* A raw stage that is said to run has its thread, unless the process died.
StageOk(i) ==
    /\ raw[i] = "running" => status[i] = "running" /\ (job[i] = "storing" \/ process = "down")
    /\ job[i] = "storing" => raw[i] = "running"
    /\ job[i] = "rolled back" => raw[i] \in UNFINISHED_STAGES
    /\ stored[i] # {} => raw[i] \in {"running", "done"} \/ i \in reopened
    /\ stored[i] \subseteq days[i] \X Ids
    /\ status[i] = "preview" => raw[i] = "skipped" /\ i \notin reopened

FileOk(i) ==
    /\ status[i] \in {"preview", "running", "paused"} => file[i] # "deleted"
    /\ status[i] \in Finished /\ process # "down" => file[i] = "deleted"

OneAtATime == \A i, j \in Imports : Unfinished(i) /\ Unfinished(j) => i = j

ImportInv ==
    /\ TypeOK /\ NoTaskOutlives /\ OneAtATime
    /\ \A i \in Imports : TaskOk(i) /\ StageOk(i) /\ FileOk(i)

-----------------------------------------------------------------------------
(* What a step does to the messages and to where the imports stand *)

\* The messages i shows stay: its rows and whether it hides them, or there is
\* nothing to see before and after.
MessagesStay(i) ==
    \/ stored'[i] = stored[i] /\ (raw'[i] = "running" <=> raw[i] = "running")
    \/ stored'[i] = {} /\ (raw[i] = "running" \/ stored[i] = {})

\* The messages of a reopened import are hidden or go.
MessagesGo(i) ==
    /\ i \in reopened /\ Unfinished(i)
    /\ status'[i] = status[i] \/ status'[i] \in Finished
    /\ stored'[i] = {} \/ (stored'[i] = stored[i] /\ raw'[i] = "running")

\* A thread that stores has read the chat's ID when it began.
ThreadStays(i) ==
    job'[i] = "storing" =>
        (job[i] = "storing" /\ under'[i] = under[i]) \/ under'[i] = chat

\* An import moves on, and is reopened by nothing but a pause.
Moves(i) ==
    /\ \/ status'[i] = status[i]
       \/ status'[i] \in Finished
       \/ status[i] = "running" /\ status'[i] = "paused"
       \/ status[i] = "paused" /\ status'[i] = "running"
       \/ status[i] = "preview" /\ status'[i] = "running" /\ ~Busy
    /\ i \in reopened => i \in reopened'
    /\ i \in reopened' /\ i \notin reopened =>
           status[i] = "running" /\ status'[i] = "paused"

Changes(i) == status'[i] # status[i] \/ ~MessagesStay(i)

Gentle ==
    /\ chat' = chat /\ beside' = beside
    /\ \A i \in Imports : (MessagesStay(i) \/ MessagesGo(i)) /\ ThreadStays(i) /\ Moves(i)
    /\ \A i, j \in Imports : Changes(i) /\ Changes(j) => i = j

-----------------------------------------------------------------------------
(* Steps of one import *)

\* The process goes on, and so do the other imports.
OthersStay(i) ==
    \A j \in Imports \ {i} :
        /\ status'[j] = status[j] /\ raw'[j] = raw[j] /\ stored'[j] = stored[j]
        /\ days'[j] = days[j] /\ file'[j] = file[j]
        /\ job'[j] = job[j] /\ under'[j] = under[j]
        /\ j \in interrupted' <=> j \in interrupted
        /\ j \in reopened' <=> j \in reopened
        /\ j \in pausing' \cup cancelling' <=> j \in pausing \cup cancelling

LEMMA LocalStep ==
    ASSUME ImportInv, TypeOK', NEW i \in Imports, OthersStay(i),
           process' = process, process \in {"up", "stopping"},
           TaskOk(i)', StageOk(i)', FileOk(i)',
           Unfinished(i)' => Unfinished(i) \/ ~Busy
    PROVE  ImportInv'
<1>1. ASSUME NEW j \in Imports, j # i
      PROVE  TaskOk(j)' /\ StageOk(j)' /\ FileOk(j)'
  <2>1. TaskOk(j)'
    BY <1>1 DEF ImportInv, OthersStay, TaskOk
  <2>2. StageOk(j)' /\ FileOk(j)'
    BY <1>1 DEF ImportInv, OthersStay, StageOk, FileOk
  <2> QED BY <2>1, <2>2
<1>2. OneAtATime'
  BY DEF ImportInv, OthersStay, OneAtATime, Unfinished, Busy
<1>3. NoTaskOutlives'
  BY DEF NoTaskOutlives
<1> QED BY <1>1, <1>2, <1>3 DEF ImportInv

\* The process dies, with the rows of import i written.
LEMMA DyingStep ==
    ASSUME ImportInv, TypeOK', NEW i \in Imports, Dies,
           \A j \in Imports \ {i} :
               /\ status'[j] = status[j] /\ raw'[j] = raw[j] /\ stored'[j] = stored[j]
               /\ days'[j] = days[j] /\ file'[j] = file[j]
               /\ j \in reopened' <=> j \in reopened,
           StageOk(i)', FileOk(i)', Unfinished(i)' => Unfinished(i)
    PROVE  ImportInv'
<1>1. /\ process' = "down" /\ \A j \in Imports : job'[j] = "none"
      /\ pausing' = {} /\ cancelling' = {} /\ interrupted' = {}
  BY DEF Dies
<1>2. ASSUME NEW j \in Imports
      PROVE  TaskOk(j)' /\ StageOk(j)' /\ FileOk(j)'
  <2>1. TaskOk(j)'
    BY <1>1 DEF TaskOk, Live, LoadThread
  <2>2. CASE j = i
    BY <2>1, <2>2
  <2>3. CASE j # i
    <3>1. StageOk(j)'
      BY <1>1, <2>3 DEF ImportInv, StageOk
    <3>2. FileOk(j)'
      BY <1>1, <2>3 DEF ImportInv, FileOk
    <3> QED BY <2>1, <3>1, <3>2
  <2> QED BY <2>2, <2>3
<1>3. OneAtATime'
  BY DEF ImportInv, OneAtATime, Unfinished
<1>4. NoTaskOutlives'
  BY <1>1 DEF NoTaskOutlives
<1> QED BY <1>2, <1>3, <1>4 DEF ImportInv

LEMMA DeadTypes ==
    ASSUME TypeOK, Dies
    PROVE  /\ process' \in {"down", "starting", "up", "stopping"}
           /\ job' \in [Imports -> Holding \cup {"none", "new", "locking", "ended"}]
           /\ under' \in [Imports -> Ids]
           /\ pausing' \subseteq Imports /\ cancelling' \subseteq Imports
           /\ interrupted' \subseteq Imports
           /\ locked' \in BOOLEAN
           /\ crashes' \in 0 .. MaxCrashes
<1>1. locked' \in BOOLEAN
  BY Zenon DEF Dies
<1>2. crashes' \in 0 .. MaxCrashes
  BY BoundsAssumption DEF Dies, TypeOK
<1>3. /\ process' \in {"down", "starting", "up", "stopping"}
      /\ job' \in [Imports -> Holding \cup {"none", "new", "locking", "ended"}]
      /\ under' \in [Imports -> Ids]
      /\ pausing' \subseteq Imports /\ cancelling' \subseteq Imports
      /\ interrupted' \subseteq Imports
  BY DEF Dies, Ids
<1> QED BY <1>1, <1>2, <1>3

\* What a step may do to import i, as far as the chat is concerned.
GentleTo(i) == (MessagesStay(i) \/ MessagesGo(i)) /\ ThreadStays(i) /\ Moves(i)

LEMMA LocalGentle ==
    ASSUME ImportInv, TypeOK', NEW i \in Imports, OthersStay(i),
           process' = process, process \in {"up", "stopping"}, UNCHANGED <<chat, beside>>,
           TaskOk(i)', StageOk(i)', FileOk(i)', GentleTo(i)
    PROVE  ImportInv' /\ Gentle
<1>1. Unfinished(i)' => Unfinished(i) \/ ~Busy
  BY DEF GentleTo, Moves, Unfinished, Finished
<1>2. ImportInv'
  BY <1>1, LocalStep
<1>3. ASSUME NEW j \in Imports, j # i
      PROVE  GentleTo(j) /\ ~Changes(j)
  BY <1>3 DEF OthersStay, GentleTo, MessagesStay, ThreadStays, Moves, Changes
<1>4. Gentle
  BY <1>3 DEF Gentle, GentleTo
<1> QED BY <1>2, <1>4

\* Nothing of it shows when the process dies, but the rows written of import i.
LEMMA DyingGentle ==
    ASSUME ImportInv, TypeOK', NEW i \in Imports, Dies, UNCHANGED <<chat, beside>>,
           \A j \in Imports \ {i} :
               /\ status'[j] = status[j] /\ raw'[j] = raw[j] /\ stored'[j] = stored[j]
               /\ days'[j] = days[j] /\ file'[j] = file[j]
               /\ j \in reopened' <=> j \in reopened,
           StageOk(i)', FileOk(i)', Unfinished(i)' => Unfinished(i),
           MessagesStay(i) \/ MessagesGo(i), Moves(i)
    PROVE  ImportInv' /\ Gentle
<1>1. ImportInv'
  BY DyingStep
<1>2. \A j \in Imports : job'[j] = "none"
  BY DEF Dies
<1>3. ASSUME NEW j \in Imports
      PROVE  /\ GentleTo(j)
             /\ j # i => ~Changes(j)
  <2>1. ThreadStays(j)
    BY <1>2 DEF ThreadStays
  <2>2. CASE j = i
    BY <2>1, <2>2 DEF GentleTo
  <2>3. CASE j # i
    BY <2>1, <2>3 DEF GentleTo, MessagesStay, Moves, Changes
  <2> QED BY <2>2, <2>3
<1>4. Gentle
  BY <1>3 DEF Gentle, GentleTo
<1> QED BY <1>1, <1>4

LEMMA DeathKeeps ==
    ASSUME ImportInv, Dies, UNCHANGED records
    PROVE  ImportInv' /\ Gentle
<1>1. TypeOK'
  BY DeadTypes DEF ImportInv, TypeOK, records, stages, data
<1>2. /\ process' = "down" /\ \A j \in Imports : job'[j] = "none"
      /\ pausing' = {} /\ cancelling' = {} /\ interrupted' = {}
  BY DEF Dies
<1>3. ASSUME NEW j \in Imports
      PROVE  TaskOk(j)' /\ StageOk(j)' /\ FileOk(j)'
  <2>1. TaskOk(j)'
    BY <1>2 DEF TaskOk, Live, LoadThread
  <2>2. StageOk(j)' /\ FileOk(j)'
    BY <1>2 DEF ImportInv, StageOk, FileOk, records, stages, data
  <2> QED BY <2>1, <2>2
<1>4. OneAtATime' /\ NoTaskOutlives'
  BY <1>2 DEF ImportInv, OneAtATime, Unfinished, NoTaskOutlives, records
<1>5. Gentle
  BY <1>2 DEF Gentle, MessagesStay, ThreadStays, Moves, Changes, records, stages, data
<1> QED BY <1>1, <1>3, <1>4, <1>5 DEF ImportInv

LEMMA MarkedType ==
    ASSUME TypeOK, NEW i \in Imports, NEW S, NEW s \in PeriodStatuses
    PROVE  Marked(i, S, s) \in [Imports -> [1 .. PeriodCount -> PeriodStatuses]]
BY DEF Marked, TypeOK

LEMMA VerdictType ==
    ASSUME NEW S
    PROVE  Verdict(S) \in Finished \ {"replaced", "discarded"}
BY DEF Verdict, Finished

-----------------------------------------------------------------------------
(* What the actions are made of *)

\* Where a task goes on and nothing of the machine changes.
LEMMA EndTypes ==
    ASSUME TypeOK, NEW i \in Imports, JobEnds(i)
    PROVE  /\ process' = process /\ locked' \in BOOLEAN /\ crashes' \in 0 .. MaxCrashes
           /\ job' \in [Imports -> Holding \cup {"none", "new", "locking", "ended"}]
           /\ under' \in [Imports -> Ids] /\ interrupted' \subseteq Imports
           /\ job'[i] = "ended" /\ i \notin interrupted'
           /\ \A j \in Imports \ {i} :
                  /\ job'[j] = job[j] /\ under'[j] = under[j]
                  /\ j \in interrupted' <=> j \in interrupted
<1>1. locked' = locked /\ locked \in BOOLEAN
  BY Zenon DEF JobEnds, machine, TypeOK
<1>2. locked' \in BOOLEAN
  BY <1>1, Zenon
<1>3. /\ process' = process /\ crashes' \in 0 .. MaxCrashes
      /\ job' \in [Imports -> Holding \cup {"none", "new", "locking", "ended"}]
      /\ under' \in [Imports -> Ids] /\ interrupted' \subseteq Imports
      /\ job'[i] = "ended" /\ i \notin interrupted'
  BY DEF JobEnds, machine, TypeOK
<1>4. \A j \in Imports \ {i} :
          /\ job'[j] = job[j] /\ under'[j] = under[j]
          /\ j \in interrupted' <=> j \in interrupted
  BY DEF JobEnds, TypeOK
<1> QED BY <1>2, <1>3, <1>4

LEMMA GoTypes ==
    ASSUME TypeOK, NEW i \in Imports,
           NEW position \in Holding \cup {"none", "new", "locking", "ended"},
           JobGoesTo(i, position)
    PROVE  /\ process' = process /\ locked' \in BOOLEAN /\ crashes' \in 0 .. MaxCrashes
           /\ job' \in [Imports -> Holding \cup {"none", "new", "locking", "ended"}]
           /\ under' \in [Imports -> Ids] /\ interrupted' \subseteq Imports
           /\ job'[i] = position /\ under' = under /\ interrupted' = interrupted
           /\ \A j \in Imports \ {i} : job'[j] = job[j]
<1>1. locked' = locked /\ locked \in BOOLEAN
  BY Zenon DEF JobGoesTo, machine, TypeOK
<1>2. locked' \in BOOLEAN
  BY <1>1, Zenon
<1>3. /\ process' = process /\ crashes' \in 0 .. MaxCrashes
      /\ job' \in [Imports -> Holding \cup {"none", "new", "locking", "ended"}]
      /\ under' \in [Imports -> Ids] /\ interrupted' \subseteq Imports
      /\ job'[i] = position /\ under' = under /\ interrupted' = interrupted
      /\ \A j \in Imports \ {i} : job'[j] = job[j]
  BY DEF JobGoesTo, machine, TypeOK
<1> QED BY <1>2, <1>3

\* An import ends: with its task, or beside one that only has to end.
EndsWith(i, A, B) == A \/ (job[i] \in {"none", "gave up", "ended"} /\ B)

LEMMA CompleteKeeps ==
    ASSUME ImportInv, NEW i \in Imports, Unfinished(i), process \in {"up", "stopping"},
           EndsWith(i, Complete(i, JobEnds(i)), Complete(i, UNCHANGED <<task, machine>>)),
           raw' \in [Imports -> StageStatuses], archive' \in [Imports -> StageStatuses],
           periods' \in [Imports -> [1 .. PeriodCount -> PeriodStatuses]],
           stored' \in [Imports -> SUBSET (Days \X Ids)],
           UNCHANGED <<days, chat, beside, reopened>>,
           \A j \in Imports \ {i} : raw'[j] = raw[j] /\ stored'[j] = stored[j],
           raw'[i] # "running", stored'[i] # {} => raw'[i] = "done" \/ i \in reopened,
           stored'[i] \in {stored[i], {}},
           MessagesStay(i) \/ (i \in reopened /\ stored'[i] = {})
    PROVE  ImportInv' /\ Gentle
<1> DEFINE Last == Verdict({raw'[i], archive'[i]} \ {"skipped"})
<1>1. TypeOK /\ TaskOk(i) /\ StageOk(i) /\ FileOk(i)
  BY DEF ImportInv
<1>2. Last \in {"done", "partial", "failed"}
  BY DEF Verdict
<1> HIDE DEF Last
<1>3. stored'[i] \subseteq days[i] \X Ids
  BY <1>1 DEF StageOk
<1>4. ASSUME status' = [status EXCEPT ![i] = Last]
      PROVE  /\ status' \in [Imports -> Finished \cup {"preview", "running", "paused"}]
             /\ status'[i] \in {"done", "partial", "failed"}
             /\ \A j \in Imports \ {i} : status'[j] = status[j]
             /\ Moves(i) /\ ~Unfinished(i)' /\ (MessagesStay(i) \/ MessagesGo(i))
  <2>1. /\ status' \in [Imports -> Finished \cup {"preview", "running", "paused"}]
        /\ status'[i] \in {"done", "partial", "failed"}
        /\ \A j \in Imports \ {i} : status'[j] = status[j]
    BY <1>1, <1>2, <1>4 DEF TypeOK, Finished
  <2>2. Moves(i) /\ ~Unfinished(i)'
    BY <2>1 DEF Moves, Finished, Unfinished
  <2>3. MessagesStay(i) \/ MessagesGo(i)
    BY <2>1 DEF MessagesGo, Finished
  <2> QED BY <2>1, <2>2, <2>3
<1>5. ASSUME job'[i] \in {"none", "gave up", "ended"}, status'[i] # "preview"
      PROVE  StageOk(i)'
  BY <1>3, <1>5 DEF StageOk
<1>6. days' \in [Imports -> SUBSET Days] /\ chat' \in Ids
      /\ beside' \subseteq Imports /\ reopened' \subseteq Imports
  BY <1>1 DEF TypeOK
<1>7. CASE UNCHANGED <<status, file>> /\ Dies
  <2>1. TypeOK'
    BY <1>1, <1>6, <1>7, DeadTypes DEF TypeOK
  <2>2. StageOk(i)'
    BY <1>5, <1>7 DEF Dies, Unfinished
  <2>3. FileOk(i)'
    BY <1>1, <1>7 DEF FileOk, Dies, Unfinished, Finished
  <2>4. (MessagesStay(i) \/ MessagesGo(i)) /\ Moves(i)
    BY <1>7 DEF MessagesGo, Moves
  <2>5. Unfinished(i)' => Unfinished(i)
    OBVIOUS
  <2> QED BY <1>7, <2>1, <2>2, <2>3, <2>4, <2>5, DyingGentle
<1>8. CASE /\ status' = [status EXCEPT ![i] = Last]
           /\ file' = [file EXCEPT ![i] = "deleted"]
           /\ pausing' = pausing \ {i} /\ cancelling' = cancelling \ {i}
           /\ JobEnds(i) \/ (job[i] \in {"none", "gave up", "ended"} /\ UNCHANGED <<task, machine>>)
  <2>1. /\ process' = process /\ locked' \in BOOLEAN /\ crashes' \in 0 .. MaxCrashes
        /\ job' \in [Imports -> Holding \cup {"none", "new", "locking", "ended"}]
        /\ under' \in [Imports -> Ids] /\ interrupted' \subseteq Imports
        /\ job'[i] \in {"none", "gave up", "ended"} /\ i \notin interrupted'
        /\ \A j \in Imports \ {i} :
               /\ job'[j] = job[j] /\ under'[j] = under[j]
               /\ j \in interrupted' <=> j \in interrupted
    <3>1. CASE JobEnds(i)
      BY <1>1, <3>1, EndTypes
    <3>2. CASE job[i] \in {"none", "gave up", "ended"} /\ UNCHANGED <<task, machine>>
      <4>1. locked' \in BOOLEAN
        BY <1>1, <3>2, Zenon DEF machine, TypeOK
      <4>2. i \notin interrupted
        BY <1>1, <3>2 DEF TaskOk, Interruptible
      <4> QED BY <1>1, <3>2, <4>1, <4>2 DEF TypeOK, task, machine
    <3> QED BY <1>8, <3>1, <3>2
  <2>2. /\ file' \in [Imports -> {"kept", "lost", "deleted"}] /\ file'[i] = "deleted"
        /\ pausing' \subseteq Imports /\ cancelling' \subseteq Imports
        /\ \A j \in Imports \ {i} : file'[j] = file[j]
    BY <1>1, <1>8 DEF TypeOK
  <2>3. TypeOK'
    BY <1>4, <1>6, <1>8, <2>1, <2>2, <1>1 DEF TypeOK
  <2>4. OthersStay(i)
    BY <1>4, <1>8, <2>1, <2>2 DEF OthersStay
  <2>5. TaskOk(i)'
    BY <1>4, <1>8, <2>1 DEF TaskOk, Live, LoadThread, Finished
  <2>6. FileOk(i)'
    BY <1>4, <1>8, <2>2 DEF FileOk
  <2>7. ThreadStays(i) /\ StageOk(i)'
    BY <1>4, <1>5, <1>8, <2>1 DEF ThreadStays
  <2> QED BY <1>4, <1>8, <2>1, <2>3, <2>4, <2>5, <2>6, <2>7, LocalGentle DEF GentleTo
<1>9. CASE status' = [status EXCEPT ![i] = Last] /\ UNCHANGED file /\ Dies
  <2>1. TypeOK'
    BY <1>1, <1>4, <1>6, <1>9, DeadTypes DEF TypeOK
  <2>2. StageOk(i)'
    BY <1>4, <1>5, <1>9 DEF Dies
  <2>3. FileOk(i)'
    BY <1>4, <1>9 DEF FileOk, Dies
  <2> QED BY <1>4, <1>9, <2>1, <2>2, <2>3, DyingGentle
<1> QED BY <1>7, <1>8, <1>9 DEF EndsWith, Complete, Last

LEMMA AbandonKeeps ==
    ASSUME ImportInv, NEW i \in Imports, NEW s \in {"cancelled", "expired"},
           Unfinished(i), process \in {"up", "stopping"}, raw[i] # "running",
           EndsWith(i, Abandon(i, s, JobEnds(i)), Abandon(i, s, UNCHANGED <<task, machine>>))
    PROVE  ImportInv' /\ Gentle
<1>1. TypeOK /\ TaskOk(i) /\ StageOk(i) /\ FileOk(i)
  BY DEF ImportInv
<1>2. /\ raw' = [raw EXCEPT ![i] = IF raw[i] \in UNFINISHED_STAGES THEN s ELSE raw[i]]
      /\ archive' = [archive EXCEPT ![i] =
                         IF archive[i] \in UNFINISHED_STAGES THEN s ELSE archive[i]]
      /\ UNCHANGED <<days, chat, beside, reopened>>
  BY DEF EndsWith, Abandon
<1>3. /\ raw' \in [Imports -> StageStatuses] /\ archive' \in [Imports -> StageStatuses]
      /\ \A j \in Imports \ {i} : raw'[j] = raw[j]
      /\ raw'[i] \notin UNFINISHED_STAGES
      /\ raw[i] \notin UNFINISHED_STAGES => raw'[i] = raw[i]
  BY <1>1, <1>2 DEF TypeOK, StageStatuses, UNFINISHED_STAGES
<1>4. stored[i] # {} => (raw[i] = "done" /\ raw'[i] = "done") \/ i \in reopened
  BY <1>1, <1>3 DEF StageOk, UNFINISHED_STAGES
<1>5. CASE UNCHANGED <<status, file, stored, periods>> /\ Dies
  <2>1. TypeOK'
    BY <1>1, <1>2, <1>3, <1>5, DeadTypes DEF TypeOK
  <2>2. StageOk(i)'
    <3>1. status[i] # "preview"
      BY DEF Unfinished
    <3>2. raw'[i] # "running" /\ job'[i] = "none" /\ stored'[i] = stored[i] /\ days' = days
      BY <1>2, <1>3, <1>5 DEF UNFINISHED_STAGES, Dies
    <3>3. stored'[i] \subseteq days'[i] \X Ids
      BY <1>1, <3>2 DEF StageOk
    <3> QED BY <1>2, <1>4, <1>5, <3>1, <3>2, <3>3 DEF StageOk
  <2>3. FileOk(i)'
    BY <1>1, <1>5 DEF FileOk, Dies, Finished, Unfinished
  <2>4. MessagesStay(i) /\ Moves(i)
    BY <1>2, <1>3, <1>5 DEF MessagesStay, Moves, UNFINISHED_STAGES
  <2> QED BY <1>2, <1>3, <1>5, <2>1, <2>2, <2>3, <2>4, DyingGentle
<1>6. CASE /\ periods' = Marked(i, {"waiting", "running", "failed"}, "cancelled")
           /\ stored' = [stored EXCEPT ![i] = IF raw[i] \in UNFINISHED_STAGES THEN {} ELSE @]
           /\ EndsWith(i, Complete(i, JobEnds(i)), Complete(i, UNCHANGED <<task, machine>>))
  <2>1. periods' \in [Imports -> [1 .. PeriodCount -> PeriodStatuses]]
    BY <1>1, <1>6, MarkedType DEF PeriodStatuses
  <2>2. /\ stored' \in [Imports -> SUBSET (Days \X Ids)]
        /\ \A j \in Imports \ {i} : stored'[j] = stored[j]
        /\ stored'[i] \in {stored[i], {}}
    BY <1>1, <1>6 DEF TypeOK
  <2>3. MessagesStay(i) \/ (i \in reopened /\ stored'[i] = {})
    <3>1. CASE raw[i] \in UNFINISHED_STAGES
      BY <1>1, <1>4, <1>6, <3>1 DEF MessagesStay, TypeOK, UNFINISHED_STAGES
    <3>2. CASE raw[i] \notin UNFINISHED_STAGES
      BY <1>1, <1>3, <1>6, <3>2 DEF MessagesStay, TypeOK, UNFINISHED_STAGES
    <3> QED BY <3>1, <3>2
  <2>4. stored'[i] # {} => raw'[i] = "done" \/ i \in reopened
    BY <1>4, <2>2
  <2>5. raw'[i] # "running"
    BY <1>3 DEF UNFINISHED_STAGES
  <2> QED BY <1>2, <1>3, <1>6, <2>1, <2>2, <2>3, <2>4, <2>5, CompleteKeeps
<1> QED BY <1>5, <1>6 DEF EndsWith, Abandon

\* The job pauses its import and ends.
LEMMA PauseKeeps ==
    ASSUME ImportInv, NEW i \in Imports, NEW stage \in {"raw", "archive"},
           NEW ps \in [1 .. PeriodCount -> PeriodStatuses],
           PauseStage(i, stage, ps), UNCHANGED data, JobEnds(i),
           status[i] = "running", process \in {"up", "stopping"}, raw[i] # "running"
    PROVE  ImportInv' /\ Gentle
<1>1. TypeOK /\ TaskOk(i) /\ StageOk(i) /\ FileOk(i)
  BY DEF ImportInv
<1>2. /\ raw' \in [Imports -> StageStatuses] /\ archive' \in [Imports -> StageStatuses]
      /\ \A j \in Imports \ {i} : raw'[j] = raw[j]
      /\ raw'[i] = IF stage = "raw" THEN "paused" ELSE raw[i]
      /\ reopened' \subseteq Imports
      /\ \A j \in Imports : j \in reopened => j \in reopened'
      /\ \A j \in Imports \ {i} : j \in reopened' => j \in reopened
      /\ stage = "raw" /\ raw[i] \notin UNFINISHED_STAGES => i \in reopened'
  <2>1. CASE stage = "raw"
    BY <1>1, <2>1 DEF PauseStage, Stays, TypeOK, StageStatuses
  <2>2. CASE stage = "archive"
    BY <1>1, <2>2 DEF PauseStage, Stays, TypeOK, StageStatuses
  <2> QED BY <2>1, <2>2
<1>3. /\ status' \in [Imports -> Finished \cup {"preview", "running", "paused"}]
      /\ status'[i] = "paused" /\ \A j \in Imports \ {i} : status'[j] = status[j]
  BY <1>1 DEF PauseStage, TypeOK
<1>4. periods' \in [Imports -> [1 .. PeriodCount -> PeriodStatuses]]
  BY <1>1 DEF PauseStage, TypeOK, PeriodStatuses
<1>5. /\ pausing' = pausing \ {i} /\ cancelling' = cancelling /\ file' = file
      /\ days' = days /\ stored' = stored /\ UNCHANGED <<chat, beside>>
  BY DEF PauseStage, data
<1>6. TypeOK'
  BY <1>1, <1>2, <1>3, <1>4, <1>5, EndTypes DEF TypeOK
<1>7. OthersStay(i) /\ process' = process
  BY <1>1, <1>2, <1>3, <1>5, EndTypes DEF OthersStay
<1>8. TaskOk(i)'
  BY <1>1, <1>3, EndTypes DEF TaskOk, Live, LoadThread
<1>9. StageOk(i)' /\ MessagesStay(i)
  <2>1. job'[i] = "ended"
    BY <1>1, EndTypes
  <2> QED BY <1>1, <1>2, <1>3, <1>5, <2>1 DEF StageOk, MessagesStay, UNFINISHED_STAGES
<1>10. FileOk(i)'
  BY <1>1, <1>3, <1>5 DEF FileOk, Finished
<1>11. ThreadStays(i) /\ Moves(i)
  BY <1>1, <1>2, <1>3, EndTypes DEF ThreadStays, Moves
<1> QED BY <1>5, <1>6, <1>7, <1>8, <1>9, <1>10, <1>11, LocalGentle DEF GentleTo

\* _after_stop(): what was asked for happens, or the process stops.
LEMMA AfterStopKeeps ==
    ASSUME ImportInv, NEW i \in Imports, NEW stage \in {"raw", "archive"},
           AfterStop(i, stage), status[i] = "running", process \in {"up", "stopping"},
           raw[i] # "running",
           process = "up" => i \in pausing \cup cancelling
    PROVE  ImportInv' /\ Gentle
<1>1. TypeOK /\ TaskOk(i) /\ StageOk(i) /\ FileOk(i)
  BY DEF ImportInv
<1>2. CASE Abandon(i, "cancelled", JobEnds(i))
  <2>1. EndsWith(i, Abandon(i, "cancelled", JobEnds(i)),
                 Abandon(i, "cancelled", UNCHANGED <<task, machine>>))
    BY <1>2, Zenon DEF EndsWith
  <2> QED BY <2>1, AbandonKeeps DEF Unfinished
<1>3. CASE PauseStage(i, stage, periods[i]) /\ UNCHANGED data /\ JobEnds(i)
  <2>1. periods[i] \in [1 .. PeriodCount -> PeriodStatuses]
    BY <1>1 DEF TypeOK
  <2> QED BY <1>3, <2>1, PauseKeeps
<1>4. CASE /\ i \notin cancelling \cup pausing
           /\ UNCHANGED <<records, flags>> /\ JobEnds(i)
  <2>1. TypeOK'
    BY <1>1, <1>4, EndTypes DEF TypeOK, records, stages, data, flags
  <2>2. OthersStay(i) /\ process' = process /\ UNCHANGED <<chat, beside>>
    BY <1>1, <1>4, EndTypes DEF OthersStay, records, stages, data, flags
  <2>3. TaskOk(i)'
    <3>1. process' = "stopping"
      BY <1>4, <2>2
    <3> QED BY <1>1, <3>1, EndTypes, <1>4 DEF TaskOk, Live, LoadThread
  <2>4. StageOk(i)' /\ FileOk(i)'
    <3>1. job'[i] = "ended"
      BY <1>1, <1>4, EndTypes
    <3> QED BY <1>1, <1>4, <2>2, <3>1 DEF StageOk, FileOk, records, stages, data
  <2>5. GentleTo(i)
    <3>1. job'[i] = "ended"
      BY <1>1, <1>4, EndTypes
    <3> QED BY <1>4, <3>1 DEF GentleTo, MessagesStay, ThreadStays, Moves, records, stages, data
  <2> QED BY <2>1, <2>2, <2>3, <2>4, <2>5, LocalGentle
<1> QED BY <1>2, <1>3, <1>4 DEF AfterStop

\* The task goes to another place, and nothing is written but to the archive
\* stage and its periods.
LEMMA GoesOnKeeps ==
    ASSUME ImportInv, NEW i \in Imports, process \in {"up", "stopping"},
           NEW position \in {"new", "locking", "loading", "summarizing"} \cup LoadThread,
           JobGoesTo(i, position), status[i] = "running", raw[i] # "running",
           i \notin interrupted, UNCHANGED <<status, raw, reopened, file, data, flags>>,
           archive' \in [Imports -> StageStatuses],
           periods' \in [Imports -> [1 .. PeriodCount -> PeriodStatuses]],
           position = "load stopped" /\ process = "up" => i \in pausing \cup cancelling
    PROVE  ImportInv' /\ Gentle
<1>1. TypeOK /\ TaskOk(i) /\ StageOk(i) /\ FileOk(i)
  BY DEF ImportInv
<1>2. position \in Holding \cup {"none", "new", "locking", "ended"}
  BY DEF Holding, LoadThread
<1>3. /\ job'[i] = position /\ interrupted' = interrupted /\ process' = process
      /\ position # "storing" /\ position # "rolled back" /\ position # "gave up"
      /\ position \in Live
  BY <1>1, <1>2, GoTypes DEF LoadThread, Live
<1>4. TypeOK'
  BY <1>1, <1>2, GoTypes DEF TypeOK, data, flags
<1>5. OthersStay(i)
  BY <1>1, <1>2, GoTypes DEF OthersStay, data, flags
<1>6. TaskOk(i)'
  BY <1>3 DEF TaskOk, flags
<1>7. StageOk(i)' /\ FileOk(i)'
  BY <1>1, <1>3 DEF StageOk, FileOk, data
<1>8. GentleTo(i) /\ UNCHANGED <<chat, beside>>
  BY <1>3 DEF GentleTo, MessagesStay, ThreadStays, Moves, data
<1> QED BY <1>3, <1>4, <1>5, <1>6, <1>7, <1>8, LocalGentle

LEMMA WorkKeeps ==
    ASSUME ImportInv, NEW i \in Imports, process \in {"up", "stopping"},
           NEW ps \in [1 .. PeriodCount -> PeriodStatuses], Work(i, ps),
           status[i] = "running", raw[i] # "running", i \notin interrupted
    PROVE  ImportInv' /\ Gentle
<1>1. TypeOK /\ TaskOk(i) /\ StageOk(i) /\ FileOk(i)
  BY DEF ImportInv
<1>2. ASSUME NEW p \in ToDo(ps),
             periods' = [periods EXCEPT ![i] = [ps EXCEPT ![p] = "running"]],
             UNCHANGED <<status, stages, file, data, flags>>, JobGoesTo(i, "summarizing")
      PROVE  ImportInv' /\ Gentle
  <2>1. periods' \in [Imports -> [1 .. PeriodCount -> PeriodStatuses]]
    BY <1>1, <1>2 DEF TypeOK, PeriodStatuses
  <2>2. archive' \in [Imports -> StageStatuses] /\ raw' = raw /\ reopened' = reopened
    BY <1>1, <1>2 DEF TypeOK, stages
  <2> QED BY <1>2, <2>1, <2>2, GoesOnKeeps
<1>3. ASSUME periods' = [periods EXCEPT ![i] = ps],
             archive' = [archive EXCEPT ![i] = "done"],
             UNCHANGED <<raw, reopened, data>>, Complete(i, JobEnds(i))
      PROVE  ImportInv' /\ Gentle
  <2>1. /\ periods' \in [Imports -> [1 .. PeriodCount -> PeriodStatuses]]
        /\ archive' \in [Imports -> StageStatuses] /\ raw' \in [Imports -> StageStatuses]
        /\ stored' \in [Imports -> SUBSET (Days \X Ids)]
    BY <1>1, <1>3 DEF TypeOK, StageStatuses, data
  <2>2. EndsWith(i, Complete(i, JobEnds(i)), Complete(i, UNCHANGED <<task, machine>>))
    BY <1>3, Zenon DEF EndsWith
  <2>3. /\ raw'[i] # "running" /\ stored'[i] # {} => raw'[i] = "done" \/ i \in reopened
        /\ stored'[i] = stored[i] /\ MessagesStay(i)
    BY <1>1, <1>3 DEF StageOk, MessagesStay, data
  <2> QED BY <1>3, <2>1, <2>2, <2>3, CompleteKeeps DEF Unfinished, data
<1>4. ASSUME NEW p \in 1 .. PeriodCount, PauseStage(i, "archive", [ps EXCEPT ![p] = "waiting"]),
             UNCHANGED data, JobEnds(i)
      PROVE  ImportInv' /\ Gentle
  <2>1. [ps EXCEPT ![p] = "waiting"] \in [1 .. PeriodCount -> PeriodStatuses]
    BY DEF PeriodStatuses
  <2> QED BY <1>4, <2>1, PauseKeeps
<1> QED BY <1>2, <1>3, <1>4 DEF Work

LEMMA RunArchiveKeeps ==
    ASSUME ImportInv, NEW i \in Imports, process \in {"up", "stopping"}, RunArchive(i),
           status[i] = "running", raw[i] # "running", i \notin interrupted
    PROVE  ImportInv' /\ Gentle
<1>1. TypeOK /\ TaskOk(i) /\ StageOk(i) /\ FileOk(i)
  BY DEF ImportInv
<1>2. CASE /\ archive' = [archive EXCEPT ![i] = "running"]
           /\ UNCHANGED <<status, raw, reopened, file, data, periods, flags>>
           /\ JobGoesTo(i, "loading")
  <2>1. /\ archive' \in [Imports -> StageStatuses]
        /\ periods' \in [Imports -> [1 .. PeriodCount -> PeriodStatuses]]
    BY <1>1, <1>2 DEF TypeOK, StageStatuses
  <2> QED BY <1>2, <2>1, GoesOnKeeps DEF LoadThread
<1>3. CASE UNCHANGED <<stages, data, periods>> /\ Complete(i, JobEnds(i))
  <2>1. /\ periods' \in [Imports -> [1 .. PeriodCount -> PeriodStatuses]]
        /\ archive' \in [Imports -> StageStatuses] /\ raw' \in [Imports -> StageStatuses]
        /\ stored' \in [Imports -> SUBSET (Days \X Ids)]
    BY <1>1, <1>3 DEF TypeOK, stages, data
  <2>2. EndsWith(i, Complete(i, JobEnds(i)), Complete(i, UNCHANGED <<task, machine>>))
    BY <1>3, Zenon DEF EndsWith
  <2>3. /\ raw'[i] # "running" /\ stored'[i] # {} => raw'[i] = "done" \/ i \in reopened
        /\ stored'[i] = stored[i] /\ MessagesStay(i)
    BY <1>1, <1>3 DEF StageOk, MessagesStay, stages, data
  <2> QED BY <1>3, <2>1, <2>2, <2>3, CompleteKeeps DEF Unfinished, stages, data
<1> QED BY <1>2, <1>3 DEF RunArchive

-----------------------------------------------------------------------------
(* The owner's actions *)

LEMMA StartKeeps ==
    ASSUME ImportInv, NEW i \in Imports, Start(i)
    PROVE  ImportInv' /\ Gentle
<1>1. TypeOK /\ TaskOk(i) /\ StageOk(i) /\ FileOk(i)
  BY DEF ImportInv
<1>2. PICK chosen \in (SUBSET {"raw", "archive"}) \ {{}}, D \in (SUBSET Days) \ {{}},
           n \in 1 .. PeriodCount :
        /\ raw' = [raw EXCEPT ![i] = IF "raw" \in chosen THEN "waiting" ELSE "skipped"]
        /\ archive' = [archive EXCEPT ![i] =
               IF "archive" \in chosen THEN "waiting" ELSE "skipped"]
        /\ days' = [days EXCEPT ![i] = IF "raw" \in chosen THEN D ELSE {}]
        /\ periods' = [periods EXCEPT ![i] = [p \in 1 .. PeriodCount |->
               IF "archive" \in chosen /\ p <= n THEN "waiting" ELSE "none"]]
  BY DEF Start
<1>3. /\ process = "up" /\ status[i] = "preview" /\ ~Busy
      /\ status' = [status EXCEPT ![i] = "running"]
      /\ UNCHANGED <<file, stored, chat, beside, reopened, flags>> /\ JobGoesTo(i, "new")
  BY DEF Start
<1>4. /\ raw' \in [Imports -> StageStatuses] /\ archive' \in [Imports -> StageStatuses]
      /\ days' \in [Imports -> SUBSET Days]
      /\ periods' \in [Imports -> [1 .. PeriodCount -> PeriodStatuses]]
      /\ status' \in [Imports -> Finished \cup {"preview", "running", "paused"}]
  <2>1. raw' \in [Imports -> StageStatuses] /\ archive' \in [Imports -> StageStatuses]
    BY <1>1, <1>2 DEF TypeOK, StageStatuses
  <2>2. days' \in [Imports -> SUBSET Days]
    BY <1>1, <1>2 DEF TypeOK
  <2>3. periods' \in [Imports -> [1 .. PeriodCount -> PeriodStatuses]]
    BY <1>1, <1>2 DEF TypeOK, PeriodStatuses
  <2>4. status' \in [Imports -> Finished \cup {"preview", "running", "paused"}]
    BY <1>1, <1>3 DEF TypeOK
  <2> QED BY <2>1, <2>2, <2>3, <2>4
<1>5. /\ job'[i] = "new" /\ interrupted' = interrupted /\ process' = process
      /\ status'[i] = "running" /\ raw'[i] \in {"waiting", "skipped"}
      /\ raw'[i] = "waiting" => days'[i] # {}
  BY <1>1, <1>2, <1>3, GoTypes DEF TypeOK
<1>6. stored[i] = {} /\ i \notin interrupted
  BY <1>1, <1>3 DEF StageOk, TaskOk, Interruptible, Live
<1>7. TypeOK'
  BY <1>1, <1>3, <1>4, GoTypes DEF TypeOK, flags
<1>8. OthersStay(i)
  <2>1. \A j \in Imports \ {i} : job'[j] = job[j] /\ under'[j] = under[j]
    BY <1>1, <1>3, GoTypes
  <2> QED BY <1>1, <1>2, <1>3, <1>5, <2>1 DEF OthersStay, TypeOK, flags
<1>9. TaskOk(i)'
  BY <1>5, <1>6 DEF TaskOk, Live
<1>10. StageOk(i)' /\ FileOk(i)'
  BY <1>1, <1>3, <1>5, <1>6 DEF StageOk, FileOk, UNFINISHED_STAGES, Finished
<1>11. GentleTo(i) /\ UNCHANGED <<chat, beside>>
  BY <1>3, <1>5, <1>6 DEF GentleTo, MessagesStay, ThreadStays, Moves
<1> QED BY <1>3, <1>5, <1>7, <1>8, <1>9, <1>10, <1>11, LocalGentle

LEMMA DiscardKeeps ==
    ASSUME ImportInv, NEW i \in Imports, Discard(i)
    PROVE  ImportInv' /\ Gentle
<1>1. TypeOK /\ TaskOk(i) /\ StageOk(i) /\ FileOk(i)
  BY DEF ImportInv
<1>2. locked' \in BOOLEAN
  BY <1>1, Zenon DEF Discard, machine, TypeOK
<1>3. TypeOK'
  BY <1>1, <1>2 DEF Discard, TypeOK, Finished, stages, data, flags, task, machine
<1>4. OthersStay(i)
  BY <1>1 DEF Discard, TypeOK, OthersStay, stages, data, flags, task
<1>5. status'[i] = "discarded" /\ file'[i] = "deleted"
  BY <1>1 DEF Discard, TypeOK
<1>6. TaskOk(i)' /\ StageOk(i)' /\ FileOk(i)'
  BY <1>1, <1>5 DEF Discard, TaskOk, StageOk, FileOk, Finished, Live, LoadThread,
                    stages, data, flags, task, machine
<1>7. GentleTo(i)
  BY <1>1, <1>5 DEF Discard, GentleTo, MessagesStay, ThreadStays, Moves, Finished, stages, data, task
<1> QED BY <1>3, <1>4, <1>6, <1>7, LocalGentle DEF Discard, data, machine

LEMMA PauseRequestKeeps ==
    ASSUME ImportInv, NEW i \in Imports, Pause(i)
    PROVE  ImportInv' /\ Gentle
<1>1. TypeOK /\ TaskOk(i) /\ StageOk(i) /\ FileOk(i)
  BY DEF ImportInv
<1>2. locked' \in BOOLEAN
  BY <1>1, Zenon DEF Pause, machine, TypeOK
<1>3. interrupted' \subseteq Imports /\ pausing' \subseteq Imports
  BY <1>1 DEF Pause, Interrupt, TypeOK
<1>4. TypeOK'
  BY <1>1, <1>2, <1>3 DEF Pause, TypeOK, records, stages, data, machine
<1>5. OthersStay(i)
  BY <1>1 DEF Pause, Interrupt, OthersStay, records, stages, data
<1>6. TaskOk(i)' /\ StageOk(i)' /\ FileOk(i)'
  BY <1>1 DEF Pause, Interrupt, TaskOk, StageOk, FileOk, records, stages, data, machine
<1>7. GentleTo(i)
  BY DEF Pause, GentleTo, MessagesStay, ThreadStays, Moves, records, stages, data
<1> QED BY <1>4, <1>5, <1>6, <1>7, LocalGentle DEF Pause, records, data, machine

LEMMA CancelKeeps ==
    ASSUME ImportInv, NEW i \in Imports, Cancel(i)
    PROVE  ImportInv' /\ Gentle
<1>1. TypeOK /\ TaskOk(i) /\ StageOk(i) /\ FileOk(i) /\ process = "up" /\ Unfinished(i)
  BY DEF ImportInv, Cancel, Unfinished
<1>2. CASE /\ cancelling' = cancelling \cup {i} /\ Interrupt(i)
           /\ UNCHANGED <<records, pausing, job, under, machine>>
  <2>1. locked' \in BOOLEAN
    BY <1>1, <1>2, Zenon DEF machine, TypeOK
  <2>2. interrupted' \subseteq Imports /\ cancelling' \subseteq Imports
    BY <1>1, <1>2 DEF Interrupt, TypeOK
  <2>3. TypeOK'
    BY <1>1, <1>2, <2>1, <2>2 DEF TypeOK, records, stages, data, machine
  <2>4. OthersStay(i)
    BY <1>1, <1>2 DEF Interrupt, OthersStay, records, stages, data
  <2>5. TaskOk(i)' /\ StageOk(i)' /\ FileOk(i)'
    BY <1>1, <1>2 DEF Interrupt, TaskOk, StageOk, FileOk, records, stages, data, machine
  <2>6. GentleTo(i)
    BY <1>2 DEF GentleTo, MessagesStay, ThreadStays, Moves, records, stages, data
  <2> QED BY <1>1, <1>2, <2>3, <2>4, <2>5, <2>6, LocalGentle DEF records, data, machine
<1>3. CASE job[i] = "none" /\ Abandon(i, "cancelled", UNCHANGED <<task, machine>>)
  <2>1. EndsWith(i, Abandon(i, "cancelled", JobEnds(i)),
                 Abandon(i, "cancelled", UNCHANGED <<task, machine>>))
    BY <1>3 DEF EndsWith
  <2>2. raw[i] # "running"
    BY <1>1, <1>3 DEF StageOk
  <2> QED BY <1>1, <2>1, <2>2, AbandonKeeps
<1> QED BY <1>2, <1>3 DEF Cancel

LEMMA ResumeKeeps ==
    ASSUME ImportInv, NEW i \in Imports, Resume(i)
    PROVE  ImportInv' /\ Gentle
<1>1. TypeOK /\ TaskOk(i) /\ StageOk(i) /\ FileOk(i)
  BY DEF ImportInv
<1>2. /\ process = "up" /\ status[i] = "paused" /\ job[i] = "none"
      /\ status' = [status EXCEPT ![i] = "running"]
      /\ UNCHANGED <<file, data, reopened, flags>> /\ JobGoesTo(i, "new")
  BY DEF Resume
<1>3. /\ raw' \in [Imports -> StageStatuses] /\ archive' \in [Imports -> StageStatuses]
      /\ \A j \in Imports \ {i} : raw'[j] = raw[j]
      /\ raw'[i] = IF raw[i] = "paused" THEN "waiting" ELSE raw[i]
  BY <1>1 DEF Resume, TypeOK, StageStatuses
<1>4. periods' \in [Imports -> [1 .. PeriodCount -> PeriodStatuses]]
  BY <1>1, MarkedType DEF Resume, PeriodStatuses
<1>5. /\ status' \in [Imports -> Finished \cup {"preview", "running", "paused"}]
      /\ status'[i] = "running" /\ \A j \in Imports \ {i} : status'[j] = status[j]
  BY <1>1, <1>2 DEF TypeOK
<1>6. i \notin interrupted /\ raw[i] # "running"
  BY <1>1, <1>2 DEF TaskOk, StageOk, Interruptible
<1>7. job'[i] = "new" /\ interrupted' = interrupted /\ process' = process
  BY <1>1, <1>2, GoTypes
<1>8. TypeOK'
  BY <1>1, <1>2, <1>3, <1>4, <1>5, GoTypes DEF TypeOK, data, flags
<1>9. OthersStay(i)
  BY <1>1, <1>2, <1>3, <1>5, GoTypes DEF OthersStay, data, flags
<1>10. TaskOk(i)' /\ FileOk(i)'
  BY <1>1, <1>2, <1>5, <1>6, <1>7 DEF TaskOk, FileOk, Live, Finished
<1>11. StageOk(i)'
  BY <1>1, <1>2, <1>3, <1>5, <1>6, <1>7 DEF StageOk, UNFINISHED_STAGES, data
<1>12. GentleTo(i) /\ UNCHANGED <<chat, beside>>
  BY <1>2, <1>3, <1>5, <1>6, <1>7 DEF GentleTo, MessagesStay, ThreadStays, Moves, data
<1> QED BY <1>2, <1>7, <1>8, <1>9, <1>10, <1>11, <1>12, LocalGentle

\* A paused import has no task that writes for it, unless its thread gave up.
LEMMA ExpireKeeps ==
    ASSUME ImportInv, NEW i \in Imports, Expire(i)
    PROVE  ImportInv' /\ Gentle
<1>1. status[i] = "paused" /\ process \in {"up", "stopping"}
      /\ Abandon(i, "expired", UNCHANGED <<task, machine>>)
  BY DEF Expire
<1>2. job[i] \in {"none", "gave up", "ended"} /\ raw[i] # "running"
  BY <1>1 DEF ImportInv, TypeOK, TaskOk, StageOk, Live, Holding, StoreThread, LoadThread
<1>3. EndsWith(i, Abandon(i, "expired", JobEnds(i)),
               Abandon(i, "expired", UNCHANGED <<task, machine>>))
  BY <1>1, <1>2 DEF EndsWith
<1> QED BY <1>1, <1>2, <1>3, AbandonKeeps DEF Unfinished

-----------------------------------------------------------------------------
(* The job's steps *)

LEMMA WaitForLockKeeps ==
    ASSUME ImportInv, NEW i \in Imports, WaitForLock(i)
    PROVE  ImportInv' /\ Gentle
<1>1. TypeOK /\ TaskOk(i) /\ StageOk(i) /\ FileOk(i)
  BY DEF ImportInv
<1>2. /\ status[i] = "running" /\ process \in {"up", "stopping"} /\ raw[i] # "running"
      /\ i \notin interrupted
  BY <1>1 DEF WaitForLock, ImportInv, NoTaskOutlives, TaskOk, StageOk, Live, Interruptible, TypeOK
<1>3. JobGoesTo(i, "locking") /\ UNCHANGED <<records, flags>>
  BY DEF WaitForLock
<1>4. /\ archive' \in [Imports -> StageStatuses]
      /\ periods' \in [Imports -> [1 .. PeriodCount -> PeriodStatuses]]
  BY <1>1, <1>3 DEF TypeOK, records, stages
<1> QED BY <1>2, <1>3, <1>4, GoesOnKeeps DEF records, stages

LEMMA TakeLockKeeps ==
    ASSUME ImportInv, NEW i \in Imports, TakeLock(i)
    PROVE  ImportInv' /\ Gentle
<1>1. TypeOK /\ TaskOk(i) /\ StageOk(i) /\ FileOk(i)
  BY DEF ImportInv
<1>2. /\ status[i] = "running" /\ process \in {"up", "stopping"} /\ raw[i] # "running"
      /\ i \notin interrupted
  BY <1>1 DEF TakeLock, ImportInv, NoTaskOutlives, TaskOk, StageOk, Live, TypeOK
<1>3. CASE RunArchive(i)
  BY <1>2, <1>3, RunArchiveKeeps
<1>4. CASE /\ raw[i] \in {"waiting", "running"}
           /\ raw' = [raw EXCEPT ![i] = "running"]
           /\ job' = [job EXCEPT ![i] = "storing"]
           /\ under' = [under EXCEPT ![i] = chat]
           /\ UNCHANGED <<status, archive, reopened, file, data, periods, flags,
                          interrupted, machine>>
  <2>1. stored[i] = {} \/ i \in reopened
    BY <1>1, <1>2, <1>4 DEF StageOk, UNFINISHED_STAGES
  <2>2. /\ raw'[i] = "running" /\ job'[i] = "storing" /\ under'[i] = chat
        /\ raw' \in [Imports -> StageStatuses] /\ under' \in [Imports -> Ids]
        /\ job' \in [Imports -> Holding \cup {"none", "new", "locking", "ended"}]
    BY <1>1, <1>4 DEF TypeOK, StageStatuses, Holding, StoreThread
  <2>3. locked' \in BOOLEAN
    BY <1>1, <1>4, Zenon DEF TypeOK, machine
  <2>4. TypeOK'
    BY <1>1, <1>4, <2>2, <2>3 DEF TypeOK, data, flags, machine
  <2>5. OthersStay(i)
    BY <1>1, <1>4 DEF OthersStay, TypeOK, data, flags
  <2>6. TaskOk(i)'
    BY <1>2, <1>4, <2>2 DEF TaskOk, Live, flags, machine
  <2>7. StageOk(i)' /\ FileOk(i)'
    BY <1>1, <1>2, <1>4, <2>1, <2>2 DEF StageOk, FileOk, data, machine
  <2>8. GentleTo(i)
    BY <1>2, <1>4, <2>1, <2>2 DEF GentleTo, MessagesStay, MessagesGo, Unfinished, ThreadStays,
                                  Moves, data
  <2> QED BY <1>2, <1>4, <2>4, <2>5, <2>6, <2>7, <2>8, LocalGentle DEF data, machine
<1> QED BY <1>3, <1>4 DEF TakeLock, RunStages

LEMMA BeInterruptedKeeps ==
    ASSUME ImportInv, NEW i \in Imports, BeInterrupted(i)
    PROVE  ImportInv' /\ Gentle
<1>1. TypeOK /\ TaskOk(i) /\ StageOk(i) /\ i \in interrupted
  BY DEF ImportInv, BeInterrupted
<1>2. /\ status[i] = "running" /\ process \in {"up", "stopping"} /\ raw[i] # "running"
      /\ process = "up" => i \in pausing \cup cancelling
  BY <1>1 DEF ImportInv, NoTaskOutlives, TaskOk, StageOk, Live, Interruptible, TypeOK
<1>3. CurrentStage(i) \in {"raw", "archive"} /\ AfterStop(i, CurrentStage(i))
  BY DEF BeInterrupted, CurrentStage
<1> QED BY <1>2, <1>3, AfterStopKeeps

LEMMA ReapKeeps ==
    ASSUME ImportInv, NEW i \in Imports, Reap(i)
    PROVE  ImportInv' /\ Gentle
<1>1. TypeOK /\ TaskOk(i) /\ StageOk(i) /\ FileOk(i) /\ job[i] = "ended"
  BY DEF ImportInv, Reap
<1>2. JobGoesTo(i, "none") /\ UNCHANGED <<records, flags>> /\ process \in {"up", "stopping"}
  BY <1>1 DEF Reap, ImportInv, NoTaskOutlives, TypeOK
<1>3. job'[i] = "none" /\ interrupted' = interrupted /\ process' = process
  BY <1>1, <1>2, GoTypes
<1>4. TypeOK'
  BY <1>1, <1>2, GoTypes DEF TypeOK, records, stages, data, flags
<1>5. OthersStay(i)
  BY <1>1, <1>2, GoTypes DEF OthersStay, records, stages, data, flags
<1>6. TaskOk(i)'
  BY <1>1, <1>2, <1>3 DEF TaskOk, Live, LoadThread, Interruptible, records
<1>7. StageOk(i)' /\ FileOk(i)'
  BY <1>1, <1>2, <1>3 DEF StageOk, FileOk, records, stages, data
<1>8. GentleTo(i) /\ UNCHANGED <<chat, beside>>
  BY <1>2, <1>3 DEF GentleTo, MessagesStay, ThreadStays, Moves, records, stages, data
<1> QED BY <1>2, <1>3, <1>4, <1>5, <1>6, <1>7, <1>8, LocalGentle

\* What the thread has stored goes.
LEMMA RolledBack ==
    ASSUME ImportInv, NEW i \in Imports, job[i] = "storing",
           stored' = [stored EXCEPT ![i] = {}]
    PROVE  /\ status[i] = "running" /\ process \in {"up", "stopping"} /\ raw[i] = "running"
           /\ i \notin interrupted
           /\ stored' \in [Imports -> SUBSET (Days \X Ids)]
           /\ stored'[i] = {} /\ \A j \in Imports \ {i} : stored'[j] = stored[j]
<1>1. TypeOK /\ TaskOk(i) /\ StageOk(i)
  BY DEF ImportInv
<1>2. /\ status[i] = "running" /\ process \in {"up", "stopping"} /\ raw[i] = "running"
      /\ i \notin interrupted
  BY <1>1 DEF ImportInv, NoTaskOutlives, TaskOk, StageOk, Live, Interruptible, TypeOK
<1>3. /\ stored' \in [Imports -> SUBSET (Days \X Ids)]
      /\ stored'[i] = {} /\ \A j \in Imports \ {i} : stored'[j] = stored[j]
  BY <1>1 DEF TypeOK
<1> QED BY <1>2, <1>3

LEMMA StoreStoppedKeeps ==
    ASSUME ImportInv, NEW i \in Imports, StoreStopped(i)
    PROVE  ImportInv' /\ Gentle
<1>1. TypeOK /\ TaskOk(i) /\ StageOk(i) /\ FileOk(i)
  BY DEF ImportInv
<1>2. /\ job[i] = "storing" /\ ShouldStop(i) /\ stored' = [stored EXCEPT ![i] = {}]
      /\ raw' = [raw EXCEPT ![i] = "waiting"]
      /\ UNCHANGED <<status, archive, reopened, file, days, chat, beside, periods, flags>>
      /\ JobGoesTo(i, "rolled back")
  BY DEF StoreStopped
<1>3. /\ job'[i] = "rolled back" /\ interrupted' = interrupted /\ process' = process
      /\ raw' \in [Imports -> StageStatuses] /\ raw'[i] = "waiting"
  BY <1>1, <1>2, GoTypes DEF TypeOK, StageStatuses, Holding, StoreThread
<1>4. TypeOK'
  BY <1>1, <1>2, <1>3, GoTypes, RolledBack DEF TypeOK, flags, Holding, StoreThread
<1>5. OthersStay(i)
  <2>1. \A j \in Imports \ {i} : job'[j] = job[j] /\ under'[j] = under[j]
    BY <1>1, <1>2, GoTypes DEF Holding, StoreThread
  <2>2. \A j \in Imports \ {i} : stored'[j] = stored[j]
    BY <1>2, RolledBack
  <2> QED BY <1>1, <1>2, <1>3, <2>1, <2>2 DEF OthersStay, TypeOK, flags
<1>6. TaskOk(i)'
  BY <1>1, <1>2, <1>3, RolledBack DEF TaskOk, Live, ShouldStop, flags
<1>7. StageOk(i)' /\ FileOk(i)'
  BY <1>1, <1>2, <1>3, RolledBack DEF StageOk, FileOk, UNFINISHED_STAGES
<1>8. GentleTo(i)
  BY <1>2, <1>3, RolledBack DEF GentleTo, MessagesStay, ThreadStays, Moves
<1> QED BY <1>2, <1>3, <1>4, <1>5, <1>6, <1>7, <1>8, RolledBack, LocalGentle

LEMMA StoreFailsKeeps ==
    ASSUME ImportInv, NEW i \in Imports, StoreFails(i)
    PROVE  ImportInv' /\ Gentle
<1>1. TypeOK /\ TaskOk(i) /\ StageOk(i) /\ FileOk(i)
  BY DEF ImportInv
<1>2. /\ job[i] = "storing" /\ stored' = [stored EXCEPT ![i] = {}]
      /\ raw' = [raw EXCEPT ![i] = "paused"] /\ archive' = archive
      /\ status' = [status EXCEPT ![i] = "paused"]
      /\ pausing' = pausing \ {i} /\ UNCHANGED <<file, cancelling, days, chat, beside>>
      /\ JobGoesTo(i, "gave up")
      /\ reopened' = reopened
  <2>1. raw[i] \in UNFINISHED_STAGES
    BY <1>1 DEF StoreFails, StageOk, UNFINISHED_STAGES
  <2> QED BY <2>1 DEF StoreFails, PauseStage, Stays
<1>3. /\ job'[i] = "gave up" /\ interrupted' = interrupted /\ process' = process
      /\ raw' \in [Imports -> StageStatuses] /\ raw'[i] = "paused"
      /\ status' \in [Imports -> Finished \cup {"preview", "running", "paused"}]
      /\ status'[i] = "paused" /\ \A j \in Imports \ {i} : status'[j] = status[j]
  BY <1>1, <1>2, GoTypes DEF TypeOK, StageStatuses, Holding, StoreThread
<1>4. periods' \in [Imports -> [1 .. PeriodCount -> PeriodStatuses]]
  <2>1. PICK row : row = [p \in 1 .. PeriodCount |->
                            IF periods[i][p] = "running" THEN "waiting" ELSE periods[i][p]]
    OBVIOUS
  <2>2. periods' = [periods EXCEPT ![i] = row]
    BY <2>1 DEF StoreFails, PauseStage
  <2>3. periods \in [Imports -> [1 .. PeriodCount -> PeriodStatuses]]
    BY <1>1 DEF TypeOK
  <2>4. periods[i] \in [1 .. PeriodCount -> PeriodStatuses] /\ "waiting" \in PeriodStatuses
    BY <2>3 DEF PeriodStatuses
  <2>5. row \in [1 .. PeriodCount -> PeriodStatuses]
    BY <2>1, <2>4
  <2> QED BY <2>2, <2>3, <2>5
<1>5. TypeOK'
  BY <1>1, <1>2, <1>3, <1>4, GoTypes, RolledBack DEF TypeOK, Holding, StoreThread
<1>6. OthersStay(i)
  <2>1. \A j \in Imports \ {i} : job'[j] = job[j] /\ under'[j] = under[j]
    BY <1>1, <1>2, GoTypes DEF Holding, StoreThread
  <2>2. \A j \in Imports \ {i} : stored'[j] = stored[j]
    BY <1>2, RolledBack
  <2> QED BY <1>1, <1>2, <1>3, <2>1, <2>2 DEF OthersStay, TypeOK
<1>7. TaskOk(i)'
  BY <1>1, <1>2, <1>3, RolledBack DEF TaskOk, Live, LoadThread
<1>8. StageOk(i)' /\ FileOk(i)'
  BY <1>1, <1>2, <1>3, RolledBack DEF StageOk, FileOk, UNFINISHED_STAGES, Finished
<1>9. GentleTo(i)
  BY <1>2, <1>3, RolledBack DEF GentleTo, MessagesStay, ThreadStays, Moves
<1> QED BY <1>2, <1>3, <1>5, <1>6, <1>7, <1>8, <1>9, RolledBack, LocalGentle

LEMMA ResumeFromStoreKeeps ==
    ASSUME ImportInv, NEW i \in Imports, ResumeFromStore(i)
    PROVE  ImportInv' /\ Gentle
<1>1. TypeOK /\ TaskOk(i) /\ StageOk(i) /\ FileOk(i)
  BY DEF ImportInv
<1>2. job[i] \in {"stored", "rolled back", "gave up"}
  BY DEF ResumeFromStore
<1>3. process \in {"up", "stopping"} /\ raw[i] # "running" /\ i \notin interrupted
  BY <1>1, <1>2 DEF ImportInv, NoTaskOutlives, TaskOk, StageOk, Interruptible, TypeOK
<1>4. CASE job[i] = "stored" /\ RunArchive(i)
  <2>1. status[i] = "running"
    BY <1>1, <1>4 DEF TaskOk, Live
  <2> QED BY <1>3, <1>4, <2>1, RunArchiveKeeps
<1>5. CASE job[i] = "rolled back" /\ AfterStop(i, "raw")
  <2>1. /\ status[i] = "running" /\ raw[i] \in UNFINISHED_STAGES
        /\ process = "up" => i \in pausing \cup cancelling
    BY <1>1, <1>5 DEF TaskOk, StageOk, Live
  <2> QED BY <1>3, <1>5, <2>1, AfterStopKeeps
<1>6. CASE job[i] = "gave up" /\ UNCHANGED <<records, flags>> /\ JobEnds(i)
  <2>1. TypeOK'
    BY <1>1, <1>6, EndTypes DEF TypeOK, records, stages, data, flags
  <2>2. /\ OthersStay(i) /\ process' = process /\ UNCHANGED <<chat, beside>>
        /\ job'[i] = "ended" /\ i \notin interrupted'
    BY <1>1, <1>6, EndTypes DEF OthersStay, records, stages, data, flags
  <2>3. TaskOk(i)'
    BY <1>1, <1>6, <2>2 DEF TaskOk, Live, LoadThread, records
  <2>4. StageOk(i)' /\ FileOk(i)'
    BY <1>1, <1>6, <2>2 DEF StageOk, FileOk, records, stages, data
  <2>5. GentleTo(i)
    BY <1>6, <2>2 DEF GentleTo, MessagesStay, ThreadStays, Moves, records, stages, data
  <2> QED BY <1>3, <2>1, <2>2, <2>3, <2>4, <2>5, LocalGentle
<1> QED BY <1>4, <1>5, <1>6 DEF ResumeFromStore

\* Where a job is in its archive stage, its import runs.
LEMMA ArchiveStageRuns ==
    ASSUME ImportInv, NEW i \in Imports, job[i] \in LoadThread \cup {"summarizing"}
    PROVE  /\ status[i] = "running" /\ process \in {"up", "stopping"} /\ raw[i] # "running"
           /\ job[i] # "summarizing" => i \notin interrupted
           /\ job[i] = "load stopped" /\ process = "up" => i \in pausing \cup cancelling
           /\ periods[i] \in [1 .. PeriodCount -> PeriodStatuses]
<1>1. TypeOK /\ TaskOk(i) /\ StageOk(i)
  BY DEF ImportInv
<1>2. process \in {"up", "stopping"}
  BY <1>1 DEF ImportInv, NoTaskOutlives, TypeOK, LoadThread
<1>3. periods[i] \in [1 .. PeriodCount -> PeriodStatuses]
  BY <1>1 DEF TypeOK
<1> QED BY <1>1, <1>2, <1>3 DEF TaskOk, StageOk, Live, LoadThread, Interruptible

LEMMA LoadEndsKeeps ==
    ASSUME ImportInv, NEW i \in Imports, LoadEnds(i)
    PROVE  ImportInv' /\ Gentle
<1>1. PICK position \in {"loaded", "load stopped", "load failed"} :
          JobGoesTo(i, position) /\ (position = "load stopped" => ShouldStop(i))
  BY DEF LoadEnds
<1>2. /\ status[i] = "running" /\ process \in {"up", "stopping"} /\ raw[i] # "running"
      /\ i \notin interrupted
  BY ArchiveStageRuns DEF LoadEnds, LoadThread
<1>3. UNCHANGED <<records, flags>>
  BY DEF LoadEnds
<1>4. /\ archive' \in [Imports -> StageStatuses]
      /\ periods' \in [Imports -> [1 .. PeriodCount -> PeriodStatuses]]
  BY <1>3 DEF ImportInv, TypeOK, records, stages
<1>5. position = "load stopped" /\ process = "up" => i \in pausing \cup cancelling
  BY <1>1 DEF ShouldStop
<1>6. position \in {"new", "locking", "loading", "summarizing"} \cup LoadThread
  BY <1>1 DEF LoadThread
<1> QED BY <1>1, <1>2, <1>3, <1>4, <1>5, <1>6, GoesOnKeeps DEF records, stages

LEMMA ResumeFromLoadKeeps ==
    ASSUME ImportInv, NEW i \in Imports, ResumeFromLoad(i)
    PROVE  ImportInv' /\ Gentle
<1>1. job[i] \in {"loaded", "load stopped", "load failed"}
  BY DEF ResumeFromLoad
<1>2. /\ status[i] = "running" /\ process \in {"up", "stopping"} /\ raw[i] # "running"
      /\ i \notin interrupted /\ periods[i] \in [1 .. PeriodCount -> PeriodStatuses]
      /\ job[i] = "load stopped" /\ process = "up" => i \in pausing \cup cancelling
  BY <1>1, ArchiveStageRuns DEF LoadThread
<1>3. CASE ShouldStop(i) /\ AfterStop(i, "archive")
  <2>1. process = "up" => i \in pausing \cup cancelling
    BY <1>3 DEF ShouldStop
  <2> QED BY <1>2, <1>3, <2>1, AfterStopKeeps
<1>4. CASE Work(i, periods[i])
  BY <1>2, <1>4, WorkKeeps
<1>5. CASE job[i] = "load stopped" /\ AfterStop(i, "archive")
  BY <1>2, <1>5, AfterStopKeeps
<1>6. CASE PauseStage(i, "archive", periods[i]) /\ UNCHANGED data /\ JobEnds(i)
  BY <1>2, <1>6, PauseKeeps
<1> QED BY <1>3, <1>4, <1>5, <1>6 DEF ResumeFromLoad

LEMMA PeriodEndsKeeps ==
    ASSUME ImportInv, NEW i \in Imports, NEW p \in 1 .. PeriodCount, PeriodEnds(i, p)
    PROVE  ImportInv' /\ Gentle
<1>1. /\ status[i] = "running" /\ process \in {"up", "stopping"} /\ raw[i] # "running"
      /\ i \notin interrupted /\ periods[i] \in [1 .. PeriodCount -> PeriodStatuses]
  BY ArchiveStageRuns DEF PeriodEnds, InWork
<1>2. CASE Work(i, [periods[i] EXCEPT ![p] = "done"])
  <2>1. [periods[i] EXCEPT ![p] = "done"] \in [1 .. PeriodCount -> PeriodStatuses]
    BY <1>1 DEF PeriodStatuses
  <2> QED BY <1>1, <1>2, <2>1, WorkKeeps
<1>3. CASE /\ process = "stopping"
           /\ periods' = [periods EXCEPT ![i][p] = "waiting"]
           /\ UNCHANGED <<status, stages, file, data, flags>>
           /\ JobEnds(i)
  <2>1. TypeOK /\ TaskOk(i) /\ StageOk(i) /\ FileOk(i)
    BY DEF ImportInv
  <2>2. periods' \in [Imports -> [1 .. PeriodCount -> PeriodStatuses]]
    BY <2>1, <1>3 DEF TypeOK, PeriodStatuses
  <2>3. TypeOK'
    BY <2>1, <2>2, <1>3, EndTypes DEF TypeOK, stages, data, flags
  <2>4. /\ OthersStay(i) /\ process' = process /\ UNCHANGED <<chat, beside>>
        /\ job'[i] = "ended" /\ i \notin interrupted'
    BY <2>1, <1>3, EndTypes DEF OthersStay, stages, data, flags
  <2>5. TaskOk(i)'
    BY <1>3, <2>4 DEF TaskOk, Live, LoadThread
  <2>6. StageOk(i)' /\ FileOk(i)'
    BY <2>1, <1>1, <1>3, <2>4 DEF StageOk, FileOk, stages, data
  <2>7. GentleTo(i)
    BY <1>3, <2>4 DEF GentleTo, MessagesStay, ThreadStays, Moves, stages, data
  <2> QED BY <1>1, <2>3, <2>4, <2>5, <2>6, <2>7, LocalGentle
<1> QED BY <1>2, <1>3 DEF PeriodEnds

LEMMA PeriodFailsKeeps ==
    ASSUME ImportInv, NEW i \in Imports, NEW p \in 1 .. PeriodCount, PeriodFails(i, p)
    PROVE  ImportInv' /\ Gentle
<1>1. /\ status[i] = "running" /\ process \in {"up", "stopping"} /\ raw[i] # "running"
      /\ i \notin interrupted /\ periods[i] \in [1 .. PeriodCount -> PeriodStatuses]
  BY ArchiveStageRuns DEF PeriodFails, InWork
<1>2. CASE PauseStage(i, "archive", [periods[i] EXCEPT ![p] = "failed"]) /\ JobEnds(i)
  <2>1. [periods[i] EXCEPT ![p] = "failed"] \in [1 .. PeriodCount -> PeriodStatuses]
    BY <1>1 DEF PeriodStatuses
  <2> QED BY <1>1, <1>2, <2>1, PauseKeeps DEF PeriodFails
<1>3. CASE /\ periods' = [periods EXCEPT ![i][p] = "failed"]
           /\ UNCHANGED <<status, stages, file>>
           /\ Dies
  <2>1. TypeOK /\ StageOk(i) /\ FileOk(i) /\ UNCHANGED data
    BY DEF ImportInv, PeriodFails
  <2>2. periods' \in [Imports -> [1 .. PeriodCount -> PeriodStatuses]]
    BY <2>1, <1>3 DEF TypeOK, PeriodStatuses
  <2>3. TypeOK'
    BY <2>1, <2>2, <1>3, DeadTypes DEF TypeOK, stages, data
  <2>4. process' = "down" /\ job'[i] = "none"
    BY <1>3 DEF Dies
  <2>5. StageOk(i)' /\ FileOk(i)'
    BY <2>1, <2>4, <1>1, <1>3 DEF StageOk, FileOk, stages, data
  <2>6. MessagesStay(i) /\ Moves(i)
    BY <2>1, <1>3 DEF MessagesStay, Moves, stages, data
  <2>7. /\ UNCHANGED <<chat, beside>>
        /\ Unfinished(i)' => Unfinished(i)
        /\ \A j \in Imports \ {i} :
               /\ status'[j] = status[j] /\ raw'[j] = raw[j] /\ stored'[j] = stored[j]
               /\ days'[j] = days[j] /\ file'[j] = file[j]
               /\ j \in reopened' <=> j \in reopened
    BY <2>1, <1>3 DEF Unfinished, stages, data
  <2> QED BY <1>3, <2>3, <2>5, <2>6, <2>7, DyingGentle
<1> QED BY <1>2, <1>3 DEF PeriodFails

LEMMA PeriodGivesUpKeeps ==
    ASSUME ImportInv, NEW i \in Imports, NEW p \in 1 .. PeriodCount, PeriodGivesUp(i, p)
    PROVE  ImportInv' /\ Gentle
<1>1. /\ status[i] = "running" /\ process \in {"up", "stopping"} /\ raw[i] # "running"
      /\ periods[i] \in [1 .. PeriodCount -> PeriodStatuses]
  BY ArchiveStageRuns DEF PeriodGivesUp, InWork
<1> QED BY <1>1, PauseKeeps DEF PeriodGivesUp

-----------------------------------------------------------------------------
(* Everybody else *)

LEMMA OthersLockKeeps ==
    ASSUME ImportInv, OthersTakeLock \/ OthersFreeLock
    PROVE  ImportInv' /\ Gentle
<1>1. UNCHANGED <<records, flags, task, process, crashes>>
  BY DEF OthersTakeLock, OthersFreeLock
<1>2. locked' \in BOOLEAN
  BY Zenon DEF OthersTakeLock, OthersFreeLock
<1>3. TypeOK'
  BY <1>1, <1>2 DEF ImportInv, TypeOK, records, stages, data, flags, task
<1>4. \A i \in Imports : TaskOk(i)' /\ StageOk(i)' /\ FileOk(i)'
  BY <1>1 DEF ImportInv, TaskOk, StageOk, FileOk, records, stages, data, flags, task
<1>5. NoTaskOutlives' /\ OneAtATime'
  BY <1>1 DEF ImportInv, NoTaskOutlives, OneAtATime, Unfinished, records, flags, task
<1>6. Gentle
  BY <1>1 DEF Gentle, MessagesStay, ThreadStays, Moves, Changes, records, stages, data, task
<1> QED BY <1>3, <1>4, <1>5, <1>6 DEF ImportInv

\* The upload of one import is lost, or its task is cancelled where it waits.
LEMMA LoseFileKeeps ==
    ASSUME ImportInv, NEW i \in Imports, LoseFile(i)
    PROVE  ImportInv' /\ Gentle
<1>1. TypeOK /\ process = "down" /\ file[i] = "kept"
      /\ file' = [file EXCEPT ![i] = "lost"]
      /\ UNCHANGED <<status, stages, data, periods, flags, task, machine>>
  BY DEF ImportInv, LoseFile
<1>2. locked' \in BOOLEAN
  BY <1>1, Zenon DEF TypeOK, machine
<1>3. TypeOK'
  BY <1>1, <1>2 DEF TypeOK, stages, data, flags, task, machine
<1>4. \A j \in Imports : TaskOk(j)' /\ StageOk(j)'
  BY <1>1 DEF ImportInv, TaskOk, StageOk, stages, data, flags, task, machine
<1>5. \A j \in Imports : FileOk(j)'
  BY <1>1 DEF ImportInv, FileOk, TypeOK, machine
<1>6. NoTaskOutlives' /\ OneAtATime'
  BY <1>1 DEF ImportInv, NoTaskOutlives, OneAtATime, Unfinished, flags, task, machine
<1>7. Gentle
  BY <1>1 DEF Gentle, MessagesStay, ThreadStays, Moves, Changes, stages, data, task
<1> QED BY <1>3, <1>4, <1>5, <1>6, <1>7 DEF ImportInv

LEMMA StopWaitingKeeps ==
    ASSUME ImportInv, NEW i \in Imports, StopWaiting(i)
    PROVE  ImportInv' /\ Gentle
<1>1. TypeOK /\ process = "stopping" /\ job[i] \in Interruptible
      /\ interrupted' = interrupted \cup {i}
      /\ UNCHANGED <<records, flags, job, under, machine>>
  BY DEF ImportInv, StopWaiting
<1>2. locked' \in BOOLEAN
  BY <1>1, Zenon DEF TypeOK, machine
<1>3. TypeOK'
  BY <1>1, <1>2 DEF TypeOK, records, stages, data, flags, machine
<1>4. \A j \in Imports : TaskOk(j)' /\ StageOk(j)' /\ FileOk(j)'
  BY <1>1 DEF ImportInv, TaskOk, StageOk, FileOk, records, stages, data, flags, machine
<1>5. NoTaskOutlives' /\ OneAtATime'
  BY <1>1 DEF ImportInv, NoTaskOutlives, OneAtATime, Unfinished, records, machine
<1>6. Gentle
  BY <1>1 DEF Gentle, MessagesStay, ThreadStays, Moves, Changes, records, stages, data
<1> QED BY <1>3, <1>4, <1>5, <1>6 DEF ImportInv

LEMMA ShutdownKeeps ==
    ASSUME ImportInv, Shutdown
    PROVE  ImportInv' /\ Gentle
<1>1. TypeOK /\ process = "up" /\ process' = "stopping"
      /\ UNCHANGED <<records, flags, task, locked, crashes>>
  BY DEF ImportInv, Shutdown
<1>2. TypeOK'
  BY <1>1 DEF TypeOK, records, stages, data, flags, task
<1>3. \A j \in Imports : TaskOk(j)' /\ StageOk(j)' /\ FileOk(j)'
  BY <1>1 DEF ImportInv, TaskOk, StageOk, FileOk, records, stages, data, flags, task
<1>4. NoTaskOutlives' /\ OneAtATime'
  BY <1>1 DEF ImportInv, NoTaskOutlives, OneAtATime, Unfinished, records
<1>5. Gentle
  BY <1>1 DEF Gentle, MessagesStay, ThreadStays, Moves, Changes, records, stages, data, task
<1> QED BY <1>2, <1>3, <1>4, <1>5 DEF ImportInv

LEMMA ResumeInterruptedKeeps ==
    ASSUME ImportInv, ResumeInterrupted
    PROVE  ImportInv' /\ Gentle
<1>1. TypeOK /\ process = "starting" /\ process' = "up"
      /\ job' = [i \in Imports |-> IF status[i] = "running" THEN "new" ELSE job[i]]
      /\ UNCHANGED <<records, flags, under, interrupted, locked, crashes>>
  BY DEF ImportInv, ResumeInterrupted
<1>2. TypeOK'
  BY <1>1 DEF TypeOK, records, stages, data, flags
<1>3. (\A j \in Imports : job[j] = "none") /\ interrupted = {}
  BY <1>1 DEF ImportInv, NoTaskOutlives
<1>4. ASSUME NEW j \in Imports
      PROVE  TaskOk(j)' /\ StageOk(j)' /\ FileOk(j)'
  <2>1. job'[j] = IF status[j] = "running" THEN "new" ELSE "none"
    BY <1>1, <1>3
  <2>2. TaskOk(j)'
    BY <1>1, <1>3, <2>1 DEF TaskOk, Live, LoadThread, records
  <2>3. StageOk(j)'
    BY <1>1, <1>3, <2>1 DEF ImportInv, StageOk, records, stages, data
  <2>4. FileOk(j)'
    BY <1>1 DEF ImportInv, FileOk, records
  <2> QED BY <2>2, <2>3, <2>4
<1>5. NoTaskOutlives' /\ OneAtATime'
  BY <1>1 DEF ImportInv, NoTaskOutlives, OneAtATime, Unfinished, records
<1>6. Gentle
  BY <1>1, <1>3 DEF Gentle, MessagesStay, ThreadStays, Moves, Changes, records, stages, data
<1> QED BY <1>2, <1>4, <1>5, <1>6 DEF ImportInv

\* recover() writes what every import was left in.
LEMMA RecoverKeeps ==
    ASSUME ImportInv, Recover
    PROVE  ImportInv' /\ Gentle
<1>1. /\ TypeOK /\ process = "down" /\ process' = "starting"
      /\ \A i \in Imports : TaskOk(i) /\ StageOk(i) /\ FileOk(i)
      /\ UNCHANGED <<days, chat, beside, reopened, flags, task, locked, crashes>>
  BY DEF ImportInv, Recover
<1>2. stored' = [i \in Imports |-> MessagesKept(i)]
      /\ file' = [i \in Imports |-> FileKept(i)]
  BY DEF Recover
<1>3. raw' = [i \in Imports |->
           IF Expired(i) THEN StageKept(raw[i])
           ELSE IF status[i] = "running" /\ raw[i] = "running" THEN "waiting" ELSE raw[i]]
      /\ archive' = [i \in Imports |->
           IF Expired(i) THEN StageKept(archive[i]) ELSE archive[i]]
  BY DEF Recover
<1>4. periods' = [i \in Imports |-> [p \in 1 .. PeriodCount |-> PeriodKept(i, periods[i][p])]]
      /\ status' = [i \in Imports |->
           IF Expired(i) THEN Verdict({raw'[i], archive'[i]} \ {"skipped"}) ELSE status[i]]
  BY DEF Recover
<1>5. ASSUME NEW i \in Imports
      PROVE  /\ stored'[i] \in SUBSET (Days \X Ids) /\ file'[i] \in {"kept", "lost", "deleted"}
             /\ raw'[i] \in StageStatuses /\ archive'[i] \in StageStatuses
             /\ status'[i] \in Finished \cup {"preview", "running", "paused"}
             /\ status'[i] = status[i] \/ (Expired(i) /\ status'[i] \in {"done", "partial", "failed"})
  <2>1. stored'[i] = MessagesKept(i) /\ MessagesKept(i) \in SUBSET (Days \X Ids)
    BY <1>1, <1>2 DEF MessagesKept, TypeOK
  <2>2. file'[i] \in {"kept", "lost", "deleted"}
    BY <1>1, <1>2 DEF FileKept, TypeOK
  <2>3. raw[i] \in StageStatuses /\ archive[i] \in StageStatuses
    BY <1>1 DEF TypeOK
  <2>4. raw'[i] \in StageStatuses /\ archive'[i] \in StageStatuses
    BY <1>3, <2>3 DEF StageKept, StageStatuses
  <2>5. status'[i] = IF Expired(i) THEN Verdict({raw'[i], archive'[i]} \ {"skipped"}) ELSE status[i]
    BY <1>4
  <2>6. status'[i] = status[i] \/ (Expired(i) /\ status'[i] \in {"done", "partial", "failed"})
    BY <2>5 DEF Verdict
  <2>7. status'[i] \in Finished \cup {"preview", "running", "paused"}
    BY <1>1, <2>6 DEF TypeOK, Finished
  <2> QED BY <2>1, <2>2, <2>4, <2>6, <2>7
<1>6. periods' \in [Imports -> [1 .. PeriodCount -> PeriodStatuses]]
  <2>1. ASSUME NEW i \in Imports, NEW p \in 1 .. PeriodCount
        PROVE  PeriodKept(i, periods[i][p]) \in PeriodStatuses
    <3>1. periods[i] \in [1 .. PeriodCount -> PeriodStatuses]
      BY <1>1 DEF TypeOK
    <3>2. periods[i][p] \in PeriodStatuses
      BY <3>1
    <3> QED BY <3>2 DEF PeriodKept, PeriodStatuses
  <2> QED BY <1>4, <2>1
<1>7. TypeOK'
  <2>1. /\ stored' \in [Imports -> SUBSET (Days \X Ids)]
        /\ file' \in [Imports -> {"kept", "lost", "deleted"}]
    BY <1>2, <1>5
  <2>2. raw' \in [Imports -> StageStatuses] /\ archive' \in [Imports -> StageStatuses]
    BY <1>3, <1>5
  <2>3. status' \in [Imports -> Finished \cup {"preview", "running", "paused"}]
    BY <1>4, <1>5
  <2> QED BY <1>1, <1>6, <2>1, <2>2, <2>3 DEF TypeOK, flags, task
<1>8. (\A i \in Imports : job'[i] = "none") /\ pausing' = {} /\ cancelling' = {}
      /\ interrupted' = {}
  BY <1>1 DEF ImportInv, NoTaskOutlives, flags, task
<1>9. ASSUME NEW i \in Imports
      PROVE  /\ raw'[i] # "running" /\ (raw'[i] = "done" <=> raw[i] = "done")
             /\ raw'[i] \in UNFINISHED_STAGES =>
                    raw[i] \in UNFINISHED_STAGES /\ status'[i] = status[i]
             /\ raw[i] = "skipped" => raw'[i] = "skipped"
             /\ stored'[i] = {} \/ (stored'[i] = stored[i] /\ raw[i] # "running")
             /\ \/ stored'[i] = stored[i] \/ raw[i] = "running"
                \/ Expired(i) /\ raw[i] \in UNFINISHED_STAGES
  <2>1. raw[i] = "running" => status[i] = "running"
    BY <1>1 DEF StageOk
  <2>2. /\ stored'[i] = {} \/ (stored'[i] = stored[i] /\ raw[i] # "running")
        /\ \/ stored'[i] = stored[i] \/ raw[i] = "running"
           \/ Expired(i) /\ raw[i] \in UNFINISHED_STAGES
    BY <1>2, <2>1 DEF MessagesKept
  <2>3. CASE Expired(i)
    BY <1>3, <2>2, <2>3 DEF StageKept, UNFINISHED_STAGES
  <2>4. CASE ~Expired(i)
    BY <1>3, <1>4, <2>1, <2>2, <2>4 DEF UNFINISHED_STAGES
  <2> QED BY <2>3, <2>4
<1>10. ASSUME NEW i \in Imports
       PROVE  TaskOk(i)' /\ StageOk(i)' /\ FileOk(i)'
  <2>1. TaskOk(i)'
    BY <1>1, <1>8 DEF TaskOk, Live, LoadThread
  <2>2. StageOk(i)'
    <3>1. StageOk(i) /\ job'[i] = "none" /\ days' = days
      BY <1>1, <1>8
    <3>2. (status'[i] = "preview" => status[i] = "preview") /\ reopened' = reopened
      BY <1>1, <1>5
    <3>3. stored'[i] \subseteq days'[i] \X Ids
      BY <1>9, <3>1 DEF StageOk
    <3> QED BY <1>9, <3>1, <3>2, <3>3 DEF StageOk
  <2>3. FileOk(i)'
    <3>1. CASE Expired(i)
      <4>1. file'[i] = "deleted" /\ status'[i] \in {"done", "partial", "failed"}
        BY <1>2, <1>4, <3>1 DEF FileKept, Verdict
      <4> QED BY <4>1 DEF FileOk
    <3>2. CASE ~Expired(i)
      <4>1. status'[i] = status[i]
        BY <1>4, <3>2
      <4>2. file'[i] = IF status[i] \in Finished THEN "deleted" ELSE file[i]
        BY <1>2, <3>2 DEF FileKept
      <4> QED BY <1>1, <4>1, <4>2 DEF FileOk, Finished
    <3> QED BY <3>1, <3>2
  <2> QED BY <2>1, <2>2, <2>3
<1>11. OneAtATime'
  BY <1>5 DEF ImportInv, OneAtATime, Unfinished, Finished
<1>12. NoTaskOutlives'
  BY <1>8 DEF NoTaskOutlives
<1>13. Gentle
  <2>1. ASSUME NEW i \in Imports
        PROVE  /\ MessagesStay(i) \/ MessagesGo(i)
               /\ ThreadStays(i) /\ Moves(i)
               /\ Changes(i) => Unfinished(i)
    <3>1. MessagesStay(i) \/ MessagesGo(i)
      <4>1. stored[i] # {} => raw[i] \in {"running", "done"} \/ i \in reopened
        BY <1>1 DEF StageOk
      <4>2. CASE stored'[i] = stored[i] \/ raw[i] = "running" \/ stored[i] = {}
        BY <1>9, <4>2 DEF MessagesStay
      <4>3. CASE Expired(i) /\ raw[i] \in UNFINISHED_STAGES /\ raw[i] # "running"
                 /\ stored'[i] # stored[i] /\ stored[i] # {}
        <5>1. i \in reopened /\ stored'[i] = {}
          BY <1>9, <4>1, <4>3 DEF UNFINISHED_STAGES
        <5>2. Unfinished(i) /\ status'[i] \in Finished
          BY <1>4, <4>3 DEF Expired, Unfinished, Verdict, Finished
        <5> QED BY <5>1, <5>2 DEF MessagesGo
      <4> QED BY <1>9, <4>2, <4>3
    <3>2. ThreadStays(i)
      BY <1>8 DEF ThreadStays
    <3>3. Moves(i)
      BY <1>1, <1>5 DEF Moves, Finished
    <3>4. Changes(i) => Unfinished(i)
      BY <1>5, <3>1 DEF Changes, MessagesGo, Expired, Unfinished
    <3> QED BY <3>1, <3>2, <3>3, <3>4
  <2>2. \A i, j \in Imports : Changes(i) /\ Changes(j) => i = j
    BY <2>1 DEF ImportInv, OneAtATime
  <2> QED BY <1>1, <2>1, <2>2 DEF Gentle
<1> QED BY <1>7, <1>10, <1>11, <1>12, <1>13 DEF ImportInv

-----------------------------------------------------------------------------
(* The steps that change what the chat shows *)

LEMMA StoreBatchKeeps ==
    ASSUME ImportInv, NEW i \in Imports, StoreBatch(i)
    PROVE  ImportInv'
<1>1. /\ TypeOK /\ TaskOk(i) /\ StageOk(i) /\ FileOk(i) /\ job[i] = "storing"
      /\ UNCHANGED <<status, stages, file, days, chat, beside, periods, flags, task, machine>>
  BY DEF ImportInv, StoreBatch
<1>2. PICK d \in days[i] : stored' = [stored EXCEPT ![i] = @ \cup {<<d, under[i]>>}]
  BY DEF StoreBatch
<1>3. <<d, under[i]>> \in Days \X Ids
  BY <1>1 DEF TypeOK
<1>4. stored' \in [Imports -> SUBSET (Days \X Ids)]
      /\ \A j \in Imports \ {i} : stored'[j] = stored[j]
  BY <1>1, <1>2, <1>3 DEF TypeOK
<1>5. locked' \in BOOLEAN
  BY <1>1, Zenon DEF TypeOK, machine
<1>6. TypeOK'
  BY <1>1, <1>4, <1>5 DEF TypeOK, stages, flags, task, machine
<1>7. OthersStay(i)
  BY <1>1, <1>4 DEF OthersStay, stages, flags, task
<1>8. process' = process /\ process \in {"up", "stopping"}
  BY <1>1 DEF ImportInv, NoTaskOutlives, TypeOK, machine
<1>9. TaskOk(i)' /\ StageOk(i)' /\ FileOk(i)'
  <2>1. TaskOk(i)' /\ FileOk(i)'
    BY <1>1 DEF TaskOk, FileOk, flags, task, machine
  <2>2. stored'[i] \subseteq days'[i] \X Ids
    BY <1>1, <1>2, <1>3 DEF StageOk, TypeOK
  <2> QED BY <1>1, <2>1, <2>2 DEF StageOk, stages, task, machine
<1>10. Unfinished(i)' => Unfinished(i)
  BY <1>1 DEF Unfinished
<1> QED BY <1>6, <1>7, <1>8, <1>9, <1>10, LocalStep

\* A thread stores for the one import that runs.
LEMMA StorerRuns ==
    ASSUME ImportInv, NEW i \in Imports, job[i] = "storing"
    PROVE  /\ status[i] = "running" /\ raw[i] = "running"
           /\ process \in {"up", "stopping"} /\ i \notin interrupted
           /\ \A j \in Imports \ {i} : ~Unfinished(j) /\ raw[j] # "running"
<1>1. TypeOK /\ \A j \in Imports : TaskOk(j) /\ StageOk(j)
  BY DEF ImportInv
<1>2. /\ status[i] = "running" /\ raw[i] = "running" /\ i \notin interrupted
  BY <1>1 DEF TaskOk, StageOk, Live, Interruptible
<1>3. process \in {"up", "stopping"}
  BY <1>1 DEF ImportInv, NoTaskOutlives, TypeOK
<1>4. \A j \in Imports \ {i} : ~Unfinished(j)
  BY <1>2 DEF ImportInv, OneAtATime, Unfinished
<1>5. \A j \in Imports \ {i} : raw[j] # "running"
  BY <1>1, <1>4 DEF StageOk, Unfinished
<1> QED BY <1>2, <1>3, <1>4, <1>5

\* What StoreEnds leaves: the days of i are its own, and an import all of
\* whose messages are gone is replaced.
StoreEndsLeaves(i) ==
    /\ stored'[i] = stored[i] \cup (days[i] \X {under[i]})
    /\ raw'[i] = "done" /\ job'[i] = "stored" /\ status'[i] = status[i]
    /\ \A j \in Imports \ {i} :
           /\ stored'[j] = stored[j] \ (days[i] \X {under[i]})
           /\ raw'[j] = raw[j] /\ job'[j] = job[j]
           /\ \/ status'[j] = status[j]
              \/ status[j] \in {"done", "partial"} /\ status'[j] = "replaced"
    /\ beside' = IF under[i] = chat THEN beside ELSE beside \cup {i}
    /\ UNCHANGED <<archive, reopened, file, days, chat, periods, flags, under, interrupted,
                   machine>>

LEMMA StoreEndsWrites ==
    ASSUME ImportInv, NEW i \in Imports, StoreEnds(i)
    PROVE  TypeOK' /\ StoreEndsLeaves(i)
<1>1. TypeOK /\ job[i] = "storing" /\ raw' = [raw EXCEPT ![i] = "done"]
      /\ UNCHANGED <<archive, reopened, file, days, chat, periods, flags>>
      /\ JobGoesTo(i, "stored")
      /\ beside' = IF under[i] = chat THEN beside ELSE beside \cup {i}
  BY DEF ImportInv, StoreEnds
<1>2. stored' = [j \in Imports |->
           IF j = i THEN stored[i] \cup (days[i] \X {under[i]})
                    ELSE stored[j] \ (days[i] \X {under[i]})]
  BY DEF StoreEnds
<1>3. status' = [j \in Imports |->
           IF /\ j # i
              /\ chat = under[i]
              /\ status[j] \in {"done", "partial"}
              /\ raw[j] = "done"
              /\ stored[j] \ (days[i] \X {under[i]}) = {}
           THEN "replaced" ELSE status[j]]
  BY DEF StoreEnds
<1>4. days[i] \X {under[i]} \subseteq Days \X Ids
  BY <1>1 DEF TypeOK
<1>5. stored' \in [Imports -> SUBSET (Days \X Ids)]
  <2>1. \A j \in Imports : stored[j] \subseteq Days \X Ids
    BY <1>1 DEF TypeOK
  <2>2. \A j \in Imports : stored'[j] \subseteq Days \X Ids
    BY <1>2, <1>4, <2>1
  <2> QED BY <1>2, <2>2
<1>6. status' \in [Imports -> Finished \cup {"preview", "running", "paused"}]
  BY <1>1, <1>3 DEF TypeOK, Finished
<1>7. "stored" \in Holding \cup {"none", "new", "locking", "ended"}
  BY DEF Holding, StoreThread
<1>8. raw' \in [Imports -> StageStatuses] /\ raw'[i] = "done"
      /\ \A j \in Imports \ {i} : raw'[j] = raw[j]
  BY <1>1 DEF TypeOK, StageStatuses
<1>9. TypeOK'
  BY <1>1, <1>5, <1>6, <1>7, <1>8, GoTypes DEF TypeOK, flags
<1>10. /\ job'[i] = "stored" /\ \A j \in Imports \ {i} : job'[j] = job[j]
       /\ UNCHANGED <<under, interrupted, machine>>
  BY <1>1 DEF JobGoesTo, TypeOK
<1>11. status'[i] = status[i] /\ stored'[i] = stored[i] \cup (days[i] \X {under[i]})
  BY <1>2, <1>3
<1>12. ASSUME NEW j \in Imports, j # i
       PROVE  /\ stored'[j] = stored[j] \ (days[i] \X {under[i]})
              /\ \/ status'[j] = status[j]
                 \/ status[j] \in {"done", "partial"} /\ status'[j] = "replaced"
  BY <1>2, <1>3, <1>12
<1>13. StoreEndsLeaves(i)
  BY <1>1, <1>8, <1>10, <1>11, <1>12 DEF StoreEndsLeaves
<1> QED BY <1>9, <1>13

LEMMA StoreEndsKeeps ==
    ASSUME ImportInv, NEW i \in Imports, StoreEnds(i)
    PROVE  ImportInv'
<1>1. TypeOK' /\ StoreEndsLeaves(i) /\ job[i] = "storing"
  BY StoreEndsWrites DEF StoreEnds
<1>2. /\ status[i] = "running" /\ process \in {"up", "stopping"}
      /\ process' = process /\ i \notin interrupted'
  BY <1>1, StorerRuns DEF StoreEndsLeaves, machine
<1>3. TaskOk(i)' /\ StageOk(i)' /\ FileOk(i)'
  <2>1. TaskOk(i)' /\ FileOk(i)'
    BY <1>1, <1>2 DEF StoreEndsLeaves, ImportInv, TaskOk, FileOk, Live, Finished
  <2>2. stored[i] \subseteq days[i] \X Ids /\ under[i] \in Ids
    BY DEF ImportInv, StageOk, TypeOK
  <2>3. stored'[i] \subseteq days'[i] \X Ids
    BY <1>1, <2>2 DEF StoreEndsLeaves
  <2> QED BY <1>1, <1>2, <2>1, <2>3 DEF StoreEndsLeaves, StageOk
<1>4. ASSUME NEW j \in Imports, j # i
      PROVE  TaskOk(j)' /\ StageOk(j)' /\ FileOk(j)'
  <2>1. /\ TaskOk(j) /\ StageOk(j) /\ FileOk(j) /\ status[j] # "running"
    BY <1>1, <1>4, StorerRuns DEF ImportInv, Unfinished
  <2>2. /\ stored'[j] \subseteq stored[j] /\ raw'[j] = raw[j] /\ job'[j] = job[j]
        /\ days'[j] = days[j] /\ file'[j] = file[j] /\ interrupted' = interrupted
        /\ reopened' = reopened /\ pausing' = pausing /\ cancelling' = cancelling
        /\ status'[j] \in {status[j], "replaced"}
        /\ status'[j] # status[j] => status[j] \in {"done", "partial"}
    BY <1>1, <1>4 DEF StoreEndsLeaves, flags
  <2>3. TaskOk(j)'
    BY <1>2, <2>1, <2>2 DEF TaskOk
  <2>4. StageOk(j)'
    BY <1>2, <2>1, <2>2 DEF StageOk
  <2>5. FileOk(j)'
    BY <1>2, <2>1, <2>2 DEF FileOk, Finished
  <2> QED BY <2>3, <2>4, <2>5
<1>5. OneAtATime'
  <2>1. \A j \in Imports : Unfinished(j)' => Unfinished(j)
    BY <1>1 DEF StoreEndsLeaves, Unfinished
  <2> QED BY <2>1 DEF ImportInv, OneAtATime
<1>6. NoTaskOutlives'
  BY <1>2 DEF NoTaskOutlives
<1> QED BY <1>1, <1>3, <1>4, <1>5, <1>6 DEF ImportInv

\* Messages are deleted, or move to the chat's new ID.
LEMMA MessagesMove ==
    ASSUME ImportInv, stored' \in [Imports -> SUBSET (Days \X Ids)], chat' \in Ids,
           \A i \in Imports :
               (stored[i] = {} => stored'[i] = {}) /\ stored'[i] \subseteq days[i] \X Ids,
           UNCHANGED <<status, stages, file, days, beside, periods, flags, task, machine>>
    PROVE  ImportInv'
<1>1. locked' \in BOOLEAN
  BY Zenon DEF ImportInv, TypeOK, machine
<1>2. TypeOK'
  BY <1>1 DEF ImportInv, TypeOK, stages, flags, task, machine
<1>3. \A i \in Imports : TaskOk(i)' /\ StageOk(i)' /\ FileOk(i)'
  BY DEF ImportInv, TaskOk, StageOk, FileOk, stages, flags, task, machine
<1>4. NoTaskOutlives' /\ OneAtATime'
  BY DEF ImportInv, NoTaskOutlives, OneAtATime, Unfinished, flags, task, machine
<1> QED BY <1>2, <1>3, <1>4 DEF ImportInv

LEMMA DeleteMessagesKeeps ==
    ASSUME ImportInv, DeleteMessages
    PROVE  ImportInv'
<1>1. /\ stored' = [i \in Imports |-> stored[i] \ (Days \X {chat})]
      /\ UNCHANGED <<status, stages, file, days, periods, chat, beside, flags, task, machine>>
  BY DEF DeleteMessages
<1>2. stored' \in [Imports -> SUBSET (Days \X Ids)] /\ chat' \in Ids
  BY <1>1 DEF ImportInv, TypeOK
<1>3. \A i \in Imports :
          (stored[i] = {} => stored'[i] = {}) /\ stored'[i] \subseteq days[i] \X Ids
  BY <1>1 DEF ImportInv, StageOk
<1> QED BY <1>1, <1>2, <1>3, MessagesMove

LEMMA UpgradeKeeps ==
    ASSUME ImportInv, Upgrade
    PROVE  ImportInv'
<1>1. /\ stored' = [i \in Imports |-> {<<d[1], "new">> : d \in stored[i]}] /\ chat' = "new"
      /\ UNCHANGED <<status, stages, file, days, beside, periods, flags, task, machine>>
  BY DEF Upgrade
<1>2. ASSUME NEW i \in Imports
      PROVE  /\ {<<d[1], "new">> : d \in stored[i]} \in SUBSET (Days \X Ids)
             /\ {<<d[1], "new">> : d \in stored[i]} \subseteq days[i] \X Ids
  <2>1. \A d \in stored[i] : d \in Days \X Ids /\ d \in days[i] \X Ids
    BY DEF ImportInv, TypeOK, StageOk
  <2>2. \A d \in stored[i] : d[1] \in Days /\ d[1] \in days[i]
    BY <2>1
  <2> QED BY <2>2 DEF Ids
<1>3. stored' \in [Imports -> SUBSET (Days \X Ids)] /\ chat' \in Ids
  BY <1>1, <1>2 DEF Ids
<1>4. \A i \in Imports :
          (stored[i] = {} => stored'[i] = {}) /\ stored'[i] \subseteq days[i] \X Ids
  BY <1>1, <1>2
<1> QED BY <1>1, <1>3, <1>4, MessagesMove

-----------------------------------------------------------------------------
(* Imports are as they are kept *)

\* The steps after which the chat shows what it showed.
LEMMA StepKeeps ==
    ASSUME ImportInv, [Next]_vars
    PROVE  /\ ImportInv'
           /\ \/ Gentle
              \/ \E i \in Imports : StoreBatch(i) \/ StoreEnds(i)
              \/ DeleteMessages
              \/ Upgrade
<1>1. ASSUME NEW i \in Imports, JobStep(i)
      PROVE  /\ ImportInv'
             /\ Gentle \/ StoreBatch(i) \/ StoreEnds(i)
  <2>1. CASE WaitForLock(i)
    BY <2>1, WaitForLockKeeps
  <2>2. CASE TakeLock(i)
    BY <2>2, TakeLockKeeps
  <2>3. CASE StoreStep(i)
    <3>1. CASE StoreBatch(i)
      BY <3>1, StoreBatchKeeps
    <3>2. CASE StoreEnds(i)
      BY <3>2, StoreEndsKeeps
    <3>3. CASE StoreStopped(i)
      BY <3>3, StoreStoppedKeeps
    <3>4. CASE StoreFails(i)
      BY <3>4, StoreFailsKeeps
    <3> QED BY <2>3, <3>1, <3>2, <3>3, <3>4 DEF StoreStep
  <2>4. CASE ResumeFromStore(i)
    BY <2>4, ResumeFromStoreKeeps
  <2>5. CASE LoadEnds(i)
    BY <2>5, LoadEndsKeeps
  <2>6. CASE ResumeFromLoad(i)
    BY <2>6, ResumeFromLoadKeeps
  <2>7. CASE PeriodStep(i)
    <3>1. PICK p \in 1 .. PeriodCount :
              PeriodEnds(i, p) \/ PeriodFails(i, p) \/ PeriodGivesUp(i, p)
      BY <2>7 DEF PeriodStep
    <3> QED BY <3>1, PeriodEndsKeeps, PeriodFailsKeeps, PeriodGivesUpKeeps
  <2>8. CASE BeInterrupted(i)
    BY <2>8, BeInterruptedKeeps
  <2>9. CASE Reap(i)
    BY <2>9, ReapKeeps
  <2> QED BY <1>1, <2>1, <2>2, <2>3, <2>4, <2>5, <2>6, <2>7, <2>8, <2>9 DEF JobStep
<1>2. ASSUME NEW i \in Imports, Owner(i) \/ Expire(i) \/ StopWaiting(i) \/ LoseFile(i)
      PROVE  ImportInv' /\ Gentle
  <2>1. CASE Owner(i)
    BY <2>1, StartKeeps, DiscardKeeps, PauseRequestKeeps, CancelKeeps, ResumeKeeps DEF Owner
  <2> QED BY <1>2, <2>1, ExpireKeeps, StopWaitingKeeps, LoseFileKeeps
<1>3. CASE DeleteMessages
  BY <1>3, DeleteMessagesKeeps
<1>4. CASE Upgrade
  BY <1>4, UpgradeKeeps
<1>5. CASE OthersTakeLock \/ OthersFreeLock
  BY <1>5, OthersLockKeeps
<1>6. CASE Crash \/ Exit
  BY <1>6, DeathKeeps DEF Crash, Exit
<1>7. CASE Shutdown
  BY <1>7, ShutdownKeeps
<1>8. CASE Recover
  BY <1>8, RecoverKeeps
<1>9. CASE ResumeInterrupted
  BY <1>9, ResumeInterruptedKeeps
<1>10. CASE UNCHANGED vars
  <2>1. UNCHANGED <<status, stages, file, days, beside, periods, flags, task, machine>>
        /\ stored' = stored /\ chat' = chat
    BY <1>10 DEF vars, records, data
  <2>2. ImportInv'
    BY <2>1, MessagesMove DEF ImportInv, TypeOK, StageOk
  <2>3. Gentle
    BY <2>1 DEF Gentle, MessagesStay, ThreadStays, Moves, Changes, stages, task
  <2> QED BY <2>2, <2>3
<1> QED BY <1>1, <1>2, <1>3, <1>4, <1>5, <1>6, <1>7, <1>8, <1>9, <1>10 DEF Next

LEMMA InitKeeps ==
    ASSUME Init
    PROVE  ImportInv
<1>1. TypeOK
  <2>1. locked \in BOOLEAN
    BY Zenon DEF Init
  <2>2. crashes \in 0 .. MaxCrashes
    BY BoundsAssumption DEF Init
  <2>3. periods \in [Imports -> [1 .. PeriodCount -> PeriodStatuses]]
    BY DEF Init, PeriodStatuses
  <2>4. /\ raw \in [Imports -> StageStatuses] /\ archive \in [Imports -> StageStatuses]
        /\ under \in [Imports -> Ids] /\ chat \in Ids
    BY DEF Init, StageStatuses, Ids
  <2> QED BY <2>1, <2>2, <2>3, <2>4 DEF Init, TypeOK
<1>2. \A i \in Imports : TaskOk(i) /\ StageOk(i) /\ FileOk(i)
  BY DEF Init, TaskOk, StageOk, FileOk, Live, LoadThread, UNFINISHED_STAGES, Finished
<1>3. OneAtATime /\ NoTaskOutlives
  BY DEF Init, OneAtATime, NoTaskOutlives, Unfinished
<1> QED BY <1>1, <1>2, <1>3 DEF ImportInv

\* Tasks, rows and uploads agree, through errors, requests, crashes and restarts.
THEOREM Invariance == Spec => []ImportInv
<1>1. Init => ImportInv
  BY InitKeeps
<1>2. ImportInv /\ [Next]_vars => ImportInv'
  BY StepKeeps
<1> QED BY <1>1, <1>2, PTL DEF Spec

LEMMA InvImplies ==
    ImportInv => TypeOK /\ RunningImportsHaveJobs /\ RawStageIsWhole /\ FileLivesWithImport
<1> SUFFICES ASSUME ImportInv
             PROVE  TypeOK /\ RunningImportsHaveJobs /\ RawStageIsWhole /\ FileLivesWithImport
  OBVIOUS
<1>1. RunningImportsHaveJobs
  BY DEF ImportInv, RunningImportsHaveJobs, TaskOk, Live, LoadThread
<1>2. RawStageIsWhole
  BY DEF ImportInv, RawStageIsWhole, StageOk
<1>3. FileLivesWithImport
  BY DEF ImportInv, FileLivesWithImport, FileOk
<1> QED BY <1>1, <1>2, <1>3 DEF ImportInv

\* No running import hangs, no raw stage is there in part (but of an import that
\* a pause has reopened), and the upload lives as long as its import may go on,
\* even when the group is upgraded meanwhile.
THEOREM ImportsAreKept ==
    Spec => [](TypeOK /\ RunningImportsHaveJobs /\ RawStageIsWhole /\ FileLivesWithImport)
BY Invariance, InvImplies, PTL

-----------------------------------------------------------------------------
(* What the chat shows *)

\* Where the messages are: at first under the group's only ID; no two imports
\* that show theirs have a date in common, unless one was stored under an ID the
\* group had lost, and after that one no thread stores under such an ID again.
Hides(i) == raw[i] = "running" \/ i \in beside

MessagesInPlace ==
    /\ chat = "old" =>
           /\ beside = {}
           /\ \A i \in Imports : job[i] = "storing" => under[i] = "old"
           /\ \A i \in Imports : stored[i] \subseteq Days \X {"old"}
    /\ beside # {} => \A i \in Imports : job[i] = "storing" => under[i] = chat
    /\ \A i, j \in Imports :
           i # j /\ ~Hides(i) /\ ~Hides(j) =>
               \A x : ~(<<x, chat>> \in stored[i] /\ <<x, chat>> \in stored[j])

LEMMA GentlePlaces ==
    ASSUME MessagesInPlace, Gentle
    PROVE  MessagesInPlace'
<1>1. /\ chat' = chat /\ beside' = beside
      /\ \A i \in Imports : (MessagesStay(i) \/ MessagesGo(i)) /\ ThreadStays(i)
  BY DEF Gentle
<1>2. ASSUME NEW i \in Imports
      PROVE  /\ stored'[i] = stored[i] \/ stored'[i] = {}
             /\ ~Hides(i)' => stored'[i] = {} \/ (stored'[i] = stored[i] /\ ~Hides(i))
  BY <1>1 DEF MessagesStay, MessagesGo, Hides
<1>3. ASSUME chat = "old"
      PROVE  /\ \A i \in Imports : job'[i] = "storing" => under'[i] = "old"
             /\ \A i \in Imports : stored'[i] \subseteq Days \X {"old"}
  BY <1>1, <1>2, <1>3 DEF MessagesInPlace, ThreadStays
<1>4. beside # {} => \A i \in Imports : job'[i] = "storing" => under'[i] = chat
  BY <1>1 DEF MessagesInPlace, ThreadStays
<1>5. ASSUME NEW i \in Imports, NEW j \in Imports, i # j, ~Hides(i)', ~Hides(j)', NEW x
      PROVE  ~(<<x, chat>> \in stored'[i] /\ <<x, chat>> \in stored'[j])
  BY <1>2, <1>5 DEF MessagesInPlace
<1> QED BY <1>1, <1>3, <1>4, <1>5 DEF MessagesInPlace

LEMMA StoreBatchPlaces ==
    ASSUME ImportInv, MessagesInPlace, NEW i \in Imports, StoreBatch(i)
    PROVE  MessagesInPlace'
<1>1. /\ job[i] = "storing" /\ raw[i] = "running"
      /\ UNCHANGED <<raw, days, chat, beside, job, under>>
  BY StorerRuns DEF StoreBatch, stages, task
<1>2. PICK d \in days[i] : stored' = [stored EXCEPT ![i] = @ \cup {<<d, under[i]>>}]
  BY DEF StoreBatch
<1>3. d \in Days /\ stored \in [Imports -> SUBSET (Days \X Ids)]
  BY DEF ImportInv, TypeOK
<1>4. /\ stored'[i] = stored[i] \cup {<<d, under[i]>>}
      /\ \A j \in Imports \ {i} : stored'[j] = stored[j]
  BY <1>2, <1>3
<1>5. chat = "old" => \A j \in Imports : stored'[j] \subseteq Days \X {"old"}
  BY <1>1, <1>3, <1>4 DEF MessagesInPlace
<1>6. ASSUME NEW j \in Imports, NEW k \in Imports, j # k, ~Hides(j)', ~Hides(k)', NEW x
      PROVE  ~(<<x, chat>> \in stored'[j] /\ <<x, chat>> \in stored'[k])
  <2>1. ~Hides(j) /\ ~Hides(k) /\ j # i /\ k # i
    BY <1>1, <1>6 DEF Hides
  <2> QED BY <1>4, <1>6, <2>1 DEF MessagesInPlace
<1> QED BY <1>1, <1>5, <1>6 DEF MessagesInPlace

\* The thread knows the chat's ID, or it is the one that the upgrade met.
LEMMA StoreEndsPlaces ==
    ASSUME ImportInv, MessagesInPlace, NEW i \in Imports, StoreEnds(i)
    PROVE  /\ MessagesInPlace'
           /\ under[i] = chat \/ beside = {}
           /\ \A x : under[i] = chat => (<<x, chat>> \in stored'[i] <=> x \in days[i])
           /\ \A j \in Imports \ {i} : \A x :
                  <<x, chat>> \in stored'[j] <=>
                      <<x, chat>> \in stored[j] /\ ~(under[i] = chat /\ x \in days[i])
<1>1. job[i] = "storing" /\ StoreEndsLeaves(i) /\ days[i] \subseteq Days
  BY StoreEndsWrites DEF StoreEnds, ImportInv, TypeOK
<1>2. under[i] = chat \/ (beside = {} /\ chat # "old")
  BY <1>1 DEF MessagesInPlace
<1>3. stored[i] \subseteq days[i] \X Ids
  BY DEF ImportInv, StageOk
<1>4. \A x : under[i] = chat => (<<x, chat>> \in stored'[i] <=> x \in days[i])
  BY <1>1, <1>3 DEF StoreEndsLeaves
<1>5. \A j \in Imports \ {i} : \A x :
          <<x, chat>> \in stored'[j] <=>
              <<x, chat>> \in stored[j] /\ ~(under[i] = chat /\ x \in days[i])
  BY <1>1 DEF StoreEndsLeaves
<1>6. /\ chat' = chat /\ raw'[i] = "done"
      /\ \A j \in Imports \ {i} : raw'[j] = raw[j]
      /\ beside' = IF under[i] = chat THEN beside ELSE beside \cup {i}
  BY <1>1 DEF StoreEndsLeaves
<1>7. \A j \in Imports : job'[j] # "storing"
  <2>1. job'[i] = "stored" /\ \A j \in Imports \ {i} : job'[j] = job[j] /\ raw[j] # "running"
    BY <1>1, StorerRuns DEF StoreEndsLeaves
  <2> QED BY <2>1 DEF ImportInv, StageOk
<1>8. ASSUME chat = "old"
      PROVE  beside' = {} /\ \A j \in Imports : stored'[j] \subseteq Days \X {"old"}
  <2>1. under[i] = chat
    BY <1>2, <1>8
  <2>2. beside = {}
    BY <1>8 DEF MessagesInPlace
  <2>3. under[i] = "old"
    BY <1>8, <2>1
  <2>6. beside' = {}
    BY <1>6, <2>1, <2>2
  <2>4. stored'[i] \subseteq Days \X {"old"}
    BY <1>1, <1>8, <2>3 DEF StoreEndsLeaves, MessagesInPlace
  <2>5. \A j \in Imports \ {i} : stored'[j] \subseteq Days \X {"old"}
    BY <1>1, <1>8 DEF StoreEndsLeaves, MessagesInPlace
  <2> QED BY <2>4, <2>5, <2>6
<1>9. ASSUME NEW j \in Imports, NEW k \in Imports, j # k, ~Hides(j)', ~Hides(k)', NEW x,
             <<x, chat>> \in stored'[j], <<x, chat>> \in stored'[k]
      PROVE  FALSE
  <2>1. ASSUME NEW h \in Imports \ {i}, ~Hides(h)'
        PROVE  ~Hides(h)
    BY <1>6, <2>1 DEF Hides
  <2>2. CASE j # i /\ k # i
    BY <1>5, <1>9, <2>1, <2>2 DEF MessagesInPlace
  <2>3. CASE j = i \/ k = i
    <3>1. i \notin beside' /\ under[i] = chat
      BY <1>6, <1>9, <2>3 DEF Hides
    <3>2. x \in days[i]
      BY <1>4, <1>9, <2>3, <3>1
    <3> QED BY <1>5, <1>9, <2>3, <3>1, <3>2
  <2> QED BY <2>2, <2>3
<1> QED BY <1>2, <1>4, <1>5, <1>6, <1>7, <1>8, <1>9 DEF MessagesInPlace

LEMMA DeleteMessagesPlaces ==
    ASSUME ImportInv, MessagesInPlace, DeleteMessages
    PROVE  /\ MessagesInPlace' /\ chat' = chat
           /\ \A i \in Imports : \A x : <<x, chat>> \notin stored'[i]
<1>1. /\ stored' = [i \in Imports |-> stored[i] \ (Days \X {chat})]
      /\ UNCHANGED <<raw, days, chat, beside, job, under>>
  BY DEF DeleteMessages, stages, task
<1>2. \A i \in Imports : stored[i] \subseteq Days \X Ids
  BY DEF ImportInv, TypeOK
<1>3. ASSUME NEW i \in Imports, NEW x
      PROVE  <<x, chat>> \notin stored'[i]
  BY <1>1, <1>2
<1>4. MessagesInPlace'
  BY <1>1, <1>3 DEF MessagesInPlace
<1> QED BY <1>1, <1>3, <1>4

LEMMA UpgradePlaces ==
    ASSUME ImportInv, MessagesInPlace, Upgrade
    PROVE  /\ MessagesInPlace' /\ UNCHANGED <<raw, status, beside, reopened>>
           /\ \A i \in Imports : \A x : <<x, chat'>> \in stored'[i] <=> <<x, chat>> \in stored[i]
<1>1. /\ stored' = [i \in Imports |-> {<<d[1], "new">> : d \in stored[i]}]
      /\ chat = "old" /\ chat' = "new"
      /\ UNCHANGED <<raw, status, days, beside, reopened, job, under>>
  BY DEF Upgrade, stages, task
<1>2. ASSUME NEW i \in Imports, NEW d \in stored[i]
      PROVE  d = <<d[1], chat>>
  BY <1>1, <1>2 DEF MessagesInPlace
<1>3. ASSUME NEW i \in Imports, NEW x
      PROVE  <<x, chat'>> \in stored'[i] <=> <<x, chat>> \in stored[i]
  <2>1. <<x, chat'>> \in stored'[i] <=> \E d \in stored[i] : <<x, "new">> = <<d[1], "new">>
    BY <1>1
  <2>2. ASSUME NEW d \in stored[i], <<x, "new">> = <<d[1], "new">>
        PROVE  <<x, chat>> \in stored[i]
    BY <1>2, <2>2
  <2>3. <<x, chat>>[1] = x
    OBVIOUS
  <2> QED BY <2>1, <2>2, <2>3
<1>4. ASSUME NEW i \in Imports, NEW j \in Imports, i # j, ~Hides(i)', ~Hides(j)', NEW x
      PROVE  ~(<<x, chat'>> \in stored'[i] /\ <<x, chat'>> \in stored'[j])
  <2>1. ~Hides(i) /\ ~Hides(j)
    BY <1>1, <1>4 DEF Hides
  <2> QED BY <1>3, <1>4, <2>1 DEF MessagesInPlace
<1>5. MessagesInPlace'
  BY <1>1, <1>4 DEF MessagesInPlace
<1> QED BY <1>1, <1>3, <1>5

\* The dates of the messages under an ID.
LEMMA DatesUnder ==
    ASSUME NEW c, NEW S \in SUBSET (Days \X Ids), NEW x
    PROVE  x \in {d[1] : d \in S \cap (Days \X {c})} <=> <<x, c>> \in S
<1>1. \A d \in S \cap (Days \X {c}) : d = <<d[1], c>>
  OBVIOUS
<1>2. <<x, c>>[1] = x
  OBVIOUS
<1>3. <<x, c>> \in S => <<x, c>> \in S \cap (Days \X {c})
  OBVIOUS
<1> QED BY <1>1, <1>2, <1>3

LEMMA ShownIs ==
    ASSUME TypeOK, NEW i \in Imports, NEW x
    PROVE  x \in Shown(i) <=> raw[i] # "running" /\ <<x, chat>> \in stored[i]
<1>1. stored[i] \in SUBSET (Days \X Ids)
  BY DEF TypeOK
<1> QED BY <1>1, DatesUnder DEF Shown

LEMMA ShownIsNext ==
    ASSUME TypeOK', NEW i \in Imports, NEW x
    PROVE  x \in Shown(i)' <=> raw'[i] # "running" /\ <<x, chat'>> \in stored'[i]
<1>1. stored'[i] \in SUBSET (Days \X Ids)
  BY DEF TypeOK
<1> QED BY <1>1, DatesUnder DEF Shown

LEMMA PlacesStep ==
    ASSUME ImportInv, MessagesInPlace, [Next]_vars
    PROVE  MessagesInPlace'
BY StepKeeps, GentlePlaces, StoreBatchPlaces, StoreEndsPlaces, DeleteMessagesPlaces,
   UpgradePlaces

THEOREM PlacesInvariance == Spec => []MessagesInPlace
<1>1. Init => MessagesInPlace
  BY DEF Init, MessagesInPlace
<1>2. ImportInv /\ MessagesInPlace /\ [Next]_vars => MessagesInPlace'
  BY PlacesStep
<1> QED BY <1>1, <1>2, Invariance, PTL DEF Spec

LEMMA PlacesImply == TypeOK /\ MessagesInPlace => DatesShownOnce
<1> SUFFICES ASSUME TypeOK, MessagesInPlace, NEW i \in Imports, NEW j \in Imports, i # j,
                    i \notin beside, j \notin beside, NEW x \in Shown(i) \cap Shown(j)
             PROVE  FALSE
  BY DEF DatesShownOnce
<1>1. /\ raw[i] # "running" /\ <<x, chat>> \in stored[i]
      /\ raw[j] # "running" /\ <<x, chat>> \in stored[j]
  BY ShownIs
<1> QED BY <1>1 DEF MessagesInPlace, Hides

\* Imports are sound: besides, no date of the chat shows two of them, unless
\* one is the import over whose thread the group was upgraded.
THEOREM ImportsAreSound == Spec => []ImportsSound
<1>1. ImportInv /\ MessagesInPlace => ImportsSound
  BY InvImplies, PlacesImply DEF ImportsSound
<1> QED BY <1>1, Invariance, PlacesInvariance, PTL

-----------------------------------------------------------------------------
(* The imports implement ImportPromise *)

Phase(s) == IF s \in Finished THEN "finished" ELSE s

LEMMA UnfinishedPhases ==
    ASSUME ~Busy
    PROVE  Promise!Unfinished = {}
BY DEF Busy, Promise!Unfinished, Finished

Phases == [i \in Imports |-> IF status[i] \in Finished THEN "finished" ELSE status[i]]
Views == [i \in Imports |-> Shown(i)]

LEMMA StayShows ==
    ASSUME TypeOK, TypeOK', chat' = chat, NEW i \in Imports, MessagesStay(i)
    PROVE  Shown(i)' = Shown(i)
<1>1. ASSUME NEW x
      PROVE  x \in Shown(i)' <=> x \in Shown(i)
  BY ShownIs, ShownIsNext DEF MessagesStay
<1> QED BY <1>1 DEF Shown

\* What a move of at most one import looks like.
LEMMA OneMoves ==
    ASSUME TypeOK, TypeOK', Gentle, NEW i \in Imports,
           \A j \in Imports \ {i} : ~Changes(j)
    PROVE  /\ Phases' = [Phases EXCEPT ![i] = Phase(status'[i])]
           /\ Views' = [Views EXCEPT ![i] = Shown(i)']
           /\ MessagesStay(i) => Views' = Views
           /\ ~MessagesStay(i) => MessagesGo(i) /\ Shown(i)' = {}
<1>1. /\ chat' = chat
      /\ MessagesStay(i) \/ MessagesGo(i)
      /\ \A j \in Imports \ {i} : status'[j] = status[j] /\ MessagesStay(j)
  BY DEF Gentle, Changes
<1>2. \A j \in Imports \ {i} : Shown(j)' = Shown(j)
  BY <1>1, StayShows
<1>3. MessagesStay(i) => Shown(i)' = Shown(i)
  BY <1>1, StayShows
<1>4. Phases' = [Phases EXCEPT ![i] = Phase(status'[i])]
  BY <1>1 DEF Phases, Phase
<1>5. Views' = [Views EXCEPT ![i] = Shown(i)']
  BY <1>2 DEF Views
<1>6. MessagesStay(i) => Views' = Views
  BY <1>2, <1>3 DEF Views
<1>7. MessagesGo(i) => Shown(i)' = {}
  BY DEF MessagesGo, Shown
<1> QED BY <1>1, <1>4, <1>5, <1>6, <1>7

LEMMA PhasesAre ==
    ASSUME NEW i \in Imports
    PROVE  Phases[i] = Phase(status[i])
BY DEF Phases, Phase

\* What is neither stored nor deleted is a move of at most one import.
LEMMA GentlePromise ==
    ASSUME ImportInv, TypeOK', Gentle
    PROVE  [Promise!Next]_(Promise!vars)
<1>1. /\ TypeOK /\ beside' = beside
      /\ \A i \in Imports : (MessagesStay(i) \/ MessagesGo(i)) /\ Moves(i)
      /\ reopened \subseteq Imports /\ reopened' \subseteq Imports
  BY DEF ImportInv, Gentle, TypeOK
<1>2. CASE \A i \in Imports : ~Changes(i)
  <2>1. \A i \in Imports : status'[i] = status[i] /\ Shown(i)' = Shown(i)
    BY <1>1, <1>2, StayShows DEF Changes, Gentle
  <2>2. Phases' = Phases /\ Views' = Views
    BY <2>1 DEF Phases, Views
  <2>3. reopened' = reopened
    BY <1>1, <2>1 DEF Moves
  <2> QED BY <1>1, <2>2, <2>3 DEF Promise!vars, Phases, Views
<1>3. ASSUME NEW i \in Imports, Changes(i)
      PROVE  [Promise!Next]_(Promise!vars)
  <2>1. /\ \A j \in Imports \ {i} : ~Changes(j)
        /\ MessagesStay(i) \/ MessagesGo(i)
    BY <1>1, <1>3 DEF Gentle
  <2>2. /\ Phases' = [Phases EXCEPT ![i] = Phase(status'[i])]
        /\ Views' = [Views EXCEPT ![i] = Shown(i)']
        /\ MessagesStay(i) => Views' = Views
        /\ ~MessagesStay(i) => MessagesGo(i) /\ Shown(i)' = {}
    BY <1>1, <2>1, OneMoves
  <2>3. Phases[i] = Phase(status[i])
    BY PhasesAre
  <2>4. \A j \in Imports \ {i} : status'[j] = status[j]
    BY <2>1 DEF Changes
  <2>5. status[i] # "running" \/ status'[i] # "paused" => reopened' = reopened
    BY <1>1, <2>4 DEF Moves
  <2>6. CASE status'[i] = status[i]
    <3>1. i \in reopened /\ Unfinished(i) /\ Shown(i)' = {} /\ reopened' = reopened
      BY <1>3, <2>2, <2>5, <2>6 DEF Changes, MessagesGo
    <3>2. Phases' = Phases /\ Phases[i] \in {"running", "paused"}
      BY <2>2, <2>3, <2>6, <3>1 DEF Unfinished, Phase, Finished, Phases
    <3>3. Promise!Vanish(i)
      BY <1>1, <2>2, <3>1, <3>2 DEF Promise!Vanish, Promise!Unfinished, Phases, Views
    <3> QED BY <3>3 DEF Promise!Next
  <2>7. CASE status'[i] # status[i] /\ status'[i] \in Finished
    <3>1. CASE status[i] \in Finished
      <4>1. MessagesStay(i)
        BY <2>1, <3>1 DEF MessagesGo, Unfinished, Finished
      <4>2. Phases' = Phases /\ Views' = Views /\ reopened' = reopened
        BY <2>2, <2>3, <2>5, <2>7, <3>1, <4>1 DEF Phase, Phases, Finished
      <4> QED BY <1>1, <4>2 DEF Promise!vars, Phases, Views
    <3>2. CASE status[i] \notin Finished
      <4>1. /\ Phases[i] # "finished" /\ Phases' = [Phases EXCEPT ![i] = "finished"]
            /\ reopened' = reopened
        <5>1. status[i] # "finished"
          BY <1>1 DEF TypeOK, Finished
        <5> QED BY <2>2, <2>3, <2>5, <2>7, <3>2, <5>1 DEF Phase, Finished
      <4>2. Views' = Views \/ (i \in reopened /\ Views' = [Views EXCEPT ![i] = {}])
        BY <2>2 DEF MessagesGo
      <4>3. Promise!Finish(i)
        BY <1>1, <4>1, <4>2 DEF Promise!Finish, Phases, Views
      <4> QED BY <4>3 DEF Promise!Next
    <3> QED BY <3>1, <3>2
  <2>8. CASE status'[i] # status[i] /\ status'[i] \notin Finished
    <3>1. Views' = Views
      BY <2>1, <2>2, <2>8 DEF MessagesGo
    <3>2. CASE status[i] = "running" /\ status'[i] = "paused"
      <4>1. Phases[i] = "running" /\ Phases' = [Phases EXCEPT ![i] = "paused"]
        BY <2>2, <2>3, <3>2 DEF Phase, Finished
      <4>2. reopened' \in {reopened, reopened \cup {i}}
        <5>1. \A j \in Imports : j \in reopened => j \in reopened'
          BY <1>1 DEF Moves
        <5>2. \A j \in Imports : j \in reopened' => j \in reopened \/ j = i
          BY <1>1, <2>4 DEF Moves
        <5> QED BY <1>1, <5>1, <5>2
      <4>3. Promise!Rest(i)
        BY <1>1, <3>1, <4>1, <4>2 DEF Promise!Rest, Phases, Views
      <4> QED BY <4>3 DEF Promise!Next
    <3>3. CASE status[i] = "paused" /\ status'[i] = "running"
      <4>1. Phases[i] = "paused" /\ Phases' = [Phases EXCEPT ![i] = "running"]
        BY <2>2, <2>3, <3>3 DEF Phase, Finished
      <4>2. Promise!GoOn(i)
        BY <1>1, <2>5, <3>1, <3>3, <4>1 DEF Promise!GoOn, Phases, Views
      <4> QED BY <4>2 DEF Promise!Next
    <3>4. CASE status[i] = "preview" /\ status'[i] = "running" /\ ~Busy
      <4>1. Phases[i] = "preview" /\ Phases' = [Phases EXCEPT ![i] = "running"]
        BY <2>2, <2>3, <3>4 DEF Phase, Finished
      <4>2. Promise!Begin(i)
        BY <1>1, <2>5, <3>1, <3>4, <4>1, UnfinishedPhases DEF Promise!Begin, Phases, Views
      <4> QED BY <4>2 DEF Promise!Next
    <3> QED BY <1>1, <2>8, <3>2, <3>3, <3>4 DEF Moves
  <2> QED BY <2>6, <2>7, <2>8
<1> QED BY <1>2, <1>3

\* While its thread stores, an import shows nothing.
LEMMA StoreBatchPromise ==
    ASSUME ImportInv, NEW i \in Imports, StoreBatch(i)
    PROVE  UNCHANGED Promise!vars
<1>1. /\ raw[i] = "running" /\ UNCHANGED <<raw, reopened, status, chat, beside>>
      /\ \A j \in Imports \ {i} : stored'[j] = stored[j]
  BY StorerRuns DEF StoreBatch, stages, ImportInv, TypeOK
<1>2. \A j \in Imports : Shown(j)' = Shown(j)
  BY <1>1 DEF Shown
<1> QED BY <1>1, <1>2 DEF Promise!vars

\* All of its messages appear in one step, for the dates chosen; only those of
\* a thread that the upgrade of the group met appear beside the others'.
LEMMA StoreEndsPromise ==
    ASSUME ImportInv, TypeOK', MessagesInPlace, NEW i \in Imports, StoreEnds(i)
    PROVE  Promise!Next
<1> DEFINE D == days[i]
<1>1. /\ job[i] = "storing" /\ StoreEndsLeaves(i) /\ TypeOK
      /\ status[i] = "running" /\ raw[i] = "running" /\ D # {} /\ D \subseteq Days
      /\ \A j \in Imports \ {i} : raw[j] # "running"
  BY StoreEndsWrites, StorerRuns DEF StoreEnds, ImportInv, TypeOK
<1>2. /\ under[i] = chat \/ beside = {}
      /\ \A x : under[i] = chat => (<<x, chat>> \in stored'[i] <=> x \in D)
      /\ \A j \in Imports \ {i} : \A x :
             <<x, chat>> \in stored'[j] <=>
                 <<x, chat>> \in stored[j] /\ ~(under[i] = chat /\ x \in D)
  BY StoreEndsPlaces
<1>3. chat' = chat /\ raw'[i] = "done" /\ \A j \in Imports \ {i} : raw'[j] = raw[j]
  BY <1>1 DEF StoreEndsLeaves
<1>4. Shown(i) = {}
  BY <1>1 DEF Shown
<1>5. under[i] = chat => Shown(i)' = D
  <2>1. ASSUME NEW x, under[i] = chat
        PROVE  x \in Shown(i)' <=> x \in D
    BY <1>2, <1>3, <2>1, ShownIsNext
  <2> QED BY <2>1 DEF Shown
<1>6. ASSUME NEW j \in Imports, j # i
      PROVE  Shown(j)' = IF under[i] = chat THEN Shown(j) \ D ELSE Shown(j)
  <2>1. ASSUME NEW x
        PROVE  x \in Shown(j)' <=> x \in Shown(j) /\ ~(under[i] = chat /\ x \in D)
    <3>1. x \in Shown(j)' <=> <<x, chat>> \in stored'[j]
      BY <1>1, <1>3, <1>6, ShownIsNext
    <3>2. x \in Shown(j) <=> <<x, chat>> \in stored[j]
      BY <1>1, <1>6, ShownIs
    <3> QED BY <1>2, <1>6, <3>1, <3>2
  <2> QED BY <2>1 DEF Shown
<1>7. \A j \in Imports : status'[j] = status[j] \/ (status[j] \in Finished /\ status'[j] \in Finished)
  BY <1>1 DEF StoreEndsLeaves, Finished
<1>8. Phases' = Phases /\ Phases[i] = "running" /\ reopened' = reopened
  BY <1>1, <1>7 DEF Phases, StoreEndsLeaves, Finished
<1>9. CASE under[i] = chat
  <2>1. Views' = [j \in Imports |-> IF j = i THEN D ELSE Views[j] \ D] /\ Views[i] = {}
    BY <1>4, <1>5, <1>6, <1>9 DEF Views
  <2>2. D \in (SUBSET Days) \ {{}} /\ beside' = beside
    BY <1>1, <1>9 DEF StoreEndsLeaves
  <2> HIDE DEF D
  <2>3. Promise!Appear(i)
    BY <1>8, <2>1, <2>2 DEF Promise!Appear, Phases, Views
  <2> QED BY <2>3 DEF Promise!Next
<1>10. CASE under[i] # chat
  <2>1. Views' = [Views EXCEPT ![i] = Shown(i)'] /\ Views[i] = {}
    BY <1>4, <1>6, <1>10 DEF Views
  <2>2. beside = {} /\ beside' = {i}
    BY <1>1, <1>2, <1>10 DEF StoreEndsLeaves
  <2>3. PICK S \in SUBSET Days : S = Shown(i)'
    <3>1. \A x : x \in Shown(i)' => x \in Days
      <4>1. \A e \in stored'[i] : e \in Days \X Ids
        BY DEF TypeOK
      <4>2. \A x : x \in Shown(i)' => <<x, chat'>> \in stored'[i]
        BY ShownIsNext
      <4>3. \A x : <<x, chat'>> \in Days \X Ids => x \in Days
        OBVIOUS
      <4> QED BY <4>1, <4>2, <4>3
    <3> QED BY <3>1
  <2>4. Promise!AppearBeside(i)
    BY <1>8, <2>1, <2>2, <2>3 DEF Promise!AppearBeside, Phases, Views
  <2> QED BY <2>4 DEF Promise!Next
<1> QED BY <1>9, <1>10

LEMMA DeleteMessagesPromise ==
    ASSUME ImportInv, TypeOK', MessagesInPlace, DeleteMessages
    PROVE  Promise!Next
<1>1. \A i \in Imports : Shown(i)' = {}
  <2>1. ASSUME NEW i \in Imports, NEW x
        PROVE  x \notin Shown(i)'
    BY DeleteMessagesPlaces, ShownIsNext
  <2> QED BY <2>1 DEF Shown
<1>2. Promise!Unfinished = {}
  BY UnfinishedPhases DEF DeleteMessages
<1>3. UNCHANGED <<status, beside, reopened>>
  BY DEF DeleteMessages, stages
<1>4. Promise!Forget
  BY <1>1, <1>2, <1>3 DEF Promise!Forget
<1> QED BY <1>4 DEF Promise!Next

LEMMA UpgradePromise ==
    ASSUME ImportInv, TypeOK', MessagesInPlace, Upgrade
    PROVE  UNCHANGED Promise!vars
<1>1. /\ UNCHANGED <<raw, status, beside, reopened>> /\ TypeOK
      /\ \A i \in Imports : \A x : <<x, chat'>> \in stored'[i] <=> <<x, chat>> \in stored[i]
  BY UpgradePlaces DEF ImportInv
<1>2. ASSUME NEW i \in Imports, NEW x
      PROVE  x \in Shown(i)' <=> x \in Shown(i)
  BY <1>1, ShownIs, ShownIsNext
<1>3. \A i \in Imports : Shown(i)' = Shown(i)
  BY <1>2 DEF Shown
<1> QED BY <1>1, <1>3 DEF Promise!vars

LEMMA StepIsPromise ==
    ASSUME ImportInv, MessagesInPlace, [Next]_vars
    PROVE  [Promise!Next]_(Promise!vars)
<1>1. TypeOK'
  BY StepKeeps DEF ImportInv
<1> QED BY <1>1, StepKeeps, GentlePromise, StoreBatchPromise, StoreEndsPromise,
           DeleteMessagesPromise, UpgradePromise

\* The chat sees the imports that ImportPromise describes, whatever threads,
\* flags, errors, crashes, restarts and upgrades there are.
THEOREM PromiseKept == Spec => KeepsImportPromise
<1>1. Init => Promise!Init
  <2> SUFFICES ASSUME Init PROVE Promise!Init
    OBVIOUS
  <2>1. \A i \in Imports : status[i] = "preview" /\ Shown(i) = {}
    BY DEF Init, Shown
  <2>2. [i \in Imports |-> IF status[i] \in Finished THEN "finished" ELSE status[i]]
            = [i \in Imports |-> "preview"]
    BY <2>1 DEF Finished
  <2>3. [i \in Imports |-> Shown(i)] = [i \in Imports |-> {}]
    BY <2>1
  <2>4. beside = {} /\ reopened = {}
    BY DEF Init
  <2> QED BY <2>2, <2>3, <2>4 DEF Promise!Init
<1>2. ImportInv /\ MessagesInPlace /\ [Next]_vars => [Promise!Next]_(Promise!vars)
  BY StepIsPromise
<1> QED BY <1>1, <1>2, Invariance, PlacesInvariance, PTL
        DEF Spec, KeepsImportPromise, Promise!Spec

-----------------------------------------------------------------------------
(* Moments and days *)

LEMMA MinPair ==
    ASSUME NEW a \in Int, NEW b \in Int
    PROVE  Min({a, b}) = IF a <= b THEN a ELSE b
<1>1. PICK m \in {a, b} : \A y \in {a, b} : m <= y
  <2>1. CASE a <= b
    BY <2>1
  <2>2. CASE b <= a
    BY <2>2
  <2> QED BY <2>1, <2>2
<1>2. Min({a, b}) \in {a, b} /\ \A y \in {a, b} : Min({a, b}) <= y
  BY <1>1 DEF Min
<1> QED BY <1>2

LEMMA MaxPair ==
    ASSUME NEW a \in Int, NEW b \in Int
    PROVE  Max({a, b}) = IF a >= b THEN a ELSE b
<1>1. PICK m \in {a, b} : \A y \in {a, b} : m >= y
  <2>1. CASE a >= b
    BY <2>1
  <2>2. CASE b >= a
    BY <2>2
  <2> QED BY <2>1, <2>2
<1>2. Max({a, b}) \in {a, b} /\ \A y \in {a, b} : Max({a, b}) >= y
  BY <1>1 DEF Max
<1> QED BY <1>2

LEMMA Quotient ==
    ASSUME NEW x \in Nat, NEW w \in Nat \ {0}
    PROVE  x \div w \in Nat /\ (x \div w) * w <= x /\ x < (x \div w) * w + w
OBVIOUS

LEMMA Product ==
    ASSUME NEW a \in Int, NEW b \in Int, NEW w \in Nat
    PROVE  /\ a * w \in Int /\ (a \in Nat => a * w \in Nat)
           /\ (a <= b => a * w <= b * w)
           /\ (a + b) * w = a * w + b * w
<1>1. (b - a) * w = b * w - a * w /\ (b - a >= 0 => (b - a) * w >= 0)
  OBVIOUS
<1> QED BY <1>1

LEMMA ProductsAssociate ==
    ASSUME NEW a \in Int, NEW b \in Int, NEW c \in Int
    PROVE  (a * b) * c = a * (b * c)
OBVIOUS

\* The start of a moment's day
LEMMA DayFacts ==
    ASSUME NEW ts \in Nat
    PROVE  /\ LocalDate(ts) \in Nat /\ DayStart(LocalDate(ts)) \in Nat
           /\ DayStart(LocalDate(ts)) <= ts /\ ts < DayStart(LocalDate(ts)) + DayLength
<1>1. PICK w, q : w \in Nat \ {0} /\ w = DayLength /\ q = ts \div w
  BY PeriodsAssumption
<1>2. q \in Nat /\ q * w <= ts /\ ts < q * w + w /\ q * w \in Nat
  BY <1>1, Quotient, Product
<1> QED BY <1>1, <1>2 DEF LocalDate, DayStart

LEMMA DaysKeepOrder ==
    ASSUME NEW a \in Int, NEW b \in Int
    PROVE  /\ DayStart(a) \in Int /\ (a \in Nat => DayStart(a) \in Nat)
           /\ (a <= b => DayStart(a) <= DayStart(b)) /\ DayStart(a + 1) = DayStart(a) + DayLength
<1>1. DayLength \in Nat
  BY PeriodsAssumption
<1> QED BY <1>1, Product DEF DayStart

\* A moment is before the start of a day if its own day is.
LEMMA BeforeDay ==
    ASSUME NEW ts \in Nat, NEW day \in Int
    PROVE  /\ ts < DayStart(day) <=> DayStart(LocalDate(ts)) < DayStart(day)
           /\ DayStart(day) <= ts => day <= LocalDate(ts)
<1>1. PICK own \in Nat : own = LocalDate(ts) /\ DayStart(own) <= ts /\ ts < DayStart(own + 1)
  <2>1. LocalDate(ts) \in Nat /\ DayStart(LocalDate(ts)) <= ts
    BY DayFacts
  <2>2. ts < DayStart(LocalDate(ts)) + DayLength
    BY DayFacts
  <2>3. DayStart(LocalDate(ts) + 1) = DayStart(LocalDate(ts)) + DayLength
    BY <2>1, DaysKeepOrder
  <2> QED BY <2>1, <2>2, <2>3
<1>2. DayStart(own) \in Int /\ DayStart(own + 1) \in Int /\ DayStart(day) \in Int
  BY DaysKeepOrder
<1>3. day <= own => DayStart(day) <= DayStart(own)
  BY DaysKeepOrder
<1>4. own + 1 <= day => DayStart(own + 1) <= DayStart(day)
  BY DaysKeepOrder
<1>5. day <= own \/ own + 1 <= day
  OBVIOUS
<1>6. CASE day <= own
  BY <1>1, <1>2, <1>3, <1>6
<1>7. CASE own + 1 <= day
  <2>1. ts < DayStart(day) /\ DayStart(own) < DayStart(day)
    BY <1>1, <1>2, <1>4, <1>7
  <2> QED BY <1>1, <1>2, <2>1
<1> QED BY <1>5, <1>6, <1>7

LEMMA DaysOfType ==
    ASSUME NEW g \in {"month", "week"}
    PROVE  DaysOf(g) \in Nat \ {0}
BY PeriodsAssumption DEF DaysOf

\* The month or week a day is in
LEMMA FirstDayFacts ==
    ASSUME NEW day \in Nat, NEW g \in {"month", "week"}
    PROVE  /\ FirstDay(day, g) \in Nat /\ FirstDay(day, g) <= day /\ day < FirstDay(day, g) + DaysOf(g)
<1>1. PICK w, q : w \in Nat \ {0} /\ w = DaysOf(g) /\ q = day \div w
  BY DaysOfType
<1>2. q \in Nat /\ q * w <= day /\ day < q * w + w /\ q * w \in Nat
  BY <1>1, Quotient, Product
<1> QED BY <1>1, <1>2 DEF FirstDay

-----------------------------------------------------------------------------
(* The periods of a plan *)

\* The start of the i-th month or week, counted from the one start is in
Cursor(start, g, i) == DayStart(FirstDay(LocalDate(start), g) + (i - 1) * DaysOf(g))

\* Steps of one length from at or before the start
Steps(start, g, base, step) ==
    /\ base \in Nat /\ step \in Nat \ {0} /\ base <= start /\ start < base + step
    /\ \A i \in Int : Cursor(start, g, i) = base + (i - 1) * step

LEMMA CursorSteps ==
    ASSUME NEW start \in Nat, NEW g \in {"month", "week"}
    PROVE  \E base, step : Steps(start, g, base, step)
<1>1. PICK day \in Nat : day = LocalDate(start) /\ DayStart(day) <= start /\ start < DayStart(day + 1)
  <2>1. LocalDate(start) \in Nat /\ DayStart(LocalDate(start)) <= start
    BY DayFacts
  <2>2. start < DayStart(LocalDate(start)) + DayLength
    BY DayFacts
  <2>3. DayStart(LocalDate(start) + 1) = DayStart(LocalDate(start)) + DayLength
    BY <2>1, DaysKeepOrder
  <2> QED BY <2>1, <2>2, <2>3
<1>2. PICK first \in Nat : first = FirstDay(day, g) /\ first <= day /\ day < first + DaysOf(g)
  BY FirstDayFacts
<1>3. PICK d \in Nat \ {0}, l \in Nat \ {0} : d = DaysOf(g) /\ l = DayLength
  BY DaysOfType, PeriodsAssumption
<1>4. PICK base, step : base = first * l /\ step = d * l
  OBVIOUS
<1>5. base \in Nat /\ step \in Nat /\ DayStart(first) = base /\ (first + d) * l = base + step
  BY <1>3, <1>4, Product DEF DayStart
<1>6. step # 0
  <2>1. 1 * l <= d * l
    BY Product
  <2> QED BY <1>4, <2>1
<1>7. base <= start
  <2>1. DayStart(first) <= DayStart(day) /\ DayStart(day) \in Int
    BY <1>2, DaysKeepOrder
  <2> QED BY <1>1, <1>5, <2>1
<1>8. start < base + step
  <2>1. day + 1 <= first + d
    BY <1>2, <1>3
  <2>2. DayStart(day + 1) <= DayStart(first + d) /\ DayStart(day + 1) \in Int /\ DayStart(first + d) \in Int
    BY <2>1, DaysKeepOrder
  <2>3. DayStart(first + d) = base + step
    BY <1>3, <1>5 DEF DayStart
  <2> QED BY <1>1, <2>2, <2>3
<1>9. ASSUME NEW i \in Int PROVE Cursor(start, g, i) = base + (i - 1) * step
  <2>1. (i - 1) * d \in Int
    BY Product
  <2>2. (first + (i - 1) * d) * l = first * l + ((i - 1) * d) * l
    BY <2>1, Product
  <2>3. ((i - 1) * d) * l = (i - 1) * (d * l)
    BY ProductsAssociate
  <2> QED BY <1>1, <1>2, <1>3, <1>4, <2>2, <2>3 DEF Cursor, DayStart
<1> QED BY <1>5, <1>6, <1>7, <1>8, <1>9 DEF Steps

\* How many steps begin before the end
LEMMA StepsBefore ==
    ASSUME NEW base \in Nat, NEW step \in Nat \ {0}, NEW end \in Int, base < end
    PROVE  \E n \in Nat : /\ n = Cardinality({i \in 1 .. end : base + (i - 1) * step < end})
                         /\ \A i \in Nat \ {0} : i <= n <=> base + (i - 1) * step < end
<1> DEFINE S == {i \in 1 .. end : base + (i - 1) * step < end}
<1>1. PICK y \in Nat : y = end - base - 1
  OBVIOUS
<1>2. PICK q \in Nat : q * step <= y /\ y < q * step + step
  BY Quotient
<1>3. ASSUME NEW i \in Nat \ {0} PROVE i <= q + 1 <=> base + (i - 1) * step < end
  <2>1. (i - 1) * step \in Int /\ q * step \in Int /\ (q + 1) * step = q * step + step
    BY Product
  <2>2. CASE i - 1 <= q
    <3>1. (i - 1) * step <= q * step
      BY <2>2, Product
    <3> QED BY <1>1, <1>2, <2>1, <2>2, <3>1
  <2>3. CASE q + 1 <= i - 1
    <3>1. (q + 1) * step <= (i - 1) * step
      BY <2>3, Product
    <3> QED BY <1>1, <1>2, <2>1, <2>3, <3>1
  <2> QED BY <2>2, <2>3
<1>4. q + 1 <= end
  <2>1. q * 1 <= q * step
    <3>1. 1 * q <= step * q /\ step * q = q * step
      BY Product
    <3> QED BY <3>1
  <2>2. q * step \in Int
    BY Product
  <2> QED BY <1>1, <1>2, <2>1, <2>2
<1>5. S = 1 .. q + 1
  <2>1. ASSUME NEW i \in S PROVE i \in 1 .. q + 1
    BY <1>3
  <2>2. ASSUME NEW i \in 1 .. q + 1 PROVE i \in S
    BY <1>3, <1>4
  <2> QED BY <2>1, <2>2
<1>6. Cardinality(S) = q + 1
  <2>1. Cardinality(1 .. q + 1) = q + 1
    BY FS_Interval
  <2> QED BY <1>5, <2>1
<1>7. PICK n \in Nat : n = q + 1
  OBVIOUS
<1>8. n = Cardinality(S)
  BY <1>6, <1>7
<1>9. \A i \in Nat \ {0} : i <= n <=> base + (i - 1) * step < end
  BY <1>3, <1>7
<1> HIDE DEF S
<1>10. \E k \in Nat : k = Cardinality(S) /\ \A i \in Nat \ {0} : i <= k <=> base + (i - 1) * step < end
  BY <1>8, <1>9
<1> QED BY <1>10 DEF S

\* The periods ps are the moments from start to end, each once, in order.
Inside(p, start, end) ==
    /\ p.start \in Nat /\ p.end \in Nat
    /\ start <= p.start /\ p.start < p.end /\ p.end <= end
Partition(ps, start, end) ==
    /\ \A i \in DOMAIN ps : Inside(ps[i], start, end)
    /\ \A i, j \in DOMAIN ps : i # j => ps[i].end <= ps[j].start \/ ps[j].end <= ps[i].start
    /\ \A ts \in start .. end - 1 : \E i \in DOMAIN ps : ps[i].start <= ts /\ ts < ps[i].end

LEMMA PlannedPeriods ==
    ASSUME NEW start \in Nat, NEW end \in Int, start < end, NEW g \in Groupings
    PROVE  /\ Partition(PlanPeriods(start, end, g), start, end)
           /\ g # "range" => \A i \in DOMAIN PlanPeriods(start, end, g) :
                 PlanPeriods(start, end, g)[i].end
                    <= CalendarPeriod(PlanPeriods(start, end, g)[i].start, g).end
<1>1. PICK ps : ps = PlanPeriods(start, end, g)
  OBVIOUS
<1>2. CASE g = "range"
  <2>1. ps = [i \in 1 .. 1 |-> [start |-> start, end |-> end]]
    BY <1>1, <1>2 DEF PlanPeriods
  <2>2. DOMAIN ps = {1} /\ ps[1].start = start /\ ps[1].end = end
    BY <2>1
  <2> QED BY <1>1, <1>2, <2>2 DEF Partition, Inside
<1>3. CASE g \in {"month", "week"}
  <2>1. PICK base, step : Steps(start, g, base, step)
    BY <1>3, CursorSteps
  <2>2. PICK n \in Nat : /\ n = Cardinality({i \in 1 .. end : Cursor(start, g, i) < end})
                         /\ \A i \in Nat \ {0} : i <= n <=> Cursor(start, g, i) < end
    <3>1. base < end
      BY <2>1 DEF Steps
    <3>2. {i \in 1 .. end : Cursor(start, g, i) < end} = {i \in 1 .. end : base + (i - 1) * step < end}
      BY <2>1 DEF Steps
    <3>3. \A i \in Nat \ {0} : Cursor(start, g, i) = base + (i - 1) * step
      BY <2>1 DEF Steps
    <3> QED BY <2>1, <3>1, <3>2, <3>3, StepsBefore DEF Steps
  <2>3. ps = [i \in 1 .. n |-> [start |-> Max({Cursor(start, g, i), start}),
                                end |-> Min({Cursor(start, g, i + 1), end})]]
    <3>1. g # "range" /\ ~(end <= start)
      BY <1>3
    <3> QED BY <1>1, <2>2, <3>1 DEF PlanPeriods, Cursor
  <2>4. ASSUME NEW i \in 1 .. n
        PROVE  /\ Cursor(start, g, i) \in Int /\ Cursor(start, g, i) < end
               /\ Cursor(start, g, i + 1) \in Int /\ Cursor(start, g, i) < Cursor(start, g, i + 1)
               /\ start < Cursor(start, g, i + 1)
               /\ ps[i].start = (IF Cursor(start, g, i) >= start THEN Cursor(start, g, i) ELSE start)
               /\ ps[i].end = (IF Cursor(start, g, i + 1) <= end THEN Cursor(start, g, i + 1) ELSE end)
    <3>1. PICK k \in Int : k = i - 1
      OBVIOUS
    <3>2. Cursor(start, g, i) = base + k * step /\ Cursor(start, g, i + 1) = base + (k + 1) * step
      BY <2>1, <3>1 DEF Steps
    <3>3. k * step \in Nat /\ (k + 1) * step = k * step + 1 * step /\ 1 * step = step
      BY <2>1, <3>1, Product DEF Steps
    <3>4. /\ Cursor(start, g, i) \in Int /\ Cursor(start, g, i + 1) \in Int
          /\ Cursor(start, g, i) < Cursor(start, g, i + 1) /\ start < Cursor(start, g, i + 1)
      BY <2>1, <3>2, <3>3 DEF Steps
    <3>5. Cursor(start, g, i) < end
      BY <2>2
    <3> QED BY <2>3, <3>4, <3>5, MinPair, MaxPair
  <2>5. ASSUME NEW i \in DOMAIN ps PROVE Inside(ps[i], start, end)
    BY <2>3, <2>4 DEF Inside
  <2>6. ASSUME NEW i \in 1 .. n, NEW j \in 1 .. n, i < j PROVE ps[i].end <= ps[j].start
    <3>1. PICK k \in Int, m \in Int : k = i /\ m = j - 1 /\ k <= m
      BY <2>6
    <3>2. Cursor(start, g, i + 1) = base + k * step /\ Cursor(start, g, j) = base + m * step
      BY <2>1, <3>1 DEF Steps
    <3>3. k * step <= m * step /\ k * step \in Int /\ m * step \in Int
      BY <2>1, <3>1, Product DEF Steps
    <3>4. Cursor(start, g, i + 1) <= Cursor(start, g, j)
      BY <2>1, <3>2, <3>3 DEF Steps
    <3> QED BY <2>4, <3>4
  <2>7. ASSUME NEW i \in DOMAIN ps, NEW j \in DOMAIN ps, i # j
        PROVE  ps[i].end <= ps[j].start \/ ps[j].end <= ps[i].start
    <3>1. i \in 1 .. n /\ j \in 1 .. n /\ (i < j \/ j < i)
      BY <2>3, <2>7
    <3> QED BY <2>6, <3>1
  <2>8. ASSUME NEW ts \in start .. end - 1
        PROVE  \E i \in DOMAIN ps : ps[i].start <= ts /\ ts < ps[i].end
    <3>1. PICK q \in Nat : q * step <= ts - base /\ ts - base < q * step + step
      <4>1. PICK x \in Nat : x = ts - base
        BY <2>1 DEF Steps
      <4>2. PICK q : q = x \div step
        OBVIOUS
      <4>3. q \in Nat /\ q * step <= x /\ x < q * step + step
        BY <2>1, <4>2, Quotient DEF Steps
      <4> QED BY <4>1, <4>3
    <3>2. (q + 1) * step = q * step + 1 * step /\ 1 * step = step /\ q * step \in Int
      BY <2>1, <3>1, Product DEF Steps
    <3>3. PICK i \in Nat \ {0} : i = q + 1
      OBVIOUS
    <3>4. Cursor(start, g, i) = base + q * step /\ Cursor(start, g, i + 1) = base + (q + 1) * step
      BY <2>1, <3>3 DEF Steps
    <3>5. Cursor(start, g, i) <= ts /\ ts < Cursor(start, g, i + 1)
      BY <2>1, <3>1, <3>2, <3>4 DEF Steps
    <3>6. Cursor(start, g, i) < end
      BY <2>1, <3>2, <3>4, <3>5 DEF Steps
    <3>7. i \in 1 .. n
      BY <2>2, <3>6
    <3>8. i \in DOMAIN ps
      BY <2>3, <3>7
    <3>9. ps[i].start <= ts
      BY <2>4, <3>5, <3>7
    <3>10. ts < ps[i].end
      BY <2>4, <3>5, <3>7
    <3> QED BY <3>8, <3>9, <3>10
  <2>9. ASSUME NEW i \in DOMAIN ps PROVE ps[i].end <= CalendarPeriod(ps[i].start, g).end
    <3>1. i \in 1 .. n /\ ps[i].start \in Nat /\ Cursor(start, g, i) <= ps[i].start
          /\ ps[i].end <= Cursor(start, g, i + 1) /\ ps[i].end \in Int
      BY <2>3, <2>4, <2>5 DEF Inside
    <3>2. PICK d \in Nat \ {0} : d = DaysOf(g)
      BY <1>3, DaysOfType
    <3>3. PICK day \in Nat : day = LocalDate(start)
      BY DayFacts
    <3>4. PICK z \in Nat, own \in Nat : z = day \div d /\ own = LocalDate(ps[i].start)
      BY <3>1, DayFacts, Quotient
    <3>5. PICK y \in Nat : y = own \div d /\ y * d <= own /\ own < y * d + d
      BY Quotient
    <3>6. PICK k \in Nat : k = i - 1
      BY <3>1
    <3>7. FirstDay(day, g) = z * d /\ FirstDay(own, g) = y * d
      BY <3>2, <3>4, <3>5 DEF FirstDay
    <3>8. z * d + k * d = (z + k) * d /\ (z + k + 1) * d = (z + k) * d + 1 * d /\ (y + 1) * d = y * d + 1 * d
          /\ (z + k) * d \in Int /\ y * d \in Int /\ 1 * d = d
      BY Product
    <3>9. (z + k) * d <= own
      <4>1. Cursor(start, g, i) = DayStart(z * d + k * d)
        BY <3>2, <3>3, <3>6, <3>7 DEF Cursor
      <4>2. DayStart((z + k) * d) <= ps[i].start
        BY <3>1, <3>8, <4>1
      <4> QED BY <3>1, <3>4, <3>8, <4>2, BeforeDay
    <3>10. z + k <= y
      <4>1. CASE y + 1 <= z + k
        <5>1. (y + 1) * d <= (z + k) * d
          BY <4>1, Product
        <5> QED BY <3>5, <3>8, <3>9, <5>1
      <4> QED BY <4>1
    <3>11. (z + k) * d + d <= y * d + d
      BY <3>8, <3>10, Product
    <3>12. Cursor(start, g, i + 1) = DayStart((z + k) * d + d)
      <4>1. (k + 1) * d = k * d + 1 * d /\ k * d \in Int /\ z * d \in Int
        BY Product
      <4>2. z * d + (k + 1) * d = (z + k) * d + d
        BY <3>8, <4>1
      <4>3. (i + 1) - 1 = k + 1
        BY <3>1, <3>6
      <4> QED BY <3>2, <3>3, <3>7, <4>2, <4>3 DEF Cursor
    <3>13. DayStart((z + k) * d + d) <= DayStart(y * d + d) /\ DayStart((z + k) * d + d) \in Int
           /\ DayStart(y * d + d) \in Int
      <4>1. PICK a \in Int, b \in Int : a = (z + k) * d + d /\ b = y * d + d
        BY <3>8
      <4> QED BY <3>11, <4>1, DaysKeepOrder
    <3>14. CalendarPeriod(ps[i].start, g).end = DayStart(y * d + d)
      BY <3>2, <3>4, <3>7 DEF CalendarPeriod
    <3> QED BY <3>1, <3>12, <3>13, <3>14
  <2> QED BY <1>1, <2>5, <2>7, <2>8, <2>9 DEF Partition
<1> QED BY <1>2, <1>3 DEF Groupings

-----------------------------------------------------------------------------
(* What is planned *)

LEMMA BoundaryType ==
    ASSUME bounds \in Bounds
    PROVE  /\ Boundary \in Nat \cup {NoTime} /\ Boundary \in Int
           /\ NoTime \in Int /\ NoTime \notin Nat
BY DEF Bounds, Boundary, NoTime

LEMMA LeastMoment ==
    ASSUME NEW S \in SUBSET Nat, S # {}
    PROVE  Min(S) \in S /\ \A n \in S : Min(S) <= n
<1>1. PICK m \in S : \A n \in S : <<n, m>> \notin OpToRel(<, Nat)
  BY NatLessThanWellFounded, WFMin
<1>2. \A n \in S : ~(n < m)
  BY <1>1 DEF OpToRel
<1>3. \A n \in S : m <= n
  BY <1>2
<1> QED BY <1>3 DEF Min

LEMMA LastMoment ==
    ASSUME NEW S \in SUBSET Nat, NEW last \in S, \A n \in S : n <= last
    PROVE  Max(S) \in S /\ \A n \in S : Max(S) >= n
<1>1. \A n \in S : last >= n
  OBVIOUS
<1> QED BY <1>1 DEF Max

LEMMA ExportFacts ==
    ASSUME export \in Exports
    PROVE  /\ export \subseteq Nat /\ export # {} /\ IsFiniteSet(export)
           /\ Min(export) \in Nat /\ Max(export) \in Nat
           /\ \A ts \in export : Min(export) <= ts /\ ts <= Max(export)
<1>1. PICK last \in export \cap Nat : export \subseteq 0 .. last
  BY ImportPlanningAssumption
<1>2. export \subseteq Nat /\ export # {}
  BY <1>1
<1>3. IsFiniteSet(export)
  <2>1. IsFiniteSet(0 .. last)
    BY FS_Interval
  <2> QED BY <1>1, <2>1, FS_Subset
<1>4. Min(export) \in export /\ \A ts \in export : Min(export) <= ts
  BY <1>2, LeastMoment
<1>5. Max(export) \in export /\ \A ts \in export : Max(export) >= ts
  <2>1. \A ts \in export : ts <= last
    BY <1>1
  <2> QED BY <1>1, <1>2, <2>1, LastMoment
<1> QED BY <1>2, <1>3, <1>4, <1>5

LEMMA CountFacts ==
    ASSUME export \in Exports, NEW start, NEW end
    PROVE  /\ IsFiniteSet(Between(start, end)) /\ Between(start, end) \subseteq export
           /\ Count(start, end) \in Nat
           /\ Count(start, end) > 0 <=> Between(start, end) # {}
<1>1. Between(start, end) \subseteq export
  BY DEF Between
<1>2. IsFiniteSet(Between(start, end))
  BY <1>1, ExportFacts, FS_Subset
<1> QED BY <1>1, <1>2, FS_CardinalityType, FS_EmptySet DEF Count

\* The preview's guess at the content is right when it makes one.
LEMMA PredictedIs ==
    ASSUME export \in Exports, NEW p, p.start \in Nat, p.end \in Nat, Predicted(p).known
    PROVE  Predicted(p).content = Content(p) /\ Count(p.start, p.end) > 0
<1>1. /\ Count(p.start, p.end) > 0
      /\ p.start = DayStart(LocalDate(p.start)) /\ p.end = DayStart(LocalDate(p.end))
  BY DEF Predicted
<1>2. PICK a \in Nat, b \in Nat : p.start = DayStart(a) /\ p.end = DayStart(b)
  <2>1. LocalDate(p.start) \in Nat /\ LocalDate(p.end) \in Nat
    BY DayFacts
  <2> QED BY <1>1, <2>1
<1>3. ASSUME NEW ts \in export
      PROVE  /\ p.start <= DayStart(LocalDate(ts)) <=> p.start <= ts
             /\ DayStart(LocalDate(ts)) < p.end <=> ts < p.end
  <2>1. ts \in Nat
    BY ExportFacts
  <2>2. PICK own \in Nat : own = LocalDate(ts) /\ DayStart(own) \in Nat /\ DayStart(own) <= ts
    BY <2>1, DayFacts
  <2>3. ts < DayStart(b) <=> DayStart(own) < DayStart(b)
    BY <2>1, <2>2, BeforeDay
  <2>4. ts < DayStart(a) <=> DayStart(own) < DayStart(a)
    BY <2>1, <2>2, BeforeDay
  <2> QED BY <1>2, <2>1, <2>2, <2>3, <2>4
<1>4. Predicted(p).content
        = {ts \in export : p.start <= DayStart(LocalDate(ts)) /\ DayStart(LocalDate(ts)) < p.end}
  BY DEF Predicted
<1>5. Content(p) = {ts \in export : p.start <= ts /\ ts < p.end}
  BY DEF Content, Between
<1> QED BY <1>1, <1>3, <1>4, <1>5

\* A period with messages is one a summary is used for again, or it replaces
\* what overlaps it.
LEMMA PeriodPlanIs ==
    ASSUME export \in Exports, NEW history, NEW p, p.start \in Nat, p.end \in Nat, NEW o,
           o.regenerate \in BOOLEAN
    PROVE  /\ PeriodPlan(history, p, o).start = p.start /\ PeriodPlan(history, p, o).end = p.end
           /\ PeriodPlan(history, p, o).reuse =>
                 /\ Count(p.start, p.end) > 0 /\ ~o.regenerate
                 /\ Same(history, p, o.grouping, Content(p)) # {}
           /\ PeriodPlan(history, p, o).replaces \subseteq Overlapping(history, p)
           /\ Count(p.start, p.end) > 0 /\ (o.regenerate \/ Same(history, p, o.grouping, Content(p)) = {}) =>
                 PeriodPlan(history, p, o).replaces = Overlapping(history, p)
<1>1. PICK same : same = IF Predicted(p).known
                         THEN Same(history, p, o.grouping, Predicted(p).content) ELSE {}
  OBVIOUS
<1>2. same # {} => same = Same(history, p, o.grouping, Content(p))
  BY <1>1, PredictedIs
<1>3. Count(p.start, p.end) \in Nat
  BY CountFacts
<1>4. PICK q : q = PeriodPlan(history, p, o)
  OBVIOUS
<1>5. /\ q.start = p.start /\ q.end = p.end
      /\ q.reuse = (Count(p.start, p.end) > 0 /\ same # {} /\ ~o.regenerate)
  BY <1>1, <1>4 DEF PeriodPlan
<1>6. q.replaces = IF Count(p.start, p.end) = 0 \/ (same # {} /\ ~o.regenerate) THEN {}
                   ELSE Overlapping(history, p)
  BY <1>1, <1>4 DEF PeriodPlan
<1>7. Count(p.start, p.end) > 0 => Count(p.start, p.end) # 0
  BY <1>3
<1>8. q.reuse => /\ Count(p.start, p.end) > 0 /\ ~o.regenerate
                 /\ Same(history, p, o.grouping, Content(p)) # {}
  BY <1>2, <1>5
<1>9. q.replaces \subseteq Overlapping(history, p)
  BY <1>6
<1>10. Count(p.start, p.end) > 0 /\ (o.regenerate \/ Same(history, p, o.grouping, Content(p)) = {}) =>
          q.replaces = Overlapping(history, p)
  BY <1>2, <1>6, <1>7
<1> QED BY <1>4, <1>5, <1>8, <1>9, <1>10

LEMMA PeriodPlanDates ==
    ASSUME NEW history, NEW p, NEW o
    PROVE  PeriodPlan(history, p, o).start = p.start /\ PeriodPlan(history, p, o).end = p.end
BY DEF PeriodPlan

LEMMA PeriodPlanReuse ==
    ASSUME export \in Exports, NEW history, NEW p, p.start \in Nat, p.end \in Nat, NEW o,
           o.regenerate \in BOOLEAN, NEW q, q = PeriodPlan(history, p, o), q.reuse
    PROVE  Count(p.start, p.end) > 0 /\ ~o.regenerate /\ Same(history, p, o.grouping, Content(p)) # {}
BY PeriodPlanIs

-----------------------------------------------------------------------------

\* What the plan of the summaries is where the dates apply
Planned(a, history, o) ==
    /\ a.start \in Nat /\ a.end \in Nat /\ a.start < a.end
    /\ o.archive /\ a.count = Count(a.start, a.end)
    /\ Boundary # NoTime => a.end <= Boundary
    /\ a.periods = [i \in DOMAIN PlanPeriods(a.start, a.end, o.grouping) |->
                       PeriodPlan(history, PlanPeriods(a.start, a.end, o.grouping)[i], o)]
    /\ PeriodErrors(a.periods, a.start, a.end, o) \subseteq a.errors

LEMMA SpanFacts ==
    ASSUME NEW from \in ChosenDays, NEW to \in ChosenDays, SpanChosen(from, to)
    PROVE  Span(from, to).start \in Nat /\ Span(from, to).end \in Nat
<1>1. from \in Nat /\ to \in Nat /\ to + 1 \in Nat
  BY DEF SpanChosen, ChosenDays
<1>2. DayStart(from) \in Nat /\ DayStart(to + 1) \in Nat
  BY <1>1, DaysKeepOrder
<1> QED BY <1>2 DEF Span

LEMMA OptionTypes ==
    ASSUME NEW o \in Options
    PROVE  /\ o.from \in ChosenDays /\ o.to \in ChosenDays
           /\ o.rawFrom \in ChosenDays /\ o.rawTo \in ChosenDays
           /\ o.grouping \in Groupings /\ o.regenerate \in BOOLEAN
           /\ o.replace \in BOOLEAN /\ o.replaceEdited \in BOOLEAN
           /\ o.archive \in BOOLEAN /\ o.raw \in BOOLEAN
BY DEF Options

LEMMA ClippedIs ==
    ASSUME NEW end \in Int, NEW boundary \in Int
    PROVE  Clipped(end, boundary) = IF boundary = NoTime \/ end <= boundary THEN end ELSE boundary
BY MinPair DEF Clipped

LEMMA ArchivePlanIs ==
    ASSUME export \in Exports, bounds \in Bounds, NEW o \in Options, NEW history
    PROVE  \/ Planned(ArchivePlan(history, o), history, o)
           \/ ArchivePlan(history, o).count = 0 /\ ArchivePlan(history, o).periods = << >>
<1>1. PICK s, end, a : s = Span(o.from, o.to) /\ end = Clipped(s.end, Boundary)
                       /\ a = ArchivePlan(history, o)
  OBVIOUS
<1>2. PICK applies \in BOOLEAN : applies = (o.archive /\ SpanChosen(o.from, o.to) /\ end > s.start)
  BY OptionTypes
<1>3. CASE applies
  <2>1. s.start \in Nat /\ s.end \in Nat
    BY <1>1, <1>2, <1>3, SpanFacts, OptionTypes
  <2>2. end \in Int /\ (Boundary # NoTime => end <= Boundary)
    BY <1>1, <2>1, ClippedIs, BoundaryType
  <2>3. a.start = s.start
    BY <1>1 DEF ArchivePlan
  <2>4. a.end = end
    BY <1>1, <1>2, <1>3 DEF ArchivePlan
  <2>5. a.periods = [i \in DOMAIN PlanPeriods(s.start, end, o.grouping) |->
                       PeriodPlan(history, PlanPeriods(s.start, end, o.grouping)[i], o)]
    BY <1>1, <1>2, <1>3 DEF ArchivePlan
  <2>6. PeriodErrors(a.periods, s.start, end, o) \subseteq a.errors
    BY <1>1, <1>2, <1>3 DEF ArchivePlan
  <2>7. end \in Nat /\ s.start < end
    <3>1. end > s.start
      BY <1>2, <1>3
    <3> QED BY <2>1, <2>2, <3>1
  <2>8. a.count = Count(s.start, end)
    BY <1>1, <1>2, <1>3 DEF ArchivePlan
  <2>9. o.archive
    BY <1>2, <1>3
  <2> QED BY <1>1, <2>1, <2>2, <2>3, <2>4, <2>5, <2>6, <2>7, <2>8, <2>9 DEF Planned
<1>4. CASE ~applies
  <2>1. a.count = 0
    BY <1>1, <1>2, <1>4 DEF ArchivePlan
  <2>2. a.periods = [i \in DOMAIN << >> |-> PeriodPlan(history, << >>[i], o)]
    BY <1>1, <1>2, <1>4 DEF ArchivePlan
  <2>3. a.periods = << >>
    BY <2>2
  <2> QED BY <1>1, <2>1, <2>3
<1> QED BY <1>3, <1>4

\* A plan without errors replaces only what the owner allowed, within the
\* dates.
LEMMA NothingElseReplaced ==
    ASSUME NEW a, NEW history, NEW o \in Options, Planned(a, history, o), a.errors = {},
           NEW i \in DOMAIN a.periods, NEW d \in a.periods[i].replaces, d \in Digest
    PROVE  /\ a.start <= d.start /\ d.end <= a.end
           /\ o.replace /\ (d.edited => o.replaceEdited)
<1>1. PICK ps : ps = a.periods
  OBVIOUS
<1>2. d \in Replaced(ps) /\ Replaced(ps) # {}
  BY <1>1 DEF Replaced
<1>3. PeriodErrors(ps, a.start, a.end, o) = {}
  BY <1>1 DEF Planned
<1>4. ~(\E x \in Replaced(ps) : x.start < a.start \/ x.end > a.end)
  BY <1>3 DEF PeriodErrors
<1>5. o.replace
  BY <1>2, <1>3 DEF PeriodErrors
<1>6. ~(\E x \in Replaced(ps) : x.edited) \/ o.replaceEdited
  BY <1>3, <1>5 DEF PeriodErrors
<1>7. d.start \in Nat /\ d.end \in Nat /\ a.start \in Nat /\ a.end \in Nat
  BY DEF Digest, Planned
<1>8. ~(d.start < a.start) /\ ~(d.end > a.end)
  BY <1>2, <1>4
<1>9. a.start <= d.start /\ d.end <= a.end
  BY <1>7, <1>8
<1> QED BY <1>2, <1>5, <1>6, <1>9

-----------------------------------------------------------------------------
(* The invariant *)

Known(d, history) ==
    \E e \in history : /\ e.start = d.start /\ e.end = d.end
                       /\ e.grouping = d.grouping /\ e.content = d.content
CoveredIn(ts, history) == \E d \in history : d.start <= ts /\ ts < d.end

PlanningInv ==
    /\ PlanningTypeOK
    /\ export \in Exports /\ bounds \in Bounds
    /\ Apart(digests) /\ Apart(planned) /\ planned \subseteq Digest
    /\ planStep = "preview" => plan = NoPlan
    /\ planStep # "preview" => options \in Options /\ plan = MakePlan(planned, options)
    /\ planStep \in {"started", "working"} =>
          /\ plan.errors = {} /\ \A d \in digests : Known(d, planned)
          /\ edits = 0 => digests = planned
    /\ planStep = "working" => made = {PeriodMade(p, Frozen) : p \in Wanted}
    /\ planStep = "done" /\ edits = 0 =>
          \A ts \in export : CoveredIn(ts, planned) => CoveredIn(ts, digests)

LEMMA PlanFields ==
    ASSUME NEW history, NEW o
    PROVE  /\ MakePlan(history, o).raw = RawPlan(o)
           /\ MakePlan(history, o).archive = ArchivePlan(history, o)
           /\ ArchivePlan(history, o).errors \subseteq MakePlan(history, o).errors
           /\ RawPlan(o).errors \subseteq MakePlan(history, o).errors
BY DEF MakePlan, ImportPlan

\* A period the job works on is one of the plan's.
LEMMA WantedIs ==
    ASSUME PlanningInv, planStep \in {"started", "working"}, NEW p \in Wanted
    PROVE  /\ Planned(plan.archive, planned, options) /\ plan.archive.errors = {}
           /\ Inside(p, plan.archive.start, plan.archive.end)
           /\ Content(p) # {} /\ Count(p.start, p.end) > 0
           /\ \E i \in DOMAIN plan.archive.periods :
                 plan.archive.periods[i] = PeriodPlan(planned, p, options)
<1>1. PICK a : a = ArchivePlan(planned, options) /\ a = plan.archive
  BY PlanFields DEF PlanningInv
<1>2. /\ export \in Exports /\ bounds \in Bounds /\ options \in Options
      /\ plan.errors = {}
  BY DEF PlanningInv
<1>3. a.errors = {}
  BY <1>1, <1>2, PlanFields DEF PlanningInv
<1>4. PICK all : all = PlanPeriods(a.start, a.end, options.grouping)
  OBVIOUS
<1>5. /\ \E i \in DOMAIN all : p = all[i]
      /\ a.count > 0 /\ Count(p.start, p.end) > 0
  BY <1>1, <1>4 DEF Wanted, Frozen
<1>6. Planned(a, planned, options)
  <2>1. a.count # 0
    BY <1>5
  <2> QED BY <1>1, <1>2, <2>1, ArchivePlanIs
<1>7. PICK i \in DOMAIN all : p = all[i]
  BY <1>5
<1>8. Inside(p, a.start, a.end)
  <2>1. Partition(all, a.start, a.end)
    BY <1>2, <1>4, <1>6, PlannedPeriods, OptionTypes DEF Planned
  <2> QED BY <1>7, <2>1 DEF Partition
<1>9. i \in DOMAIN a.periods /\ a.periods[i] = PeriodPlan(planned, p, options)
  BY <1>4, <1>6, <1>7 DEF Planned
<1>10. Content(p) # {}
  BY <1>2, <1>5, CountFacts DEF Content
<1> QED BY <1>1, <1>3, <1>5, <1>6, <1>8, <1>9, <1>10

\* The periods the job works on are apart, and the messages of the dates in
\* them.
LEMMA WantedPartition ==
    ASSUME PlanningInv, planStep \in {"started", "working"}
    PROVE  /\ \A p, q \in Wanted : p # q => p.end <= q.start \/ q.end <= p.start
           /\ Wanted # {} => \A ts \in export :
                 plan.archive.start <= ts /\ ts < plan.archive.end =>
                    \E p \in Wanted : p.start <= ts /\ ts < p.end
<1>1. PICK a, all : a = plan.archive /\ all = PlanPeriods(a.start, a.end, options.grouping)
  OBVIOUS
<1>2. Wanted # {} => Planned(a, planned, options)
  BY <1>1, WantedIs
<1>3. export \in Exports /\ options \in Options
  BY DEF PlanningInv
<1>4. Wanted # {} => Partition(all, a.start, a.end)
  BY <1>1, <1>2, <1>3, PlannedPeriods, OptionTypes DEF Planned
<1>5. Wanted = {p \in {all[i] : i \in DOMAIN all} :
                   options.archive /\ a.count > 0 /\ Count(p.start, p.end) > 0}
  BY <1>1 DEF Wanted, Frozen
<1>6. ASSUME NEW p \in Wanted, NEW q \in Wanted, p # q
      PROVE  p.end <= q.start \/ q.end <= p.start
  <2>1. PICK i \in DOMAIN all, j \in DOMAIN all : p = all[i] /\ q = all[j]
    BY <1>5
  <2> QED BY <1>4, <1>6, <2>1 DEF Partition
<1>7. ASSUME Wanted # {}, NEW ts \in export, a.start <= ts, ts < a.end
      PROVE  \E p \in Wanted : p.start <= ts /\ ts < p.end
  <2>1. a.start \in Nat /\ a.end \in Nat /\ ts \in Nat
    BY <1>2, <1>3, <1>7, ExportFacts DEF Planned
  <2>2. ts \in a.start .. a.end - 1
    BY <1>7, <2>1
  <2>3. PICK i \in DOMAIN all : all[i].start <= ts /\ ts < all[i].end
    BY <1>4, <1>7, <2>2 DEF Partition
  <2>4. ts \in Between(all[i].start, all[i].end)
    BY <2>3 DEF Between
  <2>5. Count(all[i].start, all[i].end) > 0
    BY <1>3, <2>4, CountFacts
  <2>6. options.archive /\ a.count > 0
    BY <1>5, <1>7
  <2> QED BY <1>5, <2>3, <2>5, <2>6
<1> QED BY <1>1, <1>6, <1>7

-----------------------------------------------------------------------------
(* What the job makes of the plan *)

LEMMA MadeIs ==
    ASSUME options \in Options, NEW p, NEW m, m = PeriodMade(p, Frozen)
    PROVE  /\ m.start = p.start /\ m.end = p.end
           /\ m.grouping = options.grouping /\ m.content = Content(p)
           /\ m.status \in {"pending", "reused", "cancelled"}
           /\ m.status = "pending" =>
                 /\ m.replaces = Overlapping(digests, p)
                 /\ options.regenerate \/ Same(digests, p, options.grouping, Content(p)) = {}
                 /\ options.replaceEdited \/ (\A d \in Overlapping(digests, p) : ~d.edited)
           /\ m.status = "reused" => Same(digests, p, options.grouping, Content(p)) # {}
           /\ m.status = "cancelled" =>
                 /\ options.regenerate \/ Same(digests, p, options.grouping, Content(p)) = {}
                 /\ \/ ~options.replace
                    \/ ~options.replaceEdited /\ \E d \in Overlapping(digests, p) : d.edited
<1>1. PICK same, existing : /\ same = Same(digests, p, options.grouping, Content(p))
                            /\ existing = Overlapping(digests, p)
  OBVIOUS
<1>2. PICK regenerate, replace, replaceEdited :
         /\ Frozen.grouping = options.grouping
         /\ regenerate = options.regenerate /\ replace = options.replace
         /\ replaceEdited = options.replaceEdited
         /\ regenerate = Frozen.regenerate /\ replace = Frozen.replace
         /\ replaceEdited = Frozen.replaceEdited
         /\ regenerate \in BOOLEAN /\ replace \in BOOLEAN /\ replaceEdited \in BOOLEAN
  BY OptionTypes DEF Frozen
<1>3. PICK allowed \in BOOLEAN :
         allowed = (replace /\ (replaceEdited \/ \A d \in existing : ~d.edited))
  BY <1>2
<1>4. m.status = IF same # {} /\ ~regenerate THEN "reused"
                 ELSE IF existing # {} /\ ~allowed THEN "cancelled" ELSE "pending"
  BY <1>1, <1>2, <1>3 DEF PeriodMade
<1>5. m.replaces = IF m.status = "pending" THEN existing ELSE {}
  BY <1>1, <1>2, <1>3, <1>4 DEF PeriodMade
<1>6. m.start = p.start /\ m.end = p.end /\ m.grouping = options.grouping /\ m.content = Content(p)
  BY <1>2 DEF PeriodMade
<1>7. m.status = "pending" => /\ m.replaces = existing /\ (regenerate \/ same = {})
                              /\ replaceEdited \/ (\A d \in existing : ~d.edited)
  <2>1. m.status = "pending" => (regenerate \/ same = {}) /\ (existing = {} \/ allowed)
    BY <1>2, <1>3, <1>4
  <2>2. existing = {} \/ allowed => replaceEdited \/ (\A d \in existing : ~d.edited)
    BY <1>3
  <2> QED BY <1>5, <2>1, <2>2
<1>8. m.status = "reused" => same # {}
  BY <1>4
<1>9. m.status = "cancelled" => /\ regenerate \/ same = {}
                                /\ ~replace \/ (~replaceEdited /\ \E d \in existing : d.edited)
  <2>1. m.status = "cancelled" => (regenerate \/ same = {}) /\ ~allowed
    BY <1>2, <1>4
  <2> QED BY <1>2, <1>3, <2>1
<1>10. m.status \in {"pending", "reused", "cancelled"}
  BY <1>4
<1> QED BY <1>1, <1>2, <1>6, <1>7, <1>8, <1>9, <1>10

LEMMA PendingIs ==
    ASSUME PlanningInv, planStep = "working", NEW m \in Pending
    PROVE  \E p \in Wanted :
              /\ m = PeriodMade(p, Frozen) /\ m.status = "pending"
              /\ m.start = p.start /\ m.end = p.end
              /\ m.grouping = options.grouping /\ m.content = Content(p)
              /\ m.replaces = Overlapping(digests, p)
              /\ options.regenerate \/ Same(digests, p, options.grouping, Content(p)) = {}
              /\ options.replaceEdited \/ (\A d \in m.replaces : ~d.edited)
<1>1. m \in made /\ m.status = "pending"
  BY DEF Pending
<1>2. PICK p \in Wanted : m = PeriodMade(p, Frozen)
  BY <1>1 DEF PlanningInv
<1>3. options \in Options
  BY DEF PlanningInv
<1> QED BY <1>1, <1>2, <1>3, MadeIs

\* A summary the job replaces is one the plan replaces.
LEMMA ReplacedAsPlanned ==
    ASSUME PlanningInv, planStep = "working", NEW m \in Pending, NEW d \in m.replaces
    PROVE  /\ options.replace /\ (d.edited => options.replaceEdited)
           /\ plan.archive.start <= d.start /\ d.end <= plan.archive.end
           /\ \E i \in DOMAIN plan.archive.periods, p \in Wanted :
                 /\ m.replaces = Overlapping(digests, p)
                 /\ plan.archive.periods[i].replaces = Overlapping(planned, p)
<1>1. PICK p \in Wanted : /\ m.start = p.start /\ m.end = p.end
                          /\ m.replaces = Overlapping(digests, p)
                          /\ options.regenerate \/ Same(digests, p, options.grouping, Content(p)) = {}
                          /\ options.replaceEdited \/ (\A x \in m.replaces : ~x.edited)
  BY PendingIs
<1>2. /\ export \in Exports /\ options \in Options /\ planned \subseteq Digest
      /\ digests \subseteq Digest /\ Apart(planned) /\ \A x \in digests : Known(x, planned)
  BY DEF PlanningInv, PlanningTypeOK
<1>3. /\ Planned(plan.archive, planned, options) /\ plan.archive.errors = {}
      /\ p.start \in Nat /\ p.end \in Nat /\ p.start < p.end /\ Count(p.start, p.end) > 0
  BY WantedIs DEF Inside
<1>4. PICK i \in DOMAIN plan.archive.periods :
         plan.archive.periods[i] = PeriodPlan(planned, p, options)
  BY WantedIs
<1>5. d \in digests /\ d \in Digest /\ d.start < p.end /\ d.end > p.start
  BY <1>1, <1>2 DEF Overlapping, Overlaps
<1>6. PICK e \in planned : /\ e.start = d.start /\ e.end = d.end
                           /\ e.grouping = d.grouping /\ e.content = d.content
  BY <1>2, <1>5 DEF Known
<1>7. e \in Overlapping(planned, p)
  BY <1>5, <1>6 DEF Overlapping, Overlaps
<1>8. options.regenerate \/ Same(planned, p, options.grouping, Content(p)) = {}
  <2>1. ASSUME ~options.regenerate, NEW s \in Same(planned, p, options.grouping, Content(p)) PROVE FALSE
    <3>1. /\ s \in planned /\ s.start = p.start /\ s.end = p.end
          /\ s.grouping = options.grouping /\ s.content = Content(p)
      BY DEF Same, Overlapping
    <3>2. Overlaps(e, s)
      BY <1>5, <1>6, <3>1 DEF Overlaps
    <3>3. e = s
      BY <1>2, <1>6, <3>1, <3>2 DEF Apart
    <3>4. d \in Same(digests, p, options.grouping, Content(p))
      BY <1>1, <1>6, <3>1, <3>3 DEF Same
    <3> QED BY <1>1, <2>1, <3>4
  <2> QED BY <2>1
<1>9. plan.archive.periods[i].replaces = Overlapping(planned, p)
  <2>1. options.regenerate \in BOOLEAN
    BY <1>2, OptionTypes
  <2>2. PeriodPlan(planned, p, options).replaces = Overlapping(planned, p)
    BY <1>2, <1>3, <1>8, <2>1, PeriodPlanIs
  <2> QED BY <1>4, <2>2
<1>10. plan.archive.start <= e.start /\ e.end <= plan.archive.end /\ options.replace
  BY <1>2, <1>3, <1>6, <1>7, <1>9, NothingElseReplaced
<1>11. d.edited => options.replaceEdited
  BY <1>1
<1> QED BY <1>1, <1>6, <1>9, <1>10, <1>11

\* What is published is apart from what stays.
LEMMA PublishKeepsApart ==
    ASSUME PlanningInv, Publish
    PROVE  Apart(digests') /\ digests' \subseteq Digest
<1> DEFINE old == digests \ UNION {p.replaces : p \in Pending}
           new == {NewDigest(p) : p \in Pending}
<1>1. digests' = old \cup new /\ planStep = "working"
  BY DEF Publish
<1>2. ASSUME NEW x \in new
      PROVE  \E p \in Wanted, m \in Pending :
                /\ x = NewDigest(m) /\ x.start = p.start /\ x.end = p.end
                /\ x.grouping = options.grouping /\ x.content = Content(p)
                /\ x.content \in SUBSET Nat /\ m.replaces = Overlapping(digests, p)
                /\ p.start \in Nat /\ p.end \in Nat /\ p.start < p.end
    <2>1. PICK m \in Pending : x = NewDigest(m)
      OBVIOUS
    <2>2. PICK p \in Wanted : /\ m.start = p.start /\ m.end = p.end
                              /\ m.grouping = options.grouping /\ m.content = Content(p)
                              /\ m.replaces = Overlapping(digests, p)
      BY <1>1, PendingIs
    <2>3. p.start \in Nat /\ p.end \in Nat /\ p.start < p.end
      BY <1>1, WantedIs DEF Inside
    <2>4. Content(p) \in SUBSET Nat
      BY ExportFacts DEF PlanningInv, Content, Between
    <2> QED BY <2>1, <2>2, <2>3, <2>4 DEF NewDigest
<1>3. digests \subseteq Digest /\ Apart(digests)
  BY DEF PlanningInv, PlanningTypeOK
<1>4. new \subseteq Digest
  <2>1. ASSUME NEW x \in new PROVE x \in Digest
    <3>1. PICK p \in Wanted, m \in Pending :
             /\ x = NewDigest(m) /\ x.start = p.start /\ x.end = p.end
             /\ x.grouping = options.grouping
             /\ x.content \in SUBSET Nat /\ p.start \in Nat /\ p.end \in Nat
      BY <1>2
    <3>2. options.grouping \in Groupings
      BY <1>1, OptionTypes DEF PlanningInv
    <3>3. PICK g : g = x.grouping /\ g \in Groupings
      BY <3>1, <3>2
    <3> QED BY <3>1, <3>3 DEF NewDigest, Digest
  <2> QED BY <2>1
<1>5. ASSUME NEW d \in old, NEW x \in new PROVE ~Overlaps(d, x) /\ ~Overlaps(x, d)
  <2>1. PICK p \in Wanted, m \in Pending :
           /\ x.start = p.start /\ x.end = p.end /\ m.replaces = Overlapping(digests, p)
           /\ p.start \in Nat /\ p.end \in Nat
    BY <1>2
  <2>2. d \in digests /\ d \notin Overlapping(digests, p)
    BY <2>1
  <2>3. ~(d.start < p.end /\ d.end > p.start) /\ d.start \in Nat /\ d.end \in Nat
    BY <1>3, <2>2 DEF Overlapping, Overlaps, Digest
  <2> QED BY <2>1, <2>3 DEF Overlaps
<1>6. ASSUME NEW x \in new, NEW y \in new, Overlaps(x, y) PROVE x = y
  <2>1. PICK p \in Wanted, m \in Pending :
           /\ x = NewDigest(m) /\ x.start = p.start /\ x.end = p.end
           /\ x.grouping = options.grouping /\ x.content = Content(p)
           /\ p.start \in Nat /\ p.end \in Nat
    BY <1>2
  <2>2. PICK q \in Wanted, n \in Pending :
           /\ y = NewDigest(n) /\ y.start = q.start /\ y.end = q.end
           /\ y.grouping = options.grouping /\ y.content = Content(q)
           /\ q.start \in Nat /\ q.end \in Nat
    BY <1>2
  <2>3. ~(p.end <= q.start) /\ ~(q.end <= p.start)
    BY <1>6, <2>1, <2>2 DEF Overlaps
  <2>4. p = q
    BY <1>1, <2>3, WantedPartition
  <2> QED BY <2>1, <2>2, <2>4 DEF NewDigest
<1>7. ASSUME NEW x \in digests', NEW y \in digests', Overlaps(x, y) PROVE x = y
  <2> HIDE DEF old, new
  <2>1. old \subseteq digests
    BY DEF old
  <2>2. x \in old /\ y \in old => x = y
    BY <1>3, <1>7, <2>1 DEF Apart
  <2>3. x \in new /\ y \in new => x = y
    BY <1>6, <1>7
  <2>4. ~(x \in old /\ y \in new) /\ ~(x \in new /\ y \in old)
    BY <1>5, <1>7
  <2> QED BY <1>1, <2>2, <2>3, <2>4
<1>8. Apart(digests')
  BY <1>7 DEF Apart
<1>9. digests' \subseteq Digest
  BY <1>1, <1>3, <1>4
<1> QED BY <1>8, <1>9

\* Unless the owner changed the history meanwhile, what a summary is replaced
\* by has the messages it was about.
LEMMA PublishCovers ==
    ASSUME PlanningInv, Publish, edits = 0, NEW ts \in export, CoveredIn(ts, planned)
    PROVE  CoveredIn(ts, digests')
<1> DEFINE old == digests \ UNION {p.replaces : p \in Pending}
           new == {NewDigest(p) : p \in Pending}
<1>1. digests' = old \cup new /\ planStep = "working"
  BY DEF Publish
<1>2. /\ digests = planned /\ digests \subseteq Digest /\ Apart(digests)
      /\ export \in Exports /\ options \in Options
      /\ made = {PeriodMade(p, Frozen) : p \in Wanted}
  BY <1>1 DEF PlanningInv, PlanningTypeOK
<1>3. PICK d \in digests : d.start <= ts /\ ts < d.end
  BY <1>2 DEF CoveredIn
<1>4. ts \in Nat /\ d.start \in Nat /\ d.end \in Nat
  BY <1>2, ExportFacts DEF Digest
<1>5. CASE d \in old
  BY <1>1, <1>3, <1>5 DEF CoveredIn
<1>6. CASE d \notin old
  <2>1. PICK m \in Pending : d \in m.replaces
    BY <1>6
  <2>2. PICK p \in Wanted : /\ m = PeriodMade(p, Frozen) /\ m.status = "pending"
                            /\ m.replaces = Overlapping(digests, p)
    BY <1>1, PendingIs
  <2>3. options.replace /\ plan.archive.start <= d.start /\ d.end <= plan.archive.end
    BY <1>1, <2>1, ReplacedAsPlanned
  <2>4. Planned(plan.archive, planned, options) /\ plan.archive.errors = {}
    BY <1>1, WantedIs
  <2>5. plan.archive.start <= ts /\ ts < plan.archive.end
    BY <1>3, <1>4, <2>3, <2>4 DEF Planned
  <2>6. PICK q \in Wanted : q.start <= ts /\ ts < q.end
    BY <1>1, <2>5, WantedPartition
  <2>7. PICK r \in made : r = PeriodMade(q, Frozen)
    BY <1>2
  <2>8. /\ q.start \in Nat /\ q.end \in Nat /\ q.start < q.end /\ Count(q.start, q.end) > 0
        /\ p.start \in Nat /\ p.end \in Nat /\ p.start < p.end
    BY <1>1, WantedIs DEF Inside
  <2>9. CASE r.status = "pending"
    <3>1. r \in Pending /\ r.start = q.start /\ r.end = q.end
      BY <1>2, <2>7, <2>9, MadeIs DEF Pending
    <3>2. PICK x \in digests' : x = NewDigest(r)
      BY <1>1, <3>1
    <3> QED BY <2>6, <3>1, <3>2 DEF CoveredIn, NewDigest
  <2>10. CASE r.status = "reused"
    <3>1. PICK s \in Same(digests, q, options.grouping, Content(q)) : TRUE
      BY <1>2, <2>7, <2>10, MadeIs
    <3>2. s \in digests /\ s.start = q.start /\ s.end = q.end
      BY DEF Same, Overlapping
    <3>3. Overlaps(s, d)
      BY <1>3, <1>4, <2>6, <2>8, <3>2 DEF Overlaps
    <3>4. s = d
      BY <1>2, <3>2, <3>3 DEF Apart
    <3>5. q.start < p.end /\ q.end > p.start
      BY <2>1, <2>2, <3>2, <3>4 DEF Overlapping, Overlaps
    <3>6. ~(p.end <= q.start) /\ ~(q.end <= p.start)
      BY <2>8, <3>5
    <3>7. p = q
      BY <1>1, <3>6, WantedPartition
    <3> QED BY <2>2, <2>7, <2>10, <3>7
  <2>11. CASE r.status = "cancelled"
    <3>1. options.regenerate \/ Same(planned, q, options.grouping, Content(q)) = {}
      BY <1>2, <2>7, <2>11, MadeIs
    <3>2. ~options.replaceEdited
      BY <1>2, <2>3, <2>7, <2>11, MadeIs
    <3>3. PICK e \in Overlapping(planned, q) : e.edited
      BY <1>2, <2>3, <2>7, <2>11, MadeIs
    <3>4. PICK i \in DOMAIN plan.archive.periods :
             plan.archive.periods[i] = PeriodPlan(planned, q, options)
      BY <1>1, WantedIs
    <3>5. PeriodPlan(planned, q, options).replaces = Overlapping(planned, q)
      <4>1. options.regenerate \in BOOLEAN
        BY <1>2, OptionTypes
      <4> QED BY <1>2, <2>8, <3>1, <4>1, PeriodPlanIs
    <3>6. e \in Digest
      BY <1>2, <3>3 DEF Overlapping
    <3>7. e.edited => options.replaceEdited
      BY <1>2, <2>4, <3>3, <3>4, <3>5, <3>6, NothingElseReplaced
    <3> QED BY <3>2, <3>3, <3>7
  <2> QED BY <1>2, <2>7, <2>9, <2>10, <2>11, MadeIs
<1> QED BY <1>5, <1>6

-----------------------------------------------------------------------------
(* The invariant holds *)

LEMMA DefaultsAreOptions ==
    ASSUME export \in Exports
    PROVE  Defaults \in Options
<1>1. Min(export) \in Nat /\ Max(export) \in Nat
  BY ExportFacts
<1>2. LocalDate(Min(export)) \in Nat /\ LocalDate(Max(export)) \in Nat
  BY <1>1, DayFacts
<1>3. FirstDay(LocalDate(Min(export)), "month") \in Nat
  BY <1>2, FirstDayFacts
<1> QED BY <1>2, <1>3 DEF Defaults, Options, ChosenDays, Groupings, First, LastOne

LEMMA PlanningInitInv == PlanningInit => PlanningInv
<1> SUFFICES ASSUME PlanningInit PROVE PlanningInv
  OBVIOUS
<1>1. /\ export \in Exports /\ bounds \in Bounds /\ digests \subseteq Digest /\ Apart(digests)
  BY ImportPlanningAssumption DEF PlanningInit
<1>2. Apart(planned) /\ planned \subseteq Digest
  BY DEF PlanningInit, Apart
<1>3. PlanningTypeOK
  BY <1>1, ImportPlanningAssumption DEF PlanningInit, PlanningTypeOK
<1> QED BY <1>1, <1>2, <1>3 DEF PlanningInit, PlanningInv

\* What is planned of the same export within the same bounds is the same.
LEMMA BoundsStay ==
    ASSUME export' = export, bounds' = bounds
    PROVE  /\ First' = First /\ LastOne' = LastOne
           /\ Boundary' = Boundary /\ RawBoundary' = RawBoundary
           /\ \A start, end : Count(start, end)' = Count(start, end)
           /\ \A p : Content(p)' = Content(p)
           /\ \A p : Predicted(p)' = Predicted(p)
<1>1. First' = First /\ LastOne' = LastOne
  BY DEF First, LastOne
<1>2. Boundary' = Boundary /\ RawBoundary' = RawBoundary
  BY DEF Boundary, RawBoundary
<1>3. \A start, end : Count(start, end)' = Count(start, end)
  BY DEF Count, Between
<1>4. \A p : Content(p)' = Content(p)
  BY DEF Content, Between
<1>5. \A p : Predicted(p)' = Predicted(p)
  BY <1>2, <1>3 DEF Predicted
<1> QED BY <1>1, <1>2, <1>3, <1>4, <1>5

LEMMA PlansStay ==
    ASSUME export' = export, bounds' = bounds, NEW history, NEW o
    PROVE  MakePlan(history, o)' = MakePlan(history, o)
<1>1. RawPlan(o)' = RawPlan(o)
  BY BoundsStay DEF RawPlan
<1>2. ASSUME NEW p PROVE PeriodPlan(history, p, o)' = PeriodPlan(history, p, o)
  BY BoundsStay DEF PeriodPlan
<1>3. ArchivePlan(history, o)' = ArchivePlan(history, o)
  <2>1. PICK s, end, applies :
           /\ s = Span(o.from, o.to) /\ end = Clipped(s.end, Boundary)
           /\ applies = (o.archive /\ SpanChosen(o.from, o.to) /\ end > s.start)
    OBVIOUS
  <2>2. PICK all : all = IF applies THEN PlanPeriods(s.start, end, o.grouping) ELSE << >>
    OBVIOUS
  <2>3. PICK count : count = IF applies THEN Count(s.start, end) ELSE 0
    OBVIOUS
  <2>4. PICK ps, qs : /\ ps = [i \in DOMAIN all |-> PeriodPlan(history, all[i], o)]
                      /\ qs = [i \in DOMAIN all |-> PeriodPlan(history, all[i], o)']
    OBVIOUS
  <2>5. ps = qs
    BY <1>2, <2>4
  <2>6. ArchivePlan(history, o) =
           [start |-> s.start, end |-> IF applies THEN end ELSE s.start, count |-> count, periods |-> ps,
            errors |-> (IF o.archive /\ count = 0 THEN {"archive"} ELSE {})
                       \cup PeriodErrors(ps, s.start, end, o)]
    BY <2>1, <2>2, <2>3, <2>4 DEF ArchivePlan
  <2>7. ArchivePlan(history, o)' =
           [start |-> s.start, end |-> IF applies THEN end ELSE s.start, count |-> count, periods |-> qs,
            errors |-> (IF o.archive /\ count = 0 THEN {"archive"} ELSE {})
                       \cup PeriodErrors(qs, s.start, end, o)]
    <3>1. Boundary' = Boundary /\ Count(s.start, end)' = Count(s.start, end)
      BY BoundsStay
    <3> QED BY <2>1, <2>2, <2>3, <2>4, <3>1 DEF ArchivePlan
  <2> QED BY <2>5, <2>6, <2>7
<1> QED BY <1>1, <1>3 DEF MakePlan

LEMMA ChooseKeeps ==
    ASSUME PlanningInv, NEW o \in Options, Choose(o)
    PROVE  PlanningInv'
<1>1. PICK c : c = MakePlan(digests, o)
  OBVIOUS
<1>2. /\ options' = o /\ planned' = digests /\ digests' = digests /\ export' = export
      /\ bounds' = bounds /\ edits' = edits /\ made' = made
      /\ plan' = c /\ planStep' \in {"started", "refused"}
      /\ planStep' = "started" => c.errors = {}
  BY <1>1 DEF Choose
<1>3. /\ digests \subseteq Digest /\ Apart(digests) /\ export \in Exports /\ bounds \in Bounds
      /\ edits \in 0 .. MaxEdits
  BY DEF PlanningInv, PlanningTypeOK
<1>4. plan' = MakePlan(planned, options)'
  <2>1. PICK h : h = planned'
    OBVIOUS
  <2>2. MakePlan(h, o)' = MakePlan(h, o)
    BY <1>2, PlansStay
  <2>3. MakePlan(planned, options)' = MakePlan(h, o)'
    BY <1>2, <2>1
  <2> QED BY <1>1, <1>2, <2>1, <2>2, <2>3
<1>5. \A d \in digests' : Known(d, planned')
  BY <1>2 DEF Known
<1>6. PlanningTypeOK'
  BY <1>2, <1>3 DEF PlanningTypeOK
<1>7. (Apart(digests) /\ Apart(planned) /\ planned \subseteq Digest)'
  BY <1>2, <1>3 DEF Apart
<1> QED BY <1>2, <1>3, <1>4, <1>5, <1>6, <1>7 DEF PlanningInv

LEMMA PlanHolds ==
    ASSUME PlanningInv, planStep # "preview", planStep' # "preview",
           UNCHANGED <<export, bounds, options, plan, planned>>
    PROVE  (options \in Options /\ plan = MakePlan(planned, options))'
<1>1. PICK h, o : h = planned /\ o = options /\ o \in Options /\ plan = MakePlan(h, o)
  BY DEF PlanningInv
<1>2. MakePlan(h, o)' = MakePlan(h, o)
  BY PlansStay
<1>3. planned' = h /\ options' = o
  BY <1>1
<1>4. MakePlan(planned, options)' = MakePlan(h, o)'
  BY <1>3
<1> QED BY <1>1, <1>2, <1>3, <1>4

LEMMA EditKeeps ==
    ASSUME PlanningInv, OwnerEdits
    PROVE  PlanningInv'
<1>1. /\ planStep = "started" /\ planStep' = "started" /\ edits < MaxEdits /\ edits' = edits + 1
      /\ UNCHANGED <<export, bounds, options, plan, planned, made>>
  BY DEF OwnerEdits
<1>2. /\ edits \in 0 .. MaxEdits /\ digests \subseteq Digest /\ Apart(digests) /\ Apart(planned)
      /\ planned \subseteq Digest /\ export \in Exports /\ bounds \in Bounds
      /\ plan.errors = {} /\ \A d \in digests : Known(d, planned)
  BY <1>1 DEF PlanningInv, PlanningTypeOK
<1>3. edits' \in 0 .. MaxEdits /\ edits' # 0
  BY <1>1, <1>2, ImportPlanningAssumption
<1>4. PICK d \in digests :
         \/ digests' = (digests \ {d}) \cup {[d EXCEPT !.edited = TRUE]}
         \/ digests' = digests \ {d}
  BY DEF OwnerEdits
<1>5. PICK x : /\ x \in Digest /\ x.start = d.start /\ x.end = d.end
               /\ x.grouping = d.grouping /\ x.content = d.content
               /\ x = [d EXCEPT !.edited = TRUE]
  BY <1>2, <1>4 DEF Digest
<1>6. digests' \subseteq (digests \ {d}) \cup {x}
  BY <1>4, <1>5
<1>7. digests' \subseteq Digest
  BY <1>2, <1>5, <1>6
<1>8. Apart(digests')
  <2>1. ASSUME NEW y \in digests', NEW z \in digests', Overlaps(y, z) PROVE y = z
    <3>1. CASE y = x /\ z = x
      BY <3>1
    <3>2. CASE y # x /\ z # x
      BY <1>2, <1>6, <2>1, <3>2 DEF Apart
    <3>3. CASE y = x /\ z # x
      <4>1. z \in digests /\ z # d /\ Overlaps(d, z)
        BY <1>5, <1>6, <2>1, <3>3 DEF Overlaps
      <4> QED BY <1>2, <1>4, <4>1 DEF Apart
    <3>4. CASE y # x /\ z = x
      <4>1. y \in digests /\ y # d /\ Overlaps(y, d)
        BY <1>5, <1>6, <2>1, <3>4 DEF Overlaps
      <4> QED BY <1>2, <1>4, <4>1 DEF Apart
    <3> QED BY <3>1, <3>2, <3>3, <3>4
  <2> QED BY <2>1 DEF Apart
<1>9. \A y \in digests' : Known(y, planned)
  <2>1. Known(x, planned)
    BY <1>2, <1>4, <1>5 DEF Known
  <2> QED BY <1>2, <1>6, <2>1
<1>10. (options \in Options /\ plan = MakePlan(planned, options))'
  BY <1>1, PlanHolds
<1>11. PlanningTypeOK'
  BY <1>1, <1>3, <1>7, <1>10 DEF PlanningTypeOK
<1>12. (\A y \in digests : Known(y, planned))'
  BY <1>1, <1>9 DEF Known
<1>13. Apart(digests)' /\ (Apart(planned) /\ planned \subseteq Digest)'
  BY <1>1, <1>2, <1>8 DEF Apart
<1> QED BY <1>1, <1>2, <1>3, <1>10, <1>11, <1>12, <1>13 DEF PlanningInv

\* What the job works on is what was stored with the import.
LEMMA WorkStays ==
    ASSUME UNCHANGED <<export, bounds, options, plan, digests>>
    PROVE  /\ Wanted' = Wanted
           /\ {PeriodMade(p, Frozen) : p \in Wanted}' = {PeriodMade(p, Frozen) : p \in Wanted}
<1>1. Frozen' = Frozen
  BY DEF Frozen
<1>2. \A start, end : Count(start, end)' = Count(start, end)
  BY BoundsStay
<1>3. Wanted' = Wanted
  BY <1>1, <1>2 DEF Wanted
<1>4. PICK o : o = Frozen
  OBVIOUS
<1>5. ASSUME NEW p PROVE PeriodMade(p, o)' = PeriodMade(p, o)
  <2>1. Content(p)' = Content(p)
    BY BoundsStay
  <2> QED BY <2>1 DEF PeriodMade
<1>6. ASSUME NEW p PROVE PeriodMade(p, Frozen)' = PeriodMade(p, Frozen)
  BY <1>1, <1>4, <1>5
<1> QED BY <1>3, <1>6

LEMMA CreateKeeps ==
    ASSUME PlanningInv, CreatePeriods
    PROVE  PlanningInv'
<1>1. /\ planStep = "started" /\ planStep' = "working"
      /\ made' = {PeriodMade(p, Frozen) : p \in Wanted}
      /\ UNCHANGED <<export, bounds, digests, options, plan, edits, planned>>
  BY DEF CreatePeriods
<1>2. (made = {PeriodMade(p, Frozen) : p \in Wanted})'
  BY <1>1, WorkStays
<1>3. (options \in Options /\ plan = MakePlan(planned, options))'
  BY <1>1, PlanHolds
<1>4. PlanningTypeOK'
  BY <1>1, <1>3 DEF PlanningInv, PlanningTypeOK
<1>5. (Apart(digests) /\ Apart(planned) /\ planned \subseteq Digest)'
  BY <1>1 DEF PlanningInv, Apart
<1>6. (plan.errors = {} /\ (\A d \in digests : Known(d, planned)) /\ (edits = 0 => digests = planned))'
  BY <1>1 DEF PlanningInv, Known
<1> QED BY <1>1, <1>2, <1>3, <1>4, <1>5, <1>6 DEF PlanningInv

LEMMA PublishKeeps ==
    ASSUME PlanningInv, Publish
    PROVE  PlanningInv'
<1>1. /\ planStep = "working" /\ planStep' = "done"
      /\ UNCHANGED <<export, bounds, options, plan, edits, planned, made>>
  BY DEF Publish
<1>2. (options \in Options /\ plan = MakePlan(planned, options))'
  BY <1>1, PlanHolds
<1>3. Apart(digests') /\ digests' \subseteq Digest
  BY PublishKeepsApart
<1>4. PlanningTypeOK'
  BY <1>1, <1>2, <1>3 DEF PlanningInv, PlanningTypeOK
<1>5. (Apart(digests) /\ Apart(planned) /\ planned \subseteq Digest)'
  BY <1>1, <1>3 DEF PlanningInv, Apart
<1>6. (edits = 0 => \A ts \in export : CoveredIn(ts, planned) => CoveredIn(ts, digests))'
  <2>1. ASSUME edits = 0, NEW ts \in export, CoveredIn(ts, planned) PROVE CoveredIn(ts, digests')
    BY <2>1, PublishCovers
  <2>2. ASSUME NEW ts PROVE CoveredIn(ts, planned)' = CoveredIn(ts, planned)
    BY <1>1 DEF CoveredIn
  <2>3. ASSUME NEW ts PROVE CoveredIn(ts, digests)' = CoveredIn(ts, digests')
    BY DEF CoveredIn
  <2> QED BY <1>1, <2>1, <2>2, <2>3
<1> QED BY <1>1, <1>2, <1>4, <1>5, <1>6 DEF PlanningInv

LEMMA StutterKeepsPlanning ==
    ASSUME PlanningInv, UNCHANGED planVars
    PROVE  PlanningInv'
<1>1. UNCHANGED <<export, bounds, digests, options, plan, planStep, edits, planned, made>>
  BY DEF planVars
<1>2. planStep # "preview" => (options \in Options /\ plan = MakePlan(planned, options))'
  BY <1>1, PlanHolds
<1>3. {PeriodMade(p, Frozen) : p \in Wanted}' = {PeriodMade(p, Frozen) : p \in Wanted}
  BY <1>1, WorkStays
<1>4. PlanningTypeOK'
  BY <1>1 DEF PlanningInv, PlanningTypeOK
<1>5. (Apart(digests) /\ Apart(planned) /\ planned \subseteq Digest)'
  BY <1>1 DEF PlanningInv, Apart
<1>6. (planStep \in {"started", "working"} =>
          /\ plan.errors = {} /\ \A d \in digests : Known(d, planned)
          /\ edits = 0 => digests = planned)'
  BY <1>1 DEF PlanningInv, Known
<1>7. (planStep = "done" /\ edits = 0 =>
          \A ts \in export : CoveredIn(ts, planned) => CoveredIn(ts, digests))'
  BY <1>1 DEF PlanningInv, CoveredIn
<1> QED BY <1>1, <1>2, <1>3, <1>4, <1>5, <1>6, <1>7 DEF PlanningInv

LEMMA PlanningInvHolds == PlanningSpec => []PlanningInv
<1>1. PlanningInv /\ [PlanningNext]_planVars => PlanningInv'
  <2> SUFFICES ASSUME PlanningInv, [PlanningNext]_planVars PROVE PlanningInv'
    OBVIOUS
  <2>1. ASSUME NEW o \in ImportChoices, Choose(o) PROVE PlanningInv'
    BY <2>1, ChooseKeeps, ImportPlanningAssumption
  <2>2. ASSUME Choose(Defaults) PROVE PlanningInv'
    BY <2>2, ChooseKeeps, DefaultsAreOptions DEF PlanningInv
  <2> QED BY <2>1, <2>2, EditKeeps, CreateKeeps, PublishKeeps, StutterKeepsPlanning DEF PlanningNext
<1> QED BY <1>1, PlanningInitInv, PTL DEF PlanningSpec

-----------------------------------------------------------------------------
(* What follows *)

\* A summary is replaced only within the dates chosen and as far as the owner
\* allowed, no two in use overlap, and what had a summary has one, whatever the
\* export, the calendar and the history: service.py _create_periods and
\* planning.py _plan_periods agree.
THEOREM HistoryStaysWhole == PlanningSpec => []HistoryIsReplacedWhole
<1>1. PlanningInv => HistoryIsReplacedWhole
  <2> SUFFICES ASSUME PlanningInv PROVE HistoryIsReplacedWhole
    OBVIOUS
  <2>1. ASSUME planStep = "working", NEW p \in Pending, NEW d \in p.replaces
        PROVE  /\ options.replace /\ (d.edited => options.replaceEdited)
               /\ plan.archive.start <= d.start /\ d.end <= plan.archive.end
    BY <2>1, ReplacedAsPlanned
  <2>2. Apart(digests)
    BY DEF PlanningInv
  <2>3. ASSUME planStep = "done", edits = 0, NEW ts \in export,
               \E d \in planned : d.start <= ts /\ ts < d.end
        PROVE  Summarized(ts)
    BY <2>3 DEF PlanningInv, CoveredIn, Summarized
  <2> QED BY <2>1, <2>2, <2>3 DEF HistoryIsReplacedWhole
<1> QED BY <1>1, PlanningInvHolds, PTL

LEMMA PlanIs ==
    ASSUME PlanningInv, plan # NoPlan
    PROVE  /\ options \in Options /\ export \in Exports /\ bounds \in Bounds
           /\ plan.raw = RawPlan(options)
           /\ \/ Planned(plan.archive, planned, options)
              \/ plan.archive.periods = << >>
<1>1. options \in Options /\ plan = MakePlan(planned, options) /\ export \in Exports /\ bounds \in Bounds
  BY DEF PlanningInv
<1>2. plan.raw = RawPlan(options) /\ plan.archive = ArchivePlan(planned, options)
  BY <1>1, PlanFields
<1> QED BY <1>1, <1>2, ArchivePlanIs

LEMMA DatesAreCovered ==
    ASSUME PlanningInv
    PROVE  PeriodsCoverTheDates
<1> SUFFICES ASSUME plan # NoPlan PROVE PeriodsCoverTheDates
  BY DEF PeriodsCoverTheDates
<1>1. PICK a, ps, all : /\ a = plan.archive /\ ps = a.periods
                        /\ all = PlanPeriods(a.start, a.end, options.grouping)
  OBVIOUS
<1>2. CASE ps = << >>
  BY <1>1, <1>2 DEF PeriodsCoverTheDates
<1>3. CASE Planned(a, planned, options)
  <2>1. export \in Exports /\ options \in Options /\ options.regenerate \in BOOLEAN
        /\ options.grouping \in Groupings
    BY PlanIs, OptionTypes
  <2>2. /\ Partition(all, a.start, a.end)
        /\ options.grouping # "range" =>
              \A i \in DOMAIN all : all[i].end <= CalendarPeriod(all[i].start, options.grouping).end
    BY <1>1, <1>3, <2>1, PlannedPeriods DEF Planned
  <2>3. DOMAIN ps = DOMAIN all
    BY <1>1, <1>3 DEF Planned
  <2>4. ASSUME NEW i \in DOMAIN ps
        PROVE  ps[i].start = all[i].start /\ ps[i].end = all[i].end
    <3>1. ps[i] = PeriodPlan(planned, all[i], options)
      BY <1>1, <1>3, <2>3 DEF Planned
    <3>2. PICK p : p = all[i] /\ p.start \in Nat /\ p.end \in Nat
      BY <2>2, <2>3 DEF Partition, Inside
    <3>3. PeriodPlan(planned, p, options).start = p.start /\ PeriodPlan(planned, p, options).end = p.end
      BY <2>1, <3>2, PeriodPlanDates
    <3> QED BY <3>1, <3>2, <3>3
  <2>5. ASSUME NEW ts \in a.start .. a.end - 1
        PROVE  Cardinality({i \in DOMAIN ps : ps[i].start <= ts /\ ts < ps[i].end}) = 1
    <3>1. PICK k \in DOMAIN all : all[k].start <= ts /\ ts < all[k].end
      BY <2>2 DEF Partition
    <3>2. ASSUME NEW i \in DOMAIN ps, ps[i].start <= ts, ts < ps[i].end PROVE i = k
      <4>1. /\ all[i].start \in Nat /\ all[i].end \in Nat /\ all[k].start \in Nat /\ all[k].end \in Nat
            /\ i # k => all[i].end <= all[k].start \/ all[k].end <= all[i].start
        BY <2>2, <2>3 DEF Partition, Inside
      <4>2. ts \in Int
        BY <1>3 DEF Planned
      <4>3. all[i].start <= ts /\ ts < all[i].end
        BY <2>4, <3>2
      <4> QED BY <3>1, <4>1, <4>2, <4>3
    <3>3. {i \in DOMAIN ps : ps[i].start <= ts /\ ts < ps[i].end} = {k}
      BY <2>3, <2>4, <3>1, <3>2
    <3> QED BY <3>3, FS_Singleton
  <2>6. ASSUME NEW i \in DOMAIN ps
        PROVE  /\ a.start <= ps[i].start /\ ps[i].end <= a.end
               /\ options.grouping # "range" => ps[i].end <= CalendarPeriod(ps[i].start, options.grouping).end
    BY <2>2, <2>3, <2>4 DEF Partition, Inside
  <2> QED BY <1>1, <2>5, <2>6 DEF PeriodsCoverTheDates
<1> QED BY <1>1, <1>2, <1>3, PlanIs

LEMMA PreviewStaysTrue ==
    ASSUME PlanningInv
    PROVE  PreviewIsTrue
<1> SUFFICES ASSUME planStep = "working", digests = planned PROVE PreviewIsTrue
  BY DEF PreviewIsTrue
<1>1. PICK a, ps, all : /\ a = plan.archive /\ ps = a.periods
                        /\ all = PlanPeriods(a.start, a.end, options.grouping)
  OBVIOUS
<1>2. /\ options \in Options /\ export \in Exports
      /\ made = {PeriodMade(p, Frozen) : p \in Wanted}
  BY DEF PlanningInv
<1>3. ASSUME NEW m \in Pending, NEW d \in m.replaces PROVE d \in Replaced(ps)
  <2>1. PICK i \in DOMAIN ps, p \in Wanted : /\ m.replaces = Overlapping(digests, p)
                                             /\ ps[i].replaces = Overlapping(planned, p)
    BY <1>1, <1>3, ReplacedAsPlanned
  <2> QED BY <2>1 DEF Replaced
<1>4. ASSUME NEW i \in DOMAIN ps, ps[i].reuse
      PROVE  \E m \in made : m.status = "reused" /\ m.start = ps[i].start
  <2>1. plan # NoPlan
    BY DEF PlanningInv, NoPlan, MakePlan, ImportPlan
  <2>2. Planned(a, planned, options)
    BY <1>1, <2>1, PlanIs
  <2>3. i \in DOMAIN all /\ ps[i] = PeriodPlan(planned, all[i], options)
    BY <1>1, <2>2 DEF Planned
  <2>4. options.regenerate \in BOOLEAN /\ options.grouping \in Groupings
    BY <1>2, OptionTypes
  <2>5. Inside(all[i], a.start, a.end) /\ a.start \in Nat /\ a.end \in Nat
    BY <1>1, <2>2, <2>3, <2>4, PlannedPeriods DEF Planned, Partition
  <2>6. /\ ps[i].start = all[i].start /\ Count(all[i].start, all[i].end) > 0
        /\ ~options.regenerate /\ Same(planned, all[i], options.grouping, Content(all[i])) # {}
    <3>1. PICK p : p = all[i] /\ p.start \in Nat /\ p.end \in Nat
      BY <2>5 DEF Inside
    <3>2. PeriodPlan(planned, p, options).start = p.start
      BY <1>2, <2>4, <3>1, PeriodPlanDates
    <3>3. Count(p.start, p.end) > 0 /\ ~options.regenerate /\ Same(planned, p, options.grouping, Content(p)) # {}
      BY <1>2, <1>4, <2>3, <2>4, <3>1, PeriodPlanReuse
    <3> QED BY <2>3, <3>1, <3>2, <3>3
  <2>7. all[i] \in Wanted
    <3>1. PICK ts \in export : all[i].start <= ts /\ ts < all[i].end
      BY <1>2, <2>6, CountFacts DEF Between
    <3>2. ts \in Between(a.start, a.end)
      BY <1>2, <2>5, <3>1, ExportFacts DEF Between, Inside
    <3>3. a.count > 0 /\ options.archive
      BY <1>2, <2>2, <3>2, CountFacts DEF Planned
    <3> QED BY <1>1, <2>3, <2>6, <3>3 DEF Wanted, Frozen
  <2>8. PICK m \in made : m = PeriodMade(all[i], Frozen)
    BY <1>2, <2>7
  <2>9. m.status = "reused" /\ m.start = all[i].start
    BY <1>2, <2>6, <2>8, MadeIs
  <2> QED BY <2>6, <2>9
<1> QED BY <1>1, <1>3, <1>4 DEF PreviewIsTrue

LEMMA RawBoundaryIs ==
    ASSUME bounds \in Bounds
    PROVE  /\ RawBoundary \in Nat \cup {NoTime}
           /\ \A b \in {bounds.recording, bounds.firstLive} \ {NoTime} :
                 RawBoundary # NoTime /\ RawBoundary <= b
<1>1. PICK known : known = {bounds.recording, bounds.firstLive} \ {NoTime}
  OBVIOUS
<1>2. known \in SUBSET Nat
  BY <1>1 DEF Bounds
<1>3. CASE known = {}
  BY <1>1, <1>3 DEF RawBoundary
<1>4. CASE known # {}
  <2>1. Min(known) \in known /\ \A b \in known : Min(known) <= b
    BY <1>2, <1>4, LeastMoment
  <2>2. RawBoundary = Min(known)
    BY <1>1, <1>4 DEF RawBoundary
  <2> QED BY <1>1, <1>2, <2>1, <2>2
<1> QED BY <1>3, <1>4

LEMMA CountsAddUp ==
    ASSUME export \in Exports, NEW start \in Int, NEW end \in Int, NEW cut \in Int
    PROVE  Count(start, end) = Count(start, IF end <= cut THEN end ELSE cut)
                               + Count(IF start >= cut THEN start ELSE cut, end)
<1>1. PICK before \in Int, after \in Int :
         before = (IF end <= cut THEN end ELSE cut) /\ after = (IF start >= cut THEN start ELSE cut)
  OBVIOUS
<1>2. /\ IsFiniteSet(Between(start, before)) /\ IsFiniteSet(Between(after, end))
      /\ Count(start, before) \in Nat /\ Count(after, end) \in Nat
  BY CountFacts
<1>3. \A ts \in export : ts \in Int
  BY ExportFacts
<1>4. Between(start, end) = Between(start, before) \cup Between(after, end)
  BY <1>1, <1>3 DEF Between
<1>5. Between(start, before) \cap Between(after, end) = {}
  BY <1>1, <1>3 DEF Between
<1>6. Cardinality(Between(start, end))
        = Cardinality(Between(start, before)) + Cardinality(Between(after, end)) - 0
  BY <1>2, <1>4, <1>5, FS_Union, FS_EmptySet
<1> QED BY <1>1, <1>2, <1>6 DEF Count

LEMMA LiveChatStaysAlone ==
    ASSUME PlanningInv
    PROVE  LiveChatIsLeftAlone
<1> SUFFICES ASSUME plan # NoPlan PROVE LiveChatIsLeftAlone
  BY DEF LiveChatIsLeftAlone
<1>1. PICK o, r, a : o = options /\ r = RawPlan(o) /\ r = plan.raw /\ a = plan.archive
  BY PlanIs
<1>2. o \in Options /\ export \in Exports /\ bounds \in Bounds
  BY <1>1, PlanIs
<1>3. PICK s, end, boundary : s = Span(o.rawFrom, o.rawTo) /\ boundary = RawBoundary
                              /\ end = Clipped(s.end, boundary)
  OBVIOUS
<1>4. PICK chosen \in BOOLEAN : chosen <=> (o.raw /\ SpanChosen(o.rawFrom, o.rawTo))
  BY <1>2, OptionTypes
<1>5. /\ r.end = end
      /\ r.selected = IF chosen THEN Count(s.start, s.end) ELSE 0
      /\ r.eligible = IF chosen THEN Count(s.start, end) ELSE 0
      /\ r.live = IF chosen /\ boundary # NoTime THEN Count(Max({s.start, boundary}), s.end) ELSE 0
  <2>1. r.end = end
    BY <1>1, <1>3 DEF RawPlan
  <2>2. r.selected = IF chosen THEN Count(s.start, s.end) ELSE 0
    BY <1>1, <1>3, <1>4 DEF RawPlan
  <2>3. r.eligible = IF chosen THEN Count(s.start, end) ELSE 0
    BY <1>1, <1>3, <1>4 DEF RawPlan
  <2>4. r.live = IF chosen /\ boundary # NoTime THEN Count(Max({s.start, boundary}), s.end) ELSE 0
    BY <1>1, <1>3, <1>4 DEF RawPlan
  <2> QED BY <2>1, <2>2, <2>3, <2>4
<1>6. boundary \in Int /\ NoTime \in Int
  BY <1>2, <1>3, RawBoundaryIs, BoundaryType
<1>7. ASSUME chosen
      PROVE  /\ s.start \in Nat /\ s.end \in Nat /\ end \in Int
             /\ end = IF boundary = NoTime \/ s.end <= boundary THEN s.end ELSE boundary
  <2>1. s.start \in Nat /\ s.end \in Nat
    BY <1>2, <1>3, <1>4, <1>7, SpanFacts, OptionTypes
  <2> QED BY <1>3, <1>6, <2>1, ClippedIs
<1>8. ASSUME r.eligible > 0, NEW b \in {bounds.recording, bounds.firstLive} \ {NoTime}
      PROVE  r.end <= b
  <2>1. chosen
    BY <1>5, <1>8
  <2>2. boundary # NoTime /\ boundary <= b /\ b \in Int
    BY <1>2, <1>3, RawBoundaryIs DEF Bounds
  <2> QED BY <1>5, <1>6, <1>7, <2>1, <2>2
<1>9. r.selected = r.eligible + r.live
  <2>1. CASE ~chosen
    BY <1>5, <2>1
  <2>2. CASE chosen /\ boundary = NoTime
    BY <1>2, <1>5, <1>7, <2>2, CountFacts
  <2>3. CASE chosen /\ boundary # NoTime
    <3>1. Max({s.start, boundary}) = IF s.start >= boundary THEN s.start ELSE boundary
      BY <1>6, <1>7, <2>3, MaxPair
    <3>2. end = IF s.end <= boundary THEN s.end ELSE boundary
      BY <1>7, <2>3
    <3>3. s.start \in Int /\ s.end \in Int
      BY <1>7, <2>3
    <3>4. Count(s.start, s.end) = Count(s.start, end) + Count(Max({s.start, boundary}), s.end)
      BY <1>2, <1>6, <3>1, <3>2, <3>3, CountsAddUp
    <3> QED BY <1>5, <2>3, <3>4
  <2> QED BY <2>1, <2>2, <2>3
<1>10. ASSUME Boundary # NoTime, NEW i \in DOMAIN a.periods PROVE a.periods[i].end <= Boundary
  <2>1. Planned(a, planned, o)
    BY <1>1, PlanIs
  <2>2. a.periods[i].end <= a.end /\ a.periods[i].end \in Int
    <3>1. PICK all : all = PlanPeriods(a.start, a.end, o.grouping)
      OBVIOUS
    <3>2. i \in DOMAIN all /\ a.periods[i] = PeriodPlan(planned, all[i], o)
      BY <2>1, <3>1 DEF Planned
    <3>3. o.regenerate \in BOOLEAN /\ o.grouping \in Groupings
      BY <1>2, OptionTypes
    <3>4. Inside(all[i], a.start, a.end)
      BY <2>1, <3>1, <3>2, <3>3, PlannedPeriods DEF Planned, Partition
    <3>5. a.periods[i].end = all[i].end
      BY <1>2, <3>2, <3>3, <3>4, PeriodPlanDates DEF Inside
    <3> QED BY <3>4, <3>5 DEF Inside
  <2> QED BY <1>2, <1>10, <2>1, <2>2, BoundaryType DEF Planned
<1> QED BY <1>1, <1>8, <1>9, <1>10 DEF LiveChatIsLeftAlone

\* The periods of a plan are its dates, each moment in one of them; the job
\* does what the preview showed unless the history changed; live chat is
\* neither doubled nor summarized (planning.py make_plan, service.py
\* _create_periods).
THEOREM PlansStayTrue == PlanningSpec => []PlanIsTrue
<1>1. PlanningInv => PlanIsTrue
  BY DatesAreCovered, PreviewStaysTrue, LiveChatStaysAlone DEF PlanIsTrue, PlanningInv
<1> QED BY <1>1, PlanningInvHolds, PTL
=============================================================================
