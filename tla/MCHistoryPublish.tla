-------------------------- MODULE MCHistoryPublish --------------------------
(***************************************************************************)
(* Small instances for TLC of the two ways summaries of the past are made, *)
(* by an import and of live chat.  They are of different dates and share   *)
(* no state; a behaviour is one of them, so that one run checks both.      *)
(***************************************************************************)
EXTENDS HistoryPublish, LiveArchive

CONSTANTS january, february, march  \* model values

\* The import: older months and new weeks, the second in two months
MCNewSpan == <<{1, 2}, {3, 4}, {5}>>

MCOldSpan == [o \in Olds |->
    CASE o = january -> {1, 2, 3} [] o = february -> {4} [] o = march -> {5}]

\* Live chat: three messages in the first month, one in the second
MCFirstOf == <<1, 4, 5>>

VARIABLE part

history == <<part, vars, archiveVars>>
Importer(A) == part = "import" /\ A /\ UNCHANGED <<part, archiveVars>>
Archiver(A) == part = "live" /\ A /\ UNCHANGED <<part, vars>>

HistoryInit == Init /\ ArchiveInit /\ part \in {"import", "live"}

HistorySpec ==
    /\ HistoryInit
    /\ [][Importer(Next) \/ Archiver(ArchiveNext)]_history
    /\ WF_history(Archiver(GoesOnWorking))
=============================================================================
