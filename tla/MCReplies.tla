------------------------------ MODULE MCReplies -------------------------------
(***************************************************************************)
(* Small instances for TLC of a request on its way to the answer (Replies) *)
(* and of the messages the model reads for it (Transcript).  They share no *)
(* state; a behaviour is one of the two, so that one run checks both.      *)
(***************************************************************************)
EXTENDS Replies, Transcript, TLC

CONSTANTS t1, t2

ACatchUp == [t \in Triggers |-> IF t = t1 THEN "banter" ELSE "catchup"]
R(text, calls) == [text |-> text, calls |-> calls]
Answers == {R(None, << >>), R("claim", << >>), R("json", << >>), R(None, <<"read">>),
            R("answer", <<"act", "board">>), R(None, <<"pin", "poll">>),
            R(None, <<"read", "use_skill">>)}

\* Three live messages, two replies to the first; an export of two messages,
\* the second of which replies to the first, imported whole and in part.
DateOf == 1 :> 3 @@ 2 :> 3 @@ 3 :> 4 @@ 11 :> 1 @@ 12 :> 2
TargetOf == 1 :> Nothing @@ 2 :> 1 @@ 3 :> 1 @@ 11 :> Nothing @@ 12 :> 11
AllOrSome == 1 :> {1, 2} @@ 2 :> {1}

VARIABLE part
conversation == <<part, vars, transcriptVars>>

ConversationInit == Init /\ TranscriptInit /\ part \in {"replies", "transcript"}
Talk(A) == part = "replies" /\ A /\ UNCHANGED <<part, transcriptVars>>
ConversationNext ==
    \/ Talk(Next)
    \/ part = "transcript" /\ TranscriptNext /\ UNCHANGED <<part, vars>>

ConversationSpec == ConversationInit /\ [][ConversationNext]_conversation

\* Fairness, of the part at hand
FairConversation ==
    /\ ConversationSpec
    /\ \A t \in Triggers :
        /\ WF_conversation(Talk(Starts(t)))
        /\ WF_conversation(Talk(ModelAnswers(t) \/ ToolPosts(t) \/ RunFails(t)))
        /\ WF_conversation(Talk(PlaceholderSent(t)))
        /\ WF_conversation(Talk(StageEdited(t)))
        /\ WF_conversation(Talk(\/ Settles(t) \/ ShowsError(t) \/ SaysSorry(t) \/ Sends(t)
                                   \/ Discards(t) \/ DeliversPrivately(t)))
=============================================================================
