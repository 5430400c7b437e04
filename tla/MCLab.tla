------------------------------- MODULE MCLab -------------------------------
(***************************************************************************)
(* Small instances for TLC of the prompt lab: what a run knows and the     *)
(* owner chooses (LabChoices, with LabEvidence), what goes into the live   *)
(* settings (LabActivation, with Settings), and how an attempt plays its   *)
(* scenario (LabSandbox, with LabScenario).  They share no state; a        *)
(* behaviour is of one of the three, and of the first it is about one of   *)
(* the things a run is used for: choices, a validation set, the            *)
(* differences a report states, judging.                                   *)
(***************************************************************************)
EXTENDS LabChoices, LabActivation, LabSandbox, TLC

VARIABLE part   \* bound: what a behaviour is about
allLab == <<part, labVars, activationVars, sandboxVars>>

-----------------------------------------------------------------------------
(* The live settings: a prompt and a model; the newer code has another     *)
(* default for the prompt and does not take its old one.                   *)

CONSTANTS r1, r2  \* model values

MCKeys == {"prompt", "model"}
MCSeed == "prompt" :> 1
MCDefault == (0 :> [prompt |-> 0, model |-> 0]) @@ (1 :> [prompt |-> 1, model |-> 0])
MCAccepts == (0 :> [prompt |-> {0, 1}, model |-> {0, 1}])
          @@ (1 :> [prompt |-> {1}, model |-> {0, 1}])

Symmetry == Permutations(Runs)

-----------------------------------------------------------------------------
(* What a run knows *)

R(o, said, model) == [outcome |-> o, answers |-> said, model |-> model]
ForChoices == {R("pass", <<"x", "x">>, "m1"), R("pass", <<"y", "x">>, "m1"), R("pass", <<"x", "y">>, "m2")}
ForReport == {R(o, <<"x">>, "m1") : o \in Outcomes}
MCResults == ForChoices \cup ForReport
MCRubrics == {{"k1"}, {"k1", "k2"}}

NoChoices == comparisons = << >> /\ told = {}
NoSet == ~validation.made
NoJudging == rubrics = << >>
Unread == now = 0 /\ \A s \in Slugs : readAt.detail[s] = NoTime /\ readAt.overview[s] = NoTime
OnlyOf(results) == \A i \in Done : attempts[i].result \in results
OnTheirOwn == \A i \in DOMAIN attempts : attempts[i].continues = 0
OnlyPasses == OnlyOf({r \in ForReport : r.outcome = "pass"})
OneQueued == Cardinality({i \in AttemptIds : attempts[i].status = "queued"}) <= 1
InOrder == \A c \in DOMAIN comparisons :
              /\ comparisons[c].mapping.A < comparisons[c].mapping.B
              /\ comparisons[c].choices \in {<< >>, <<"B">>}
                     \cup (IF c = 1 THEN {<<"skip">>, <<"skip", "B">>} ELSE {})

\* Bounds of each part; the first scenario has the first name, the second name
\* one body, and one attempt waits at a time.
Fits ==
    /\ scenarios # << >> => scenarios[1].slug = 1 /\ scenarios[1].body = "b1"
    /\ \A i \in DOMAIN scenarios : scenarios[i].slug = 2 => scenarios[i].body = "b1"
    /\ OneQueued
    /\ part = "choices" => NoSet /\ NoJudging /\ Unread /\ OnlyOf(ForChoices)
                            /\ madeAt = << >> /\ runStatus # "deleted"
                            /\ (1 \in Done => attempts[1].result = R("pass", <<"x", "x">>, "m1"))
                            /\ InOrder /\ \A i \in DOMAIN scenarios : scenarios[i].slug = 1
                            /\ Len(attempts) + Len(scenarios) <= 4
    /\ part = "validation" => NoChoices /\ NoJudging /\ OnTheirOwn /\ OnlyPasses
                               /\ Len(attempts) <= 2 /\ runStatus = "active"
                               /\ readAt.overview[2] = NoTime
                               /\ \A i \in DOMAIN attempts : attempts[i].candidate \in {Baseline, i}
    /\ part = "report" => NoChoices /\ NoSet /\ NoJudging /\ Unread /\ OnlyOf(ForReport)
                           /\ Len(madeAt) <= 1
    /\ part = "judging" => NoChoices /\ NoSet /\ Unread /\ OnlyPasses /\ OnTheirOwn
                            /\ madeAt = << >> /\ Len(attempts) <= 1


-----------------------------------------------------------------------------
(* What a sandbox plays *)

Said == [id |-> 0, date |-> 0, bot |-> FALSE, to |-> 0]
SaidByBot == [Said EXCEPT !.bot = TRUE]
AtId(m, id) == [m EXCEPT !.id = id]
At(m, date) == [m EXCEPT !.date = date]

Turn == [id |-> 0, date |-> 0, bot |-> FALSE, to |-> 0, after |-> 0, answer |-> FALSE,
         mention |-> TRUE, command |-> "", before |-> << >>, expect |-> {}]
Command(name) == [Turn EXCEPT !.command = name, !.mention = FALSE]
Answering == [Turn EXCEPT !.answer = TRUE, !.mention = FALSE]
Expecting(t, what) == [t EXCEPT !.expect = what]

Plain == [time |-> 0, messages |-> <<Said>>, turns |-> <<Turn>>, reminders |-> {},
          requires |-> {}, simulate |-> "works", continues |-> FALSE]

\* Second turns: at once, after a while with chat before it, a reply, a
\* command, and one the bot should leave alone.
Later2 == {Turn, [Turn EXCEPT !.after = 6, !.before = <<Said, Said>>],
           Expecting(Answering, {"tool"}),
           Expecting(Command("summary"), {"answers"}),
           Expecting([Turn EXCEPT !.mention = FALSE], {"silence"})}
FirstTurns == {Expecting(Turn, {"answers"}), Expecting(Turn, {"no_reply"}), Expecting(Turn, {"text"}), Command("catchup"),
               Command("usage"), [Turn EXCEPT !.mention = FALSE, !.to = 20]}

MCScenarios ==
    {[Plain EXCEPT !.turns = <<t, u>>, !.messages = <<Said, AtId(SaidByBot, 20)>>] :
        t \in FirstTurns, u \in Later2}
    \cup {[Plain EXCEPT !.turns = <<Command("catchup"), u>>, !.messages = << >>] : u \in Later2}
    \cup {[Plain EXCEPT !.turns = <<t, u>>, !.simulate = "error"] :
             t \in {Expecting(Turn, {"answers"}), Command("usage")}, u \in Later2}
    \cup {[Plain EXCEPT !.turns = <<Turn, Expecting(Turn, {"none pending"})>>, !.reminders = rs,
                        !.simulate = f] :
             rs \in {{9, 12}, {11, 14}}, f \in {"works", "forbidden", "timeout"}}
    \cup {[Plain EXCEPT !.turns[1] = t, !.requires = {q}] :
             q \in {"vision", "web_search"}, t \in {Turn, Expecting(Turn, {"answers"})}}
    \cup {[Plain EXCEPT !.time = 12, !.messages = m] : m \in {<<At(Said, 15)>>, <<Said, Said>>}}
    \cup {[Plain EXCEPT !.turns = <<At(Turn, 15), At(Turn, d)>>] : d \in {14, 16}}

MCContinuations ==
    {[Plain EXCEPT !.continues = TRUE, !.turns = <<t>>, !.messages = m] :
        t \in {Expecting(Answering, {"answers"}), Command("catchup")},
        m \in {<< >>, <<Said, SaidByBot>>}}
    \cup {[Plain EXCEPT !.continues = TRUE, !.turns = <<Turn>>, !.time = 14],
          [Plain EXCEPT !.continues = TRUE, !.turns = <<AtId(Turn, 20)>>]}

MCAnswers ==
    {[how |-> h, fits |-> s = 0, needed |-> n, sets |-> s, blind |-> FALSE, lacking |-> l] :
        h \in Hows, n \in {"done", "failed", "not called"}, s \in {0, 3}, l \in {FALSE}}
    \cup {[how |-> "answer", fits |-> TRUE, needed |-> "not called", sets |-> 0, blind |-> b, lacking |-> ~b] :
             b \in BOOLEAN}

-----------------------------------------------------------------------------

Uses == {"choices", "validation", "report", "judging"}

LabInit == part \in Uses \cup {"settings", "sandbox"} /\ ChoicesInit /\ ActivationInit /\ SandboxInit
Plays == part = "sandbox" /\ SandboxNext /\ UNCHANGED <<part, labVars, activationVars>>
Live == part = "settings" /\ ActivationNext /\ UNCHANGED <<part, labVars, sandboxVars>>
Knows == part \in Uses /\ UNCHANGED <<part, activationVars, sandboxVars>> /\ LabNext /\ Fits'

AllOfLab == LabInit /\ [][Plays \/ Live \/ Knows]_allLab
=============================================================================
