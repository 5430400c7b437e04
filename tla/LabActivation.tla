--------------------------- MODULE LabActivation ----------------------------
(***************************************************************************)
(* The prompt lab's hold on the live settings (naruto/lab/activation.py,   *)
(* with the runs and candidates of lab/service.py and lab/config.py): runs *)
(* snapshot the settings, candidates change some, an activation puts a     *)
(* candidate into the live settings and a revert takes it out again, while *)
(* the owner uses the Settings page and restarts bring other defaults.     *)
(*                                                                         *)
(* Who may do what (tokens, the run's policy) only takes steps away and is *)
(* left out, with the end of a run; LabBatches has the attempts.           *)
(***************************************************************************)
EXTENDS Settings, Sequences

CONSTANTS Runs,           \* bound: the runs that may be started
          Tunable,        \* tunable_keys() of their scope
          ModelKeys,      \* model.endpoint_url and model.name
          MaxCandidates,  \* bound: candidates of a run
          MaxActivations  \* bound

ASSUME ActivationAssumption ==
    /\ Tunable \subseteq Keys /\ ModelKeys \subseteq Keys
    /\ Tunable \cap ModelKeys = {}
    /\ MaxCandidates \in Nat /\ MaxActivations \in Nat

NoRun == << >>

VARIABLES
    labRuns,
    candidates,  \* lab_candidates of each run
    activations  \* lab_activations

lab == <<labRuns, candidates, activations>>
activationVars == <<settings, lab>>

\* The settings the lab may change
Scope == Tunable \cup ModelKeys
Changes(scope) == UNION {[K -> Values] : K \in SUBSET scope}
Candidate == [parent : 0 .. MaxCandidates, changes : Changes(Tunable)]
Activation == [applied : Changes(Scope), previous : Changes(Scope), reverted : BOOLEAN]

ActivationTypeOK ==
    /\ SettingsTypeOK
    /\ labRuns \in [Runs -> {NoRun} \cup
                      [baseline : [Keys -> Values], model : [ModelKeys -> Values]]]
    /\ candidates \in [Runs -> Seq(Candidate)]
    /\ \A r \in Runs : Len(candidates[r]) <= MaxCandidates
    /\ activations \in Seq(Activation)
    /\ \A i \in DOMAIN activations : DOMAIN activations[i].applied = DOMAIN activations[i].previous

ActivationInit ==
    /\ SettingsInit
    /\ labRuns = [r \in Runs |-> NoRun]
    /\ candidates = [r \in Runs |-> << >>]
    /\ activations = << >>

-----------------------------------------------------------------------------
(* Runs and candidates *)

\* start_run(): a snapshot of the settings, and a model of the configured
\* servers.
StartRun(r) ==
    /\ Up /\ labRuns[r] = NoRun
    /\ \E model \in [ModelKeys -> Values] :
          labRuns' = [labRuns EXCEPT ![r] = [baseline |-> live, model |-> model]]
    /\ UNCHANGED <<settings, candidates, activations>>

\* chain() and config.effective(): the baseline, the changes from the root
\* candidate down, and the run's model.
Effective(r, c) ==
    LET values[n \in 0 .. Len(candidates[r])] ==
            IF n = 0 THEN labRuns[r].baseline
            ELSE Over(candidates[r][n].changes, values[candidates[r][n].parent])
    IN  Over(labRuns[r].model, values[c])

\* add_candidate(): valid changes within the scope that its parent has not.
AddCandidate(r) ==
    /\ Up /\ labRuns[r] # NoRun /\ Len(candidates[r]) < MaxCandidates
    /\ \E parent \in 0 .. Len(candidates[r]), K \in SUBSET Tunable \ {{}} :
          \E changed \in [K -> Values] :
             /\ \A k \in K : Valid(k, changed[k]) /\ changed[k] # Effective(r, parent)[k]
             /\ candidates' = [candidates EXCEPT ![r] =
                                  Append(@, [parent |-> parent, changes |-> changed])]
    /\ UNCHANGED <<settings, labRuns, activations>>

-----------------------------------------------------------------------------
(* Activation *)

\* plan(): what activating a candidate would change.
Apply(r, c, mode) ==
    LET values == Effective(r, c)
        wanted == IF mode = "full" THEN Scope
                  ELSE {k \in Scope : values[k] # labRuns[r].baseline[k]}
    IN  [k \in {k \in wanted : live[k] # values[k]} |-> values[k]]

\* plan(): of these, what somebody else has changed since the run started.
Conflicts(r, c, mode) ==
    {k \in DOMAIN Apply(r, c, mode) : mode = "changes" /\ live[k] # labRuns[r].baseline[k]}

\* What an activation records as replaced.
Replaced(r, apply) == [k \in DOMAIN apply |-> live[k]]

\* activate().  The settings are stored before the activation is: a failure in
\* between leaves them without it.  Drift is acknowledged or there is none.
Activate(r, c, mode) ==
    LET apply == Apply(r, c, mode)
        record == [applied |-> apply, previous |-> Replaced(r, apply), reverted |-> FALSE]
    IN  /\ Up /\ labRuns[r] # NoRun /\ c \in 0 .. Len(candidates[r])
        /\ c = 0 => mode = "full"
        /\ apply # << >> /\ Conflicts(r, c, mode) = {}
        /\ Len(activations) < MaxActivations
        /\ SetMany(apply)
        /\ \/ activations' = Append(activations, record) /\ UNCHANGED others
           \/ others' = others \cup DOMAIN apply /\ UNCHANGED activations
        /\ UNCHANGED <<version, seeded, toSeed, first, changes, labRuns, candidates>>

\* Mutant: an activation is reverted although a setting changed since.
AnyLive(i) == TRUE

\* revert() refuses when one of its settings is not as it was activated.
StillApplied(i) ==
    \A k \in DOMAIN activations[i].applied : live[k] = activations[i].applied[k]

\* revert(), with the same gap between its two writes.
Revert(i) ==
    /\ Up /\ ~activations[i].reverted
    /\ StillApplied(i)
    /\ SetMany(activations[i].previous)
    /\ \/ activations' = [activations EXCEPT ![i].reverted = TRUE] /\ UNCHANGED others
       \/ others' = others \cup DOMAIN activations[i].previous /\ UNCHANGED activations
    /\ UNCHANGED <<version, seeded, toSeed, first, changes, labRuns, candidates>>

ActivationNext ==
    \/ \E k \in DOMAIN Seed : SeedOne(k) /\ UNCHANGED lab
    \/ PageNext /\ UNCHANGED lab
    \/ RestartSettings /\ UNCHANGED lab
    \/ \E r \in Runs : StartRun(r) \/ AddCandidate(r)
    \/ \E r \in Runs, c \in 0 .. MaxCandidates, mode \in {"changes", "full"} :
          Activate(r, c, mode)
    \/ \E i \in DOMAIN activations : Revert(i)

ActivationSpec == ActivationInit /\ [][ActivationNext]_activationVars

-----------------------------------------------------------------------------
(* Correctness *)

\* What an activation that is not reverted has added to a setting.
Added(a, k) ==
    IF ~a.reverted /\ k \in DOMAIN a.applied THEN a.applied[k] - a.previous[k] ELSE 0

SumOf(t) ==
    LET sum[n \in 0 .. Len(t)] == IF n = 0 THEN 0 ELSE sum[n - 1] + t[n]
    IN  sum[Len(t)]
Shift(k) == SumOf([i \in 1 .. Len(activations) |-> Added(activations[i], k)])

\* "It can be reverted": a setting nobody else has changed, and whose every
\* activation and revert was recorded, is what the open activations, in
\* whatever order they were made and reverted, make of its first value; with
\* all of them reverted it is as it was before the lab.
RevertsAddUp ==
    Up => \A k \in Keys \ others : live[k] = first[k] + Shift(k)

\* The live settings are explained by the history of their changes, which
\* activations and reverts add up to.
LiveSettingsAreExplained ==
    ActivationTypeOK /\ LiveIsExplained /\ SeedComesFirst /\ RevertsAddUp
=============================================================================
