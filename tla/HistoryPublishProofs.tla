------------------------ MODULE HistoryPublishProofs ------------------------
(***************************************************************************)
(* Proofs about HistoryPublish and LiveArchive.                            *)
(*                                                                         *)
(* For any periods, older summaries and dates of both: no date has two     *)
(* summaries, older summaries give way as a whole and never against the    *)
(* owner's edits, and an import that is done has published all it made.    *)
(* A handler publishes up to twice and may die in between.  So what has to *)
(* be kept is stated of any rows rs and older summaries os (Good), and     *)
(* what may happen to them as a relation that is transitive (Keeps).       *)
(*                                                                         *)
(* For any months, messages, settings and bounds, of live chat: a month's  *)
(* summary is made once and of everything its work began with.  For it,    *)
(* what was saved of a month is the beginning of what its work has read,   *)
(* and the month's row counts what failed (ArchiveInv).                    *)
(***************************************************************************)
EXTENDS HistoryPublish, LiveArchive, FiniteSetTheorems, SequenceTheorems,
        WellFoundedInduction, TLAPS

\* A set of natural numbers that is not empty has a least element.
LEMMA LeastNat ==
    ASSUME NEW S \in SUBSET Nat, S # {}
    PROVE  \E m \in S : \A n \in S : m <= n
<1>1. PICK m \in S : \A n \in S : <<n, m>> \notin OpToRel(<, Nat)
  BY NatLessThanWellFounded, WFMin
<1>2. \A n \in S : ~(n < m)
  BY <1>1 DEF OpToRel
<1> QED BY <1>2

-----------------------------------------------------------------------------
(* Groups *)

LEMMA ShareSymmetric ==
    ASSUME NEW rs, NEW p, NEW q
    PROVE  Share(rs, p, q) <=> Share(rs, q, p)
BY DEF Share

\* A group is of candidates, has its first, and shares with no other candidate.
LEMMA GroupFacts ==
    ASSUME NEW rs, NEW p \in Candidates(rs)
    PROVE  /\ p \in Group(p, rs)
           /\ Group(p, rs) \subseteq Candidates(rs)
           /\ \A q \in Group(p, rs), r \in Candidates(rs) :
                  Share(rs, q, r) => r \in Group(p, rs)
BY DEF Group

\* It is in every set of candidates that has p and shares with no other.
LEMMA GroupIsLeast ==
    ASSUME NEW rs, NEW p, NEW S \in SUBSET Candidates(rs), p \in S,
           \A q \in S, r \in Candidates(rs) \ S : ~Share(rs, q, r)
    PROVE  Group(p, rs) \subseteq S
BY DEF Group

\* Whoever is in a group has the same group.
LEMMA GroupsAgree ==
    ASSUME NEW rs, NEW p \in Candidates(rs), NEW q \in Group(p, rs)
    PROVE  Group(q, rs) = Group(p, rs)
<1>1. q \in Candidates(rs)
  BY GroupFacts
<1>2. Group(q, rs) \subseteq Group(p, rs)
  BY GroupFacts, GroupIsLeast
<1>3. p \in Group(q, rs)
  <2> SUFFICES ASSUME p \notin Group(q, rs) PROVE FALSE
    OBVIOUS
  <2> DEFINE Others == Candidates(rs) \ Group(q, rs)
  <2>1. \A x \in Others, r \in Candidates(rs) \ Others : ~Share(rs, x, r)
    BY <1>1, GroupFacts, ShareSymmetric
  <2>2. Group(p, rs) \subseteq Others
    BY <2>1, GroupIsLeast
  <2> QED BY <1>1, <2>2, GroupFacts
<1>4. Group(p, rs) \subseteq Group(q, rs)
  BY <1>1, <1>3, GroupFacts, GroupIsLeast
<1> QED BY <1>2, <1>4

LEMMA OutcomesAgree ==
    ASSUME NEW rs, NEW os, NEW p \in Candidates(rs), NEW q \in Group(p, rs)
    PROVE  /\ q \in Candidates(rs) /\ Group(q, rs) = Group(p, rs)
           /\ OutcomeFor(q, rs, os) = OutcomeFor(p, rs, os)
<1>1. q \in Candidates(rs) /\ Group(q, rs) = Group(p, rs)
  BY GroupFacts, GroupsAgree
<1> QED BY <1>1 DEF OutcomeFor

\* What the outcomes say of a candidate, and of its group.
LEMMA Outcomes ==
    ASSUME NEW rs, NEW os, NEW p \in Candidates(rs)
    PROVE  LET G == Group(p, rs)
               outcome == OutcomeFor(p, rs, os)
           IN  /\ outcome \in {"not ready", "already published", "incomplete", "kept edited",
                               "published"}
               /\ outcome = "not ready" <=> \E q \in G : rs[q].status # "done"
               /\ outcome = "already published" =>
                      \A q \in G : rs[q].status = "done" /\ Found(rs[q]) = "active"
               /\ outcome = "incomplete" => rs[p].status = "done"
               /\ outcome \in {"published", "kept edited"} =>
                      \A q \in G : rs[q].status = "done" /\ Found(rs[q]) = "staged"
               /\ outcome = "published" => ~KeepsEdited(G, rs, os)
<1> DEFINE G == Group(p, rs)
<1>1. p \in G
  BY GroupFacts
<1>2. OutcomeFor(p, rs, os) = Outcome(G, rs, os)
  BY DEF OutcomeFor
<1> HIDE DEF G
<1>3. CASE \E q \in G : rs[q].status # "done"
  <2>1. Outcome(G, rs, os) = "not ready"
    BY <1>3 DEF Outcome
  <2> QED BY <1>2, <1>3, <2>1 DEF G
<1>4. CASE (\A q \in G : rs[q].status = "done") /\ \A q \in G : Found(rs[q]) = "active"
  <2>1. Outcome(G, rs, os) = "already published"
    BY <1>4 DEF Outcome
  <2> QED BY <1>2, <1>4, <2>1 DEF G
<1>5. CASE /\ \A q \in G : rs[q].status = "done"
           /\ ~\A q \in G : Found(rs[q]) = "active"
           /\ \E q \in G : Found(rs[q]) # "staged"
  <2>1. Outcome(G, rs, os) = "incomplete"
    BY <1>5 DEF Outcome
  <2> QED BY <1>1, <1>2, <1>5, <2>1 DEF G
<1>6. CASE /\ \A q \in G : rs[q].status = "done"
           /\ ~\A q \in G : Found(rs[q]) = "active"
           /\ \A q \in G : Found(rs[q]) = "staged"
           /\ KeepsEdited(G, rs, os)
  <2>1. Outcome(G, rs, os) = "kept edited"
    BY <1>6 DEF Outcome
  <2> QED BY <1>2, <1>6, <2>1 DEF G
<1>7. CASE /\ \A q \in G : rs[q].status = "done"
           /\ ~\A q \in G : Found(rs[q]) = "active"
           /\ \A q \in G : Found(rs[q]) = "staged"
           /\ ~KeepsEdited(G, rs, os)
  <2>1. Outcome(G, rs, os) = "published"
    BY <1>7 DEF Outcome
  <2> QED BY <1>2, <1>7, <2>1 DEF G
<1> QED BY <1>3, <1>4, <1>5, <1>6, <1>7

\* What is incomplete has a member without a summary that is staged.
LEMMA IncompleteGroup ==
    ASSUME NEW rs, NEW os, NEW p \in Candidates(rs), OutcomeFor(p, rs, os) = "incomplete"
    PROVE  \E q \in Group(p, rs) : rs[q].status = "done" /\ Found(rs[q]) # "staged"
<1>1. Outcome(Group(p, rs), rs, os) = "incomplete"
  BY DEF OutcomeFor
<1> QED BY <1>1 DEF Outcome

-----------------------------------------------------------------------------
(* Rows that may be published *)

Overlap(p, o) == NewSpan[p] \cap OldSpan[o] # {}

\* No date has a new and an older summary in use.
OneEach(rs, os) ==
    \A p \in Periods, o \in Olds :
        rs[p].summary = "active" /\ os[o] = "active" => ~Overlap(p, o)

\* What is to be summarized replaces all that is in its way.
Covered(rs, os) ==
    \A p \in Periods, o \in Olds :
        /\ rs[p].status \in {"waiting", "running", "done", "failed"}
        /\ os[o] = "active" /\ Overlap(p, o)
        => o \in rs[p].replaces

\* What has nothing to be made has made nothing; what is staged replaces some.
Made(rs) ==
    \A p \in Periods :
        /\ rs[p].status \in {"absent", "reused"} =>
               rs[p].summary = "none" /\ rs[p].replaces = {}
        /\ rs[p].summary = "staged" => rs[p].replaces # {}

\* A group is cancelled as a whole, with what it staged.
Together(rs) ==
    /\ \A p, q \in Periods :
           rs[p].status = "cancelled" /\ Share(rs, p, q) => rs[q].status = "cancelled"
    /\ \A p \in Periods : rs[p].summary = "staged" => rs[p].status # "cancelled"

Typed(rs, os) ==
    rs \in [Periods -> Row] /\ os \in [Olds -> {"active", "replaced", "deleted"}]

Sound(rs, os) == Typed(rs, os) /\ OneEach(rs, os) /\ Covered(rs, os) /\ Made(rs)

Good(rs, os) == Sound(rs, os) /\ Together(rs)

\* What becomes of rows and older summaries in a step: an older summary gives
\* way if all that replace it are in use, and not against the owner's edits;
\* what is in use stays so.
Keeps(rs, os, rs2, os2) ==
    /\ \A q \in Periods :
           /\ rs2[q].replaces = rs[q].replaces
           /\ rs[q].summary = "active" => rs2[q].summary = "active"
    /\ \A o \in Olds :
           \/ os2[o] = os[o]
           \/ /\ os[o] = "active" /\ os2[o] = "replaced"
              /\ ~replaceEdited => o \notin edited
              /\ \A q \in Periods : o \in rs2[q].replaces => rs2[q].summary = "active"

LEMMA KeepsSelf == ASSUME NEW rs, NEW os PROVE Keeps(rs, os, rs, os)
BY DEF Keeps

LEMMA KeepsOn ==
    ASSUME NEW rs, NEW os, NEW rs2, NEW os2, NEW rs3, NEW os3,
           Keeps(rs, os, rs2, os2), Keeps(rs2, os2, rs3, os3)
    PROVE  Keeps(rs, os, rs3, os3)
<1>1. ASSUME NEW q \in Periods
      PROVE  /\ rs3[q].replaces = rs[q].replaces /\ rs3[q].replaces = rs2[q].replaces
             /\ rs[q].summary = "active" => rs3[q].summary = "active"
             /\ rs2[q].summary = "active" => rs3[q].summary = "active"
  BY DEF Keeps
<1>2. ASSUME NEW o \in Olds
      PROVE  \/ os3[o] = os[o]
             \/ /\ os[o] = "active" /\ os3[o] = "replaced"
                /\ ~replaceEdited => o \notin edited
                /\ \A q \in Periods : o \in rs3[q].replaces => rs3[q].summary = "active"
  <2>1. CASE os2[o] = os[o]
    BY <2>1 DEF Keeps
  <2>2. CASE os2[o] # os[o]
    <3>1. /\ os[o] = "active" /\ os2[o] = "replaced"
          /\ ~replaceEdited => o \notin edited
          /\ \A q \in Periods : o \in rs2[q].replaces => rs2[q].summary = "active"
      BY <2>2 DEF Keeps
    <3>2. os3[o] = "replaced"
      BY <3>1 DEF Keeps
    <3> QED BY <1>1, <3>1, <3>2
  <2> QED BY <2>1, <2>2
<1> QED BY <1>1, <1>2 DEF Keeps

-----------------------------------------------------------------------------
(* Publishing *)

\* What it makes of a row.
RowPublished(rs, os, H, p) ==
    LET new == Publish(rs, os, H)[p]
        outcome == OutcomeFor(p, rs, os)
    IN  /\ Publish(rs, os, H) \in [Periods -> Row]
        /\ new.replaces = rs[p].replaces
        /\ \/ new = rs[p]
           \/ /\ p \in H /\ p \in Candidates(rs) /\ outcome = "published"
              /\ new.summary = "active" /\ new.status = rs[p].status
              /\ new.linked = rs[p].linked
           \/ /\ p \in H /\ p \in Candidates(rs) /\ outcome = "kept edited"
              /\ new.summary = "none" /\ new.status = "cancelled"
              /\ rs[p].summary = "staged"
           \/ /\ p \in H /\ p \in Candidates(rs) /\ outcome = "incomplete"
              /\ rs[p].status = "done" /\ new.status = "waiting"
              /\ new.summary = rs[p].summary
        /\ p \in H /\ outcome = "published" => new.summary = "active"
        /\ p \in H /\ outcome = "kept edited" => new.status = "cancelled"
        /\ p \in H /\ outcome = "incomplete" /\ Found(rs[p]) # "staged" =>
               new.status = "waiting"
        /\ outcome \in {"not ready", "already published"} => new = rs[p]

LEMMA PublishedRow ==
    ASSUME NEW rs \in [Periods -> Row], NEW os, NEW H \in SUBSET Periods, NEW p \in Periods
    PROVE  RowPublished(rs, os, H, p)
<1> DEFINE outcome(x) == OutcomeFor(x, rs, os)
           new(x) == IF x \notin H THEN rs[x]
                     ELSE CASE outcome(x) = "published" -> [rs[x] EXCEPT !.summary = "active"]
                            [] outcome(x) = "kept edited" ->
                                  [rs[x] EXCEPT !.status = "cancelled", !.summary = "none",
                                                !.linked = FALSE]
                            [] outcome(x) = "incomplete" /\ Found(rs[x]) # "staged" ->
                                  [rs[x] EXCEPT !.status = "waiting", !.linked = FALSE]
                            [] OTHER -> rs[x]
<1>1. Publish(rs, os, H) = [x \in Periods |-> new(x)]
  BY DEF Publish
<1>2. ASSUME NEW x \in Periods
      PROVE  /\ x \notin H => new(x) = rs[x]
             /\ x \in H /\ outcome(x) = "published" => new(x) = [rs[x] EXCEPT !.summary = "active"]
             /\ x \in H /\ outcome(x) = "kept edited" =>
                    new(x) = [rs[x] EXCEPT !.status = "cancelled", !.summary = "none",
                                           !.linked = FALSE]
             /\ x \in H /\ outcome(x) = "incomplete" /\ Found(rs[x]) # "staged" =>
                    new(x) = [rs[x] EXCEPT !.status = "waiting", !.linked = FALSE]
             /\ \/ x \notin H \/ outcome(x) \in {"published", "kept edited"}
                \/ outcome(x) = "incomplete" /\ Found(rs[x]) # "staged"
                \/ new(x) = rs[x]
  <2> HIDE DEF outcome
  <2> QED OBVIOUS
<1> HIDE DEF new
<1>3. ASSUME NEW x \in Periods PROVE new(x) \in Row /\ new(x).replaces = rs[x].replaces
  <2>1. rs[x] \in Row
    OBVIOUS
  <2>2. /\ [rs[x] EXCEPT !.summary = "active"] \in Row
        /\ [rs[x] EXCEPT !.summary = "active"].replaces = rs[x].replaces
    BY <2>1 DEF Row
  <2>3. /\ [rs[x] EXCEPT !.status = "cancelled", !.summary = "none", !.linked = FALSE] \in Row
        /\ [rs[x] EXCEPT !.status = "cancelled", !.summary = "none",
                         !.linked = FALSE].replaces = rs[x].replaces
    BY <2>1 DEF Row
  <2>4. /\ [rs[x] EXCEPT !.status = "waiting", !.linked = FALSE] \in Row
        /\ [rs[x] EXCEPT !.status = "waiting", !.linked = FALSE].replaces = rs[x].replaces
    BY <2>1 DEF Row
  <2> QED BY <1>2, <2>1, <2>2, <2>3, <2>4
<1>4. Publish(rs, os, H) \in [Periods -> Row] /\ Publish(rs, os, H)[p] = new(p)
  BY <1>1, <1>3
<1>5. outcome(p) # "already published" => p \in Candidates(rs)
  BY DEF OutcomeFor
<1>6. CASE p \notin H
  BY <1>2, <1>3, <1>4, <1>6 DEF RowPublished
<1>7. CASE p \in H /\ outcome(p) = "published"
  <2>1. new(p) = [rs[p] EXCEPT !.summary = "active"] /\ rs[p] \in Row
    BY <1>2, <1>7
  <2>2. new(p).summary = "active" /\ new(p).status = rs[p].status /\ new(p).linked = rs[p].linked
    BY <2>1 DEF Row
  <2> QED BY <1>3, <1>4, <1>5, <1>7, <2>2 DEF RowPublished
<1>8. CASE p \in H /\ outcome(p) = "kept edited"
  <2>1. /\ new(p) = [rs[p] EXCEPT !.status = "cancelled", !.summary = "none", !.linked = FALSE]
        /\ rs[p] \in Row
    BY <1>2, <1>8
  <2>2. new(p).summary = "none" /\ new(p).status = "cancelled"
    BY <2>1 DEF Row
  <2>3. p \in Candidates(rs) /\ Found(rs[p]) = "staged"
    BY <1>5, <1>8, Outcomes, GroupFacts
  <2>4. rs[p].summary = "staged"
    BY <2>3 DEF Found
  <2> QED BY <1>3, <1>4, <1>8, <2>2, <2>3, <2>4 DEF RowPublished
<1>9. CASE p \in H /\ outcome(p) = "incomplete" /\ Found(rs[p]) # "staged"
  <2>1. new(p) = [rs[p] EXCEPT !.status = "waiting", !.linked = FALSE] /\ rs[p] \in Row
    BY <1>2, <1>9
  <2>2. new(p).status = "waiting" /\ new(p).summary = rs[p].summary
    BY <2>1 DEF Row
  <2>3. p \in Candidates(rs) /\ rs[p].status = "done"
    BY <1>5, <1>9, Outcomes
  <2> QED BY <1>3, <1>4, <1>9, <2>2, <2>3 DEF RowPublished
<1>10. CASE /\ p \in H /\ outcome(p) \notin {"published", "kept edited"}
            /\ ~(outcome(p) = "incomplete" /\ Found(rs[p]) # "staged")
  BY <1>2, <1>3, <1>4, <1>10 DEF RowPublished
<1> QED BY <1>6, <1>7, <1>8, <1>9, <1>10

\* What it makes of an older summary: it gives way to a group that is
\* published, with everything that replaces it.
LEMMA SwappedOld ==
    ASSUME NEW rs, NEW os, Good(rs, os), NEW H \in SUBSET Periods, Whole(H, rs, os),
           NEW o \in Olds
    PROVE  /\ Swap(rs, os, H) \in [Olds -> {"active", "replaced", "deleted"}]
           /\ \/ Swap(rs, os, H)[o] = os[o]
              \/ /\ os[o] = "active" /\ Swap(rs, os, H)[o] = "replaced"
                 /\ ~replaceEdited => o \notin edited
                 /\ \A q \in Periods : o \in rs[q].replaces =>
                        q \in H /\ OutcomeFor(q, rs, os) = "published"
           /\ \A p \in H : OutcomeFor(p, rs, os) = "published" /\ o \in rs[p].replaces =>
                  Swap(rs, os, H)[o] # "active"
<1> DEFINE done == {p \in H : OutcomeFor(p, rs, os) = "published"}
<1>1. /\ Swap(rs, os, H) = [u \in Olds |->
              IF \E p \in done : u \in ReplacedBy(Group(p, rs), rs, os)
              THEN "replaced" ELSE os[u]]
      /\ os \in [Olds -> {"active", "replaced", "deleted"}]
  BY DEF Swap, Good, Sound, Typed
<1>2. Swap(rs, os, H) \in [Olds -> {"active", "replaced", "deleted"}]
  BY <1>1
<1>3. \A p \in done : p \in Candidates(rs)
  BY DEF OutcomeFor
<1> HIDE DEF done
<1>4. ASSUME NEW p \in done, o \in ReplacedBy(Group(p, rs), rs, os)
      PROVE  /\ os[o] = "active" /\ Swap(rs, os, H)[o] = "replaced"
             /\ ~replaceEdited => o \notin edited
             /\ \A q \in Periods : o \in rs[q].replaces =>
                    q \in H /\ OutcomeFor(q, rs, os) = "published"
  <2>1. /\ p \in H /\ p \in Candidates(rs) /\ OutcomeFor(p, rs, os) = "published"
        /\ ~KeepsEdited(Group(p, rs), rs, os)
    BY <1>3, Outcomes DEF done
  <2>2. os[o] = "active" /\ Swap(rs, os, H)[o] = "replaced"
    BY <1>1, <1>4 DEF ReplacedBy
  <2>3. ~replaceEdited => o \notin edited
    BY <1>4, <2>1 DEF KeepsEdited
  <2>4. PICK m \in Group(p, rs) : o \in rs[m].replaces
    BY <1>4 DEF ReplacedBy
  <2>5. m \in Candidates(rs) /\ Group(p, rs) \subseteq H
    BY <2>1, GroupFacts DEF Whole
  <2>6. ASSUME NEW q \in Periods, o \in rs[q].replaces
        PROVE  q \in H /\ OutcomeFor(q, rs, os) = "published"
    <3>1. Share(rs, m, q) /\ Share(rs, q, m) /\ rs[q].replaces # {}
      BY <2>4, <2>6 DEF Share
    <3>2. rs[m].status # "cancelled" /\ m \in Periods
      BY <2>5 DEF Candidates
    <3>3. rs[q].status # "cancelled"
      BY <2>6, <3>1, <3>2 DEF Good, Together
    <3>4. q \in Candidates(rs)
      BY <3>1, <3>3 DEF Candidates
    <3>5. q \in Group(p, rs)
      BY <2>1, <2>4, <3>1, <3>4, GroupFacts
    <3> QED BY <2>1, <2>5, <3>5, OutcomesAgree
  <2> QED BY <2>2, <2>3, <2>6
<1>5. ASSUME NEW p \in H, OutcomeFor(p, rs, os) = "published", o \in rs[p].replaces,
             Swap(rs, os, H)[o] = "active"
      PROVE  FALSE
  <2>1. p \in done /\ p \in Candidates(rs)
    BY <1>3, <1>5 DEF done
  <2>2. o \notin ReplacedBy(Group(p, rs), rs, os)
    BY <1>1, <1>5, <2>1
  <2>3. os[o] = "active"
    BY <1>1, <1>5
  <2> QED BY <1>5, <2>1, <2>2, <2>3, GroupFacts DEF ReplacedBy
<1>6. Swap(rs, os, H)[o] = os[o] \/ \E p \in done : o \in ReplacedBy(Group(p, rs), rs, os)
  BY <1>1
<1> QED BY <1>2, <1>4, <1>5, <1>6

LEMMA PublishedType ==
    ASSUME NEW rs \in [Periods -> Row], NEW os, NEW H \in SUBSET Periods
    PROVE  Publish(rs, os, H) \in [Periods -> Row]
<1>1. CASE Periods = {}
  BY <1>1 DEF Publish
<1>2. CASE Periods # {}
  BY <1>2, PublishedRow DEF RowPublished
<1> QED BY <1>1, <1>2

LEMMA PublishKeeps ==
    ASSUME NEW rs, NEW os, Good(rs, os), NEW H \in SUBSET Periods, Whole(H, rs, os)
    PROVE  Keeps(rs, os, Publish(rs, os, H), Swap(rs, os, H))
<1> DEFINE P == Publish(rs, os, H)
           W == Swap(rs, os, H)
<1>0. rs \in [Periods -> Row]
  BY DEF Good, Sound, Typed
<1>1. ASSUME NEW q \in Periods
      PROVE  /\ P[q].replaces = rs[q].replaces
             /\ rs[q].summary = "active" => P[q].summary = "active"
             /\ q \in H /\ OutcomeFor(q, rs, os) = "published" => P[q].summary = "active"
  <2>1. RowPublished(rs, os, H, q)
    BY <1>0, PublishedRow
  <2> QED BY <2>1 DEF RowPublished
<1>2. ASSUME NEW o \in Olds
      PROVE  \/ W[o] = os[o]
             \/ /\ os[o] = "active" /\ W[o] = "replaced"
                /\ ~replaceEdited => o \notin edited
                /\ \A q \in Periods : o \in rs[q].replaces =>
                       q \in H /\ OutcomeFor(q, rs, os) = "published"
  BY SwappedOld
<1> HIDE DEF P, W
<1>3. Keeps(rs, os, P, W)
  BY <1>1, <1>2 DEF Keeps
<1> QED BY <1>3 DEF P, W

LEMMA PublishGood ==
    ASSUME NEW rs, NEW os, Good(rs, os), NEW H \in SUBSET Periods, Whole(H, rs, os)
    PROVE  Good(Publish(rs, os, H), Swap(rs, os, H))
<1> DEFINE P == Publish(rs, os, H)
           W == Swap(rs, os, H)
           Out(q) == OutcomeFor(q, rs, os)
<1>0. rs \in [Periods -> Row]
  BY DEF Good, Sound, Typed
<1>1. ASSUME NEW q \in Periods
      PROVE  /\ P[q].replaces = rs[q].replaces
             /\ \/ P[q] = rs[q]
                \/ /\ q \in H /\ q \in Candidates(rs) /\ Out(q) = "published"
                   /\ P[q].summary = "active" /\ P[q].status = rs[q].status
                \/ /\ q \in H /\ q \in Candidates(rs) /\ Out(q) = "kept edited"
                   /\ P[q].summary = "none" /\ P[q].status = "cancelled"
                \/ /\ q \in H /\ q \in Candidates(rs) /\ Out(q) = "incomplete"
                   /\ rs[q].status = "done" /\ P[q].status = "waiting"
                   /\ P[q].summary = rs[q].summary
             /\ q \in H /\ Out(q) = "kept edited" => P[q].status = "cancelled"
  <2>1. RowPublished(rs, os, H, q)
    BY <1>0, PublishedRow
  <2> QED BY <2>1 DEF RowPublished
<1>2. ASSUME NEW o \in Olds
      PROVE  /\ W[o] = "active" => os[o] = "active"
             /\ \A p \in H : Out(p) = "published" /\ o \in rs[p].replaces => W[o] # "active"
  BY SwappedOld
<1>3. P \in [Periods -> Row]
  BY <1>0, PublishedType
<1>4. W \in [Olds -> {"active", "replaced", "deleted"}]
  <2>1. CASE Olds = {}
    BY <2>1 DEF Swap
  <2>2. CASE Olds # {}
    BY <2>2, SwappedOld
  <2> QED BY <2>1, <2>2
<1> HIDE DEF P, W
<1>5. OneEach(P, W)
  <2> SUFFICES ASSUME NEW p \in Periods, NEW o \in Olds,
                      P[p].summary = "active", W[o] = "active", Overlap(p, o)
               PROVE  FALSE
    BY DEF OneEach
  <2>1. os[o] = "active"
    BY <1>2
  <2>2. rs[p].summary # "active"
    BY <2>1 DEF Good, Sound, OneEach
  <2>3. CASE p \in H /\ p \in Candidates(rs) /\ Out(p) = "published"
    <3>1. rs[p].status = "done"
      BY <2>3, Outcomes, GroupFacts
    <3>2. o \in rs[p].replaces
      BY <2>1, <3>1 DEF Good, Sound, Covered
    <3> QED BY <1>2, <2>3, <3>2
  <2> QED BY <1>1, <2>2, <2>3
<1>6. Covered(P, W)
  <2> SUFFICES ASSUME NEW p \in Periods, NEW o \in Olds,
                      P[p].status \in {"waiting", "running", "done", "failed"},
                      W[o] = "active", Overlap(p, o)
               PROVE  o \in P[p].replaces
    BY DEF Covered
  <2>1. os[o] = "active"
    BY <1>2
  <2>2. rs[p].status \in {"waiting", "running", "done", "failed"}
    BY <1>1
  <2> QED BY <1>1, <2>1, <2>2 DEF Good, Sound, Covered
<1>7. Made(P)
  <2> SUFFICES ASSUME NEW p \in Periods
               PROVE  /\ P[p].status \in {"absent", "reused"} =>
                             P[p].summary = "none" /\ P[p].replaces = {}
                      /\ P[p].summary = "staged" => P[p].replaces # {}
    BY DEF Made
  <2>1. /\ rs[p].status \in {"absent", "reused"} =>
               rs[p].summary = "none" /\ rs[p].replaces = {}
        /\ rs[p].summary = "staged" => rs[p].replaces # {}
    BY DEF Good, Sound, Made
  <2>2. p \in Candidates(rs) => rs[p].replaces # {}
    BY DEF Candidates
  <2> QED BY <1>1, <2>1, <2>2
<1>8. Together(P)
  <2>1. ASSUME NEW p \in Periods, NEW q \in Periods,
               P[p].status = "cancelled", Share(P, p, q)
        PROVE  P[q].status = "cancelled"
    <3>1. Share(rs, p, q) /\ Share(rs, q, p) /\ rs[q].replaces # {}
      BY <1>1, <2>1 DEF Share
    <3>2. CASE rs[q].status = "cancelled"
      BY <1>1, <3>2 DEF Candidates
    <3>3. CASE rs[q].status # "cancelled"
      <4>1. rs[p].status # "cancelled"
        BY <3>1, <3>3 DEF Good, Together
      <4>2. p \in H /\ p \in Candidates(rs) /\ Out(p) = "kept edited"
        BY <1>1, <2>1, <4>1
      <4>3. q \in Candidates(rs)
        BY <3>1, <3>3 DEF Candidates
      <4>4. q \in Group(p, rs)
        BY <3>1, <4>2, <4>3, GroupFacts
      <4>5. q \in H /\ Out(q) = "kept edited"
        BY <4>2, <4>4, OutcomesAgree DEF Whole
      <4> QED BY <1>1, <4>5
    <3> QED BY <3>2, <3>3
  <2>2. ASSUME NEW p \in Periods, P[p].summary = "staged"
        PROVE  P[p].status # "cancelled"
    BY <1>1, <2>2 DEF Good, Together
  <2> QED BY <2>1, <2>2 DEF Together
<1>9. Good(P, W)
  BY <1>3, <1>4, <1>5, <1>6, <1>7, <1>8 DEF Good, Sound, Typed
<1> QED BY <1>9 DEF P, W

\* Publishing all takes whole groups.
LEMMA AllIsWhole == ASSUME NEW rs, NEW os PROVE Whole(Periods, rs, os)
<1>1. ASSUME NEW p \in Periods PROVE Group(p, rs) \subseteq Periods
  BY DEF Group, Candidates
<1> QED BY <1>1 DEF Whole

\* The group of a candidate stays, when groups that are kept are cancelled.
LEMMA GroupStays ==
    ASSUME NEW rs, NEW os, Good(rs, os), NEW p \in Candidates(rs),
           OutcomeFor(p, rs, os) # "kept edited"
    PROVE  LET P == Publish(rs, os, Periods)
           IN  p \in Candidates(P) /\ Group(p, rs) \subseteq Group(p, P)
<1> DEFINE P == Publish(rs, os, Periods)
           Out(q) == OutcomeFor(q, rs, os)
<1>0. rs \in [Periods -> Row]
  BY DEF Good, Sound, Typed
<1>1. ASSUME NEW q \in Periods
      PROVE  /\ P[q].replaces = rs[q].replaces
             /\ Out(q) = "kept edited" => P[q].status = "cancelled"
             /\ q \in Candidates(rs) /\ Out(q) # "kept edited" => P[q].status # "cancelled"
             /\ rs[q].status = "cancelled" => P[q].status = "cancelled"
  <2>1. q \in Candidates(rs) => rs[q].status # "cancelled"
    BY DEF Candidates
  <2>2. RowPublished(rs, os, Periods, q)
    BY <1>0, PublishedRow
  <2> QED BY <2>1, <2>2 DEF RowPublished
<1> HIDE DEF P
<1>2. Candidates(P) = {q \in Candidates(rs) : Out(q) # "kept edited"}
  BY <1>1 DEF Candidates
<1>3. \A q, r : Share(P, q, r) /\ q \in Periods /\ r \in Periods <=>
                Share(rs, q, r) /\ q \in Periods /\ r \in Periods
  BY <1>1 DEF Share
<1>4. p \in Candidates(P)
  BY <1>2
<1>5. \A q \in Candidates(P) : q \in Candidates(rs) /\ q \in Periods
  BY <1>2 DEF Candidates
<1>6. ASSUME NEW q \in Group(p, P), NEW r \in Candidates(rs) \ Group(p, P), Share(rs, q, r)
      PROVE  FALSE
  <2>1. q \in Candidates(P) /\ q \in Candidates(rs) /\ Out(q) # "kept edited"
    BY <1>2, <1>4, GroupFacts
  <2>2. q \in Periods /\ r \in Periods
    BY <2>1 DEF Candidates
  <2>3. CASE r \in Candidates(P)
    BY <1>3, <1>4, <1>6, <2>2, <2>3, GroupFacts
  <2>4. CASE r \notin Candidates(P)
    <3>1. r \in Candidates(rs) /\ Out(r) = "kept edited"
      BY <1>2, <2>4
    <3>2. q \in Group(r, rs)
      BY <1>6, <2>1, <3>1, GroupFacts, ShareSymmetric
    <3>3. OutcomeFor(q, rs, os) = OutcomeFor(r, rs, os)
      <4>1. Group(q, rs) = Group(r, rs)
        BY <3>1, <3>2, GroupsAgree
      <4> QED BY <2>1, <3>1, <4>1 DEF OutcomeFor
    <3> QED BY <2>1, <3>1, <3>3
  <2> QED BY <2>3, <2>4
<1>7. Group(p, P) \subseteq Candidates(rs) /\ p \in Group(p, P)
  BY <1>2, <1>4, GroupFacts
<1>8. Group(p, rs) \subseteq Group(p, P)
  BY <1>6, <1>7, GroupIsLeast
<1> QED BY <1>4, <1>8 DEF P

\* When nothing waits any more, nothing is staged.
LEMMA NoneStaged ==
    ASSUME NEW rs, NEW os, Good(rs, os),
           ~SomeWait(Publish(rs, os, Periods), Swap(rs, os, Periods)),
           NEW p \in Periods
    PROVE  Publish(rs, os, Periods)[p].summary # "staged"
<1> DEFINE P == Publish(rs, os, Periods)
           W == Swap(rs, os, Periods)
           Out(q) == OutcomeFor(q, rs, os)
<1> SUFFICES ASSUME P[p].summary = "staged" PROVE FALSE
  OBVIOUS
<1>0. rs \in [Periods -> Row]
  BY DEF Good, Sound, Typed
<1>1. /\ rs[p].summary = "staged" /\ Out(p) \notin {"published", "kept edited"}
      /\ \/ P[p] = rs[p]
         \/ P[p].status = "waiting"
  <2>1. RowPublished(rs, os, Periods, p)
    BY <1>0, PublishedRow
  <2>2. rs[p].summary = "staged" => rs[p].status # "cancelled"
    BY DEF Good, Together
  <2> QED BY <2>1, <2>2 DEF RowPublished
<1>2. p \in Candidates(rs)
  BY <1>1 DEF Good, Sound, Made, Together, Candidates
<1>3. p \in Candidates(P) /\ Group(p, rs) \subseteq Group(p, P)
  BY <1>1, <1>2, GroupStays
<1>4. OutcomeFor(p, P, W) \notin {"not ready", "incomplete"}
  BY <1>3 DEF SomeWait
<1> HIDE DEF W
<1>5. \A q \in Group(p, P) : P[q].status = "done"
  BY <1>3, <1>4, Outcomes
<1>6. CASE Out(p) = "not ready"
  <2>1. PICK q \in Group(p, rs) : rs[q].status # "done"
    BY <1>2, <1>6, Outcomes
  <2>2. q \in Periods /\ Out(q) = "not ready"
    BY <1>2, <1>6, <2>1, OutcomesAgree DEF Candidates
  <2>3. RowPublished(rs, os, Periods, q)
    BY <1>0, <2>2, PublishedRow
  <2>4. P[q] = rs[q]
    BY <2>2, <2>3 DEF RowPublished
  <2> QED BY <1>3, <1>5, <2>1, <2>4
<1>7. CASE Out(p) = "already published"
  <2>1. Found(rs[p]) = "active"
    BY <1>2, <1>7, Outcomes, GroupFacts
  <2> QED BY <1>1, <2>1 DEF Found
<1>8. CASE Out(p) = "incomplete"
  <2>1. PICK q \in Group(p, rs) : rs[q].status = "done" /\ Found(rs[q]) # "staged"
    BY <1>2, <1>8, IncompleteGroup
  <2>2. q \in Periods /\ Out(q) = "incomplete"
    BY <1>2, <1>8, <2>1, OutcomesAgree DEF Candidates
  <2>3. RowPublished(rs, os, Periods, q)
    BY <1>0, <2>2, PublishedRow
  <2>4. P[q].status = "waiting"
    BY <2>1, <2>2, <2>3 DEF RowPublished
  <2> QED BY <1>3, <1>5, <2>4
<1>9. Out(p) \in {"not ready", "already published", "incomplete", "kept edited", "published"}
  BY <1>2, Outcomes
<1> QED BY <1>1, <1>6, <1>7, <1>8, <1>9

-----------------------------------------------------------------------------
(* Rows that change otherwise *)

OPEN == {"waiting", "running", "done", "failed"}

\* Rows go on to rs2: a summary may be dropped, work goes on or is cancelled.
Proceeds(rs, rs2) ==
    \A q \in Periods :
        /\ rs2[q].replaces = rs[q].replaces
        /\ rs2[q].summary \in {rs[q].summary, "none"}
        /\ \/ rs2[q].status \in {rs[q].status, "cancelled"}
           \/ rs[q].status \in OPEN /\ rs2[q].status \in OPEN

\* Nothing is cancelled, or works again.
NoneCancelled(rs, rs2) ==
    \A q \in Periods : rs2[q].status = "cancelled" <=> rs[q].status = "cancelled"

LEMMA GoesOnSound ==
    ASSUME NEW rs, NEW os, NEW rs2 \in [Periods -> Row],
           NEW os2 \in [Olds -> {"active", "replaced", "deleted"}],
           Sound(rs, os), Proceeds(rs, rs2), \A o \in Olds : os2[o] = "active" => os[o] = "active"
    PROVE  /\ Sound(rs2, os2)
           /\ Together(rs) /\ NoneCancelled(rs, rs2) => Together(rs2)
           /\ (\A q \in Periods : rs[q].summary # "staged") =>
                  \A q \in Periods : rs2[q].summary # "staged"
<1>1. OneEach(rs2, os2)
  <2> SUFFICES ASSUME NEW p \in Periods, NEW o \in Olds,
                      rs2[p].summary = "active", os2[o] = "active"
               PROVE  ~Overlap(p, o)
    BY DEF OneEach
  <2>1. rs[p].summary = "active" /\ os[o] = "active"
    BY DEF Proceeds
  <2> QED BY <2>1 DEF Sound, OneEach
<1>2. Covered(rs2, os2)
  <2> SUFFICES ASSUME NEW p \in Periods, NEW o \in Olds,
                      rs2[p].status \in OPEN, os2[o] = "active", Overlap(p, o)
               PROVE  o \in rs2[p].replaces
    BY DEF Covered, OPEN
  <2>1. rs[p].status \in OPEN /\ rs2[p].replaces = rs[p].replaces /\ os[o] = "active"
    BY DEF Proceeds, OPEN
  <2> QED BY <2>1 DEF Sound, Covered, OPEN
<1>3. Made(rs2)
  <2> SUFFICES ASSUME NEW p \in Periods
               PROVE  /\ rs2[p].status \in {"absent", "reused"} =>
                             rs2[p].summary = "none" /\ rs2[p].replaces = {}
                      /\ rs2[p].summary = "staged" => rs2[p].replaces # {}
    BY DEF Made
  <2>1. /\ rs[p].status \in {"absent", "reused"} =>
               rs[p].summary = "none" /\ rs[p].replaces = {}
        /\ rs[p].summary = "staged" => rs[p].replaces # {}
    BY DEF Sound, Made
  <2> QED BY <2>1 DEF Proceeds, OPEN
<1>4. ASSUME Together(rs), NoneCancelled(rs, rs2)
      PROVE  Together(rs2)
  <2>1. ASSUME NEW p \in Periods, NEW q \in Periods,
               rs2[p].status = "cancelled", Share(rs2, p, q)
        PROVE  rs2[q].status = "cancelled"
    <3>1. Share(rs, p, q)
      BY <2>1 DEF Proceeds, Share
    <3>2. rs[p].status = "cancelled"
      BY <1>4, <2>1 DEF NoneCancelled
    <3>3. rs[q].status = "cancelled"
      BY <1>4, <3>1, <3>2 DEF Together
    <3> QED BY <1>4, <3>3 DEF NoneCancelled
  <2>2. ASSUME NEW p \in Periods, rs2[p].summary = "staged"
        PROVE  rs2[p].status # "cancelled"
    BY <1>4, <2>2 DEF Proceeds, Together, NoneCancelled
  <2> QED BY <2>1, <2>2 DEF Together
<1>5. ASSUME \A q \in Periods : rs[q].summary # "staged", NEW q \in Periods
      PROVE  rs2[q].summary # "staged"
  BY <1>5 DEF Proceeds
<1> QED BY <1>1, <1>2, <1>3, <1>4, <1>5 DEF Sound, Typed

\* One row with a new status.
WithStatus(rs, p, s) == [rs EXCEPT ![p].status = s]

LEMMA OneRow ==
    ASSUME NEW rs \in [Periods -> Row], NEW p \in Periods, NEW s \in OPEN,
           rs[p].status \in OPEN
    PROVE  /\ WithStatus(rs, p, s) \in [Periods -> Row]
           /\ Proceeds(rs, WithStatus(rs, p, s)) /\ NoneCancelled(rs, WithStatus(rs, p, s))
           /\ WithStatus(rs, p, s)[p].status = s
           /\ \A q \in Periods : WithStatus(rs, p, s)[q].summary = rs[q].summary
<1> DEFINE rs2 == WithStatus(rs, p, s)
<1>1. rs[p] \in Row
  OBVIOUS
<1>2. /\ [rs[p] EXCEPT !.status = s] \in Row
      /\ [rs[p] EXCEPT !.status = s].status = s
      /\ [rs[p] EXCEPT !.status = s].replaces = rs[p].replaces
      /\ [rs[p] EXCEPT !.status = s].summary = rs[p].summary
  BY <1>1 DEF Row, OPEN
<1>3. rs2[p] = [rs[p] EXCEPT !.status = s] /\ \A q \in Periods \ {p} : rs2[q] = rs[q]
  BY DEF WithStatus
<1>4. rs2 \in [Periods -> Row]
  BY <1>2 DEF WithStatus
<1> HIDE DEF rs2
<1>5. Proceeds(rs, rs2)
  BY <1>2, <1>3 DEF Proceeds
<1>6. NoneCancelled(rs, rs2)
  BY <1>2, <1>3 DEF NoneCancelled, OPEN
<1>7. rs2[p].status = s /\ \A q \in Periods : rs2[q].summary = rs[q].summary
  BY <1>2, <1>3
<1> QED BY <1>4, <1>5, <1>6, <1>7 DEF rs2

\* recover(): what was running waits again.
LEMMA HaltedRows ==
    ASSUME NEW rs \in [Periods -> Row]
    PROVE  /\ Halted(rs) \in [Periods -> Row]
           /\ Proceeds(rs, Halted(rs)) /\ NoneCancelled(rs, Halted(rs))
           /\ \A q \in Periods : Halted(rs)[q].summary = rs[q].summary
<1>1. ASSUME NEW q \in Periods
      PROVE  /\ Halted(rs)[q] \in Row
             /\ Halted(rs)[q].replaces = rs[q].replaces
             /\ Halted(rs)[q].summary = rs[q].summary
             /\ \/ Halted(rs)[q].status = rs[q].status
                \/ rs[q].status = "running" /\ Halted(rs)[q].status = "waiting"
  <2>1. rs[q] \in Row
    OBVIOUS
  <2>2. /\ [rs[q] EXCEPT !.status = "waiting"] \in Row
        /\ [rs[q] EXCEPT !.status = "waiting"].status = "waiting"
        /\ [rs[q] EXCEPT !.status = "waiting"].replaces = rs[q].replaces
        /\ [rs[q] EXCEPT !.status = "waiting"].summary = rs[q].summary
    BY <2>1 DEF Row
  <2>3. Halted(rs)[q] = IF rs[q].status = "running"
                        THEN [rs[q] EXCEPT !.status = "waiting"] ELSE rs[q]
    BY DEF Halted
  <2> QED BY <2>1, <2>2, <2>3
<1>2. Halted(rs) \in [Periods -> Row]
  BY <1>1 DEF Halted
<1>3. Proceeds(rs, Halted(rs))
  BY <1>1 DEF Proceeds, OPEN
<1>4. NoneCancelled(rs, Halted(rs))
  BY <1>1 DEF NoneCancelled
<1> QED BY <1>1, <1>2, <1>3, <1>4

LEMMA HaltedGood ==
    ASSUME NEW rs, NEW os, Sound(rs, os)
    PROVE  /\ Sound(Halted(rs), os)
           /\ Together(rs) => Together(Halted(rs))
           /\ (\A q \in Periods : rs[q].summary # "staged") =>
                  \A q \in Periods : Halted(rs)[q].summary # "staged"
           /\ Keeps(rs, os, Halted(rs), os)
<1>1. rs \in [Periods -> Row] /\ os \in [Olds -> {"active", "replaced", "deleted"}]
  BY DEF Sound, Typed
<1>2. /\ Halted(rs) \in [Periods -> Row]
      /\ Proceeds(rs, Halted(rs)) /\ NoneCancelled(rs, Halted(rs))
      /\ \A q \in Periods : Halted(rs)[q].summary = rs[q].summary
  BY <1>1, HaltedRows
<1>3. Keeps(rs, os, Halted(rs), os)
  BY <1>2 DEF Keeps, Proceeds
<1> QED BY <1>1, <1>2, <1>3, GoesOnSound

\* complete_period(): a summary of what replaces nothing is in nobody's way.
LEMMA CompletedGood ==
    ASSUME NEW rs, NEW os, Good(rs, os), NEW p \in Periods, rs[p].status = "running"
    PROVE  LET rs2 == [rs EXCEPT ![p] = Completed(@)]
           IN  Good(rs2, os) /\ Keeps(rs, os, rs2, os)
<1> DEFINE rs2 == [rs EXCEPT ![p] = Completed(@)]
<1>1. rs \in [Periods -> Row] /\ os \in [Olds -> {"active", "replaced", "deleted"}] /\ rs[p] \in Row
  BY DEF Good, Sound, Typed
<1>2. /\ Completed(rs[p]) \in Row
      /\ Completed(rs[p]).status = "done"
      /\ Completed(rs[p]).replaces = rs[p].replaces
      /\ Completed(rs[p]).summary = IF rs[p].summary # "none" THEN rs[p].summary
                                    ELSE IF rs[p].replaces = {} THEN "active" ELSE "staged"
  <2>1. rs[p] = [status |-> rs[p].status, replaces |-> rs[p].replaces,
                 summary |-> rs[p].summary, linked |-> rs[p].linked]
    BY <1>1 DEF Row
  <2> QED BY <1>1, <2>1 DEF Row, Completed
<1>3. rs2[p] = Completed(rs[p]) /\ \A q \in Periods \ {p} : rs2[q] = rs[q]
  BY <1>1
<1>4. rs2 \in [Periods -> Row]
  BY <1>1, <1>2
<1>5. \A q \in Periods : rs2[q].replaces = rs[q].replaces
  BY <1>2, <1>3
<1> HIDE DEF rs2
<1>6. OneEach(rs2, os)
  <2> SUFFICES ASSUME NEW q \in Periods, NEW o \in Olds,
                      rs2[q].summary = "active", os[o] = "active", Overlap(q, o)
               PROVE  FALSE
    BY DEF OneEach
  <2>1. rs[q].summary # "active"
    BY DEF Good, Sound, OneEach
  <2>2. q = p /\ rs[p].replaces = {}
    BY <1>2, <1>3, <2>1
  <2> QED BY <2>2 DEF Good, Sound, Covered
<1>7. Covered(rs2, os)
  <2> SUFFICES ASSUME NEW q \in Periods, NEW o \in Olds,
                      rs2[q].status \in {"waiting", "running", "done", "failed"},
                      os[o] = "active", Overlap(q, o)
               PROVE  o \in rs2[q].replaces
    BY DEF Covered
  <2>1. rs[q].status \in {"waiting", "running", "done", "failed"}
    BY <1>3
  <2> QED BY <1>5, <2>1 DEF Good, Sound, Covered
<1>8. Made(rs2)
  <2> SUFFICES ASSUME NEW q \in Periods
               PROVE  /\ rs2[q].status \in {"absent", "reused"} =>
                             rs2[q].summary = "none" /\ rs2[q].replaces = {}
                      /\ rs2[q].summary = "staged" => rs2[q].replaces # {}
    BY DEF Made
  <2>1. /\ rs[q].status \in {"absent", "reused"} =>
               rs[q].summary = "none" /\ rs[q].replaces = {}
        /\ rs[q].summary = "staged" => rs[q].replaces # {}
    BY DEF Good, Sound, Made
  <2>2. CASE q = p
    BY <1>2, <1>3, <1>5, <2>1, <2>2
  <2>3. CASE q # p
    BY <1>3, <2>1, <2>3
  <2> QED BY <2>2, <2>3
<1>9. Together(rs2)
  <2>1. ASSUME NEW q \in Periods, NEW r \in Periods,
               rs2[q].status = "cancelled", Share(rs2, q, r)
        PROVE  rs2[r].status = "cancelled"
    <3>1. q # p /\ rs[q].status = "cancelled" /\ Share(rs, q, r)
      BY <1>2, <1>3, <1>5, <2>1 DEF Share
    <3>2. rs[r].status = "cancelled"
      BY <3>1 DEF Good, Together
    <3> QED BY <1>3, <3>2
  <2>2. ASSUME NEW q \in Periods, rs2[q].summary = "staged"
        PROVE  rs2[q].status # "cancelled"
    BY <1>2, <1>3, <2>2 DEF Good, Together
  <2> QED BY <2>1, <2>2 DEF Together
<1>10. Good(rs2, os)
  BY <1>1, <1>4, <1>6, <1>7, <1>8, <1>9 DEF Good, Sound, Typed
<1>11. Keeps(rs, os, rs2, os)
  BY <1>2, <1>3, <1>5 DEF Keeps
<1> QED BY <1>10, <1>11 DEF rs2

\* _create_periods(): all rows, or those up to where the process died.
LEMMA CreatedGood ==
    ASSUME TypeOK, NEW same, NEW S \in SUBSET Periods
    PROVE  LET rs == [p \in Periods |-> IF p \in S THEN Created(p, same) ELSE Absent]
           IN  Good(rs, old)
<1> DEFINE rs == [p \in Periods |-> IF p \in S THEN Created(p, same) ELSE Absent]
           existing(p) == {o \in Olds : old[o] = "active" /\ OldSpan[o] \cap NewSpan[p] # {}}
<1>1. ASSUME NEW p \in Periods
      PROVE  /\ rs[p] \in Row
             /\ rs[p].summary = "none"
             /\ \/ rs[p].status \in {"absent", "reused", "cancelled"} /\ rs[p].replaces = {}
                \/ rs[p].status = "waiting" /\ rs[p].replaces = existing(p)
  <2>1. /\ Absent \in Row /\ Absent.summary = "none" /\ Absent.status = "absent"
        /\ Absent.replaces = {}
    BY DEF Absent, Row
  <2>2. /\ [Absent EXCEPT !.status = "reused"] \in Row
        /\ [Absent EXCEPT !.status = "reused"].summary = "none"
        /\ [Absent EXCEPT !.status = "reused"].status = "reused"
        /\ [Absent EXCEPT !.status = "reused"].replaces = {}
    BY DEF Absent, Row
  <2>3. /\ [Absent EXCEPT !.status = "cancelled"] \in Row
        /\ [Absent EXCEPT !.status = "cancelled"].summary = "none"
        /\ [Absent EXCEPT !.status = "cancelled"].status = "cancelled"
        /\ [Absent EXCEPT !.status = "cancelled"].replaces = {}
    BY DEF Absent, Row
  <2>4. existing(p) \in SUBSET Olds
    OBVIOUS
  <2> HIDE DEF existing
  <2>5. /\ [Absent EXCEPT !.status = "waiting", !.replaces = existing(p)] \in Row
        /\ [Absent EXCEPT !.status = "waiting", !.replaces = existing(p)].summary = "none"
        /\ [Absent EXCEPT !.status = "waiting", !.replaces = existing(p)].status = "waiting"
        /\ [Absent EXCEPT !.status = "waiting", !.replaces = existing(p)].replaces = existing(p)
    BY <2>4 DEF Absent, Row
  <2>6. Created(p, same) \in {[Absent EXCEPT !.status = "reused"],
                              [Absent EXCEPT !.status = "cancelled"],
                              [Absent EXCEPT !.status = "waiting", !.replaces = existing(p)]}
    BY DEF Created, existing
  <2>7. rs[p] \in {Absent, Created(p, same)}
    OBVIOUS
  <2> HIDE DEF rs
  <2>8. CASE rs[p] = Absent
    BY <2>1, <2>8
  <2>9. CASE rs[p] = [Absent EXCEPT !.status = "reused"]
    BY <2>2, <2>9
  <2>10. CASE rs[p] = [Absent EXCEPT !.status = "cancelled"]
    BY <2>3, <2>10
  <2>11. CASE rs[p] = [Absent EXCEPT !.status = "waiting", !.replaces = existing(p)]
    BY <2>5, <2>11
  <2> QED BY <2>6, <2>7, <2>8, <2>9, <2>10, <2>11
<1>2. rs \in [Periods -> Row] /\ old \in [Olds -> {"active", "replaced", "deleted"}]
  BY <1>1 DEF TypeOK
<1> HIDE DEF rs
<1>5. OneEach(rs, old)
  BY <1>1 DEF OneEach
<1>6. Covered(rs, old)
  <2> SUFFICES ASSUME NEW p \in Periods, NEW o \in Olds,
                      rs[p].status \in {"waiting", "running", "done", "failed"},
                      old[o] = "active", Overlap(p, o)
               PROVE  o \in rs[p].replaces
    BY DEF Covered
  <2>1. rs[p].replaces = existing(p)
    BY <1>1
  <2> QED BY <2>1 DEF Overlap
<1>7. Made(rs)
  <2>1. ASSUME NEW p \in Periods
        PROVE  /\ rs[p].status \in {"absent", "reused"} => rs[p].replaces = {}
               /\ rs[p].summary = "none"
    BY <1>1
  <2> QED BY <2>1 DEF Made
<1>8. Together(rs)
  <2>1. ASSUME NEW p \in Periods, NEW q \in Periods,
               rs[p].status = "cancelled", Share(rs, p, q)
        PROVE  FALSE
    <3>1. rs[p].replaces = {}
      BY <1>1, <2>1
    <3> QED BY <2>1, <3>1 DEF Share
  <2>2. \A p \in Periods : rs[p].summary = "none"
    BY <1>1
  <2> QED BY <2>1, <2>2 DEF Together
<1>9. Good(rs, old)
  BY <1>2, <1>5, <1>6, <1>7, <1>8 DEF Good, Sound, Typed
<1> QED BY <1>9 DEF rs

-----------------------------------------------------------------------------
(* The state *)

\* What is kept: an import that isn't over, nor its archive stage, has whole
\* groups, and one that is done has nothing staged.
Sure(rs, os, stage) ==
    /\ Sound(rs, os)
    /\ stage \in UNFINISHED_STAGES => Together(rs)
    /\ stage = "done" => \A q \in Periods : rs[q].summary # "staged"

Working == archive = "running" /\ at \in Periods /\ period[at].status = "running"

PublishInv == TypeOK /\ Sure(period, old, archive) /\ (job = "summarizing" => Working)

\* How a step treats the older summaries.
GivesWay ==
    \A o \in Olds : old[o] = "active" /\ old'[o] = "replaced" =>
        /\ ~replaceEdited => o \notin edited
        /\ \A q \in Periods : o \in period'[q].replaces => period'[q].summary = "active"

LEMMA KeepsGivesWay ==
    ASSUME NEW rs, Keeps(rs, old, period', old')
    PROVE  GivesWay
BY DEF Keeps, GivesWay

LEMMA StillGivesWay ==
    ASSUME \A o \in Olds : old'[o] \in {old[o], "deleted"}
    PROVE  GivesWay
BY DEF GivesWay

LEMMA SureNext ==
    ASSUME TypeOK', Sure(period', old', archive'),
           job' = "summarizing" =>
               archive' = "running" /\ at' \in Periods /\ period'[at'].status = "running"
    PROVE  PublishInv'
<1>1. Sure(period, old, archive)'
  BY DEF Sure, Sound, Typed, OneEach, Covered, Made, Together, Overlap, Share
<1> QED BY <1>1 DEF PublishInv, Working

\* A task that is over: what is left to show of a step.
LEMMA EndsSure ==
    ASSUME PublishInv, JobEnds, status' \in {"running", "paused", "over"}, archive' \in Statuses,
           UNCHANGED replaceEdited, edited' \in SUBSET Olds, Sure(period', old', archive')
    PROVE  PublishInv'
<1>1. period' \in [Periods -> Row] /\ old' \in [Olds -> {"active", "replaced", "deleted"}]
  BY DEF Sure, Sound, Typed
<1>2. at' \in 0 .. PeriodCount /\ todo' \subseteq Periods /\ job' = "none"
  BY SpansAssumption DEF JobEnds
<1>3. replaceEdited' \in BOOLEAN
  BY Zenon DEF PublishInv, TypeOK
<1>4. TypeOK'
  BY <1>1, <1>2, <1>3 DEF TypeOK
<1> QED BY <1>2, <1>4, SureNext

LEMMA StatusUnchanged ==
    ASSUME PublishInv
    PROVE  /\ status \in {"running", "paused", "over"} /\ archive \in Statuses
           /\ edited \in SUBSET Olds
           /\ period \in [Periods -> Row]
           /\ Sound(period, old)
BY DEF PublishInv, TypeOK, Sure

LEMMA DiesSure ==
    ASSUME PublishInv, NEW rs, NEW os, Dies(rs, os), archive' \in Statuses, Sure(rs, os, archive')
    PROVE  PublishInv' /\ Keeps(rs, os, period', old')
<1>1. period' = Halted(rs) /\ old' = os
  BY DEF Dies
<1>2. Sure(period', old', archive') /\ Keeps(rs, os, period', old')
  BY <1>1, HaltedGood DEF Sure
<1>3. /\ JobEnds /\ UNCHANGED replaceEdited
      /\ edited' \in SUBSET Olds /\ status' \in {"running", "paused", "over"}
  BY StatusUnchanged DEF Dies
<1> QED BY <1>2, <1>3, EndsSure

LEMMA PausedSure ==
    ASSUME PublishInv, NEW rs, NEW os, PauseStage(rs, os), Good(rs, os)
    PROVE  PublishInv' /\ Keeps(rs, os, period', old')
<1>1. period' = Halted(rs) /\ old' = os /\ archive' = "paused"
  BY DEF PauseStage
<1>2. Sure(period', old', archive') /\ Keeps(rs, os, period', old')
  BY <1>1, HaltedGood DEF Sure, Good
<1>3. /\ JobEnds /\ UNCHANGED replaceEdited /\ archive' \in Statuses
      /\ edited' \in SUBSET Olds /\ status' \in {"running", "paused", "over"}
  BY StatusUnchanged DEF PauseStage, Statuses
<1> QED BY <1>2, <1>3, EndsSure

LEMMA PublishingDies ==
    ASSUME PublishInv, NEW rs, NEW os, DiesPublishing(rs, os), Good(rs, os)
    PROVE  PublishInv' /\ Keeps(rs, os, period', old')
<1>1. PICK H \in SUBSET Periods :
          Whole(H, rs, os) /\ Dies(Publish(rs, os, H), Swap(rs, os, H))
  BY DEF DiesPublishing
<1> DEFINE P == Publish(rs, os, H)
           W == Swap(rs, os, H)
<1>2. Good(P, W) /\ Keeps(rs, os, P, W)
  BY <1>1, PublishGood, PublishKeeps
<1>3. archive' = "running" /\ archive' \in Statuses
  BY DEF DiesPublishing, Statuses
<1> HIDE DEF P, W
<1>4. Sure(P, W, archive')
  BY <1>2, <1>3 DEF Sure, Good
<1>5. Dies(P, W)
  BY <1>1 DEF P, W
<1>6. PublishInv' /\ Keeps(P, W, period', old')
  BY <1>3, <1>4, <1>5, DiesSure
<1> QED BY <1>2, <1>6, KeepsOn

LEMMA FinishSure ==
    ASSUME PublishInv, NEW rs, NEW os, Finish(rs, os), Good(rs, os),
           \A q \in Periods : rs[q].summary # "staged"
    PROVE  PublishInv' /\ Keeps(rs, os, period', old')
<1>1. archive' = "done" /\ archive' \in Statuses /\ Sure(rs, os, archive')
  BY DEF Finish, Statuses, Sure, Good, UNFINISHED_STAGES
<1>2. CASE Dies(rs, os)
  BY <1>1, <1>2, DiesSure
<1>3. CASE /\ status' = "over" /\ JobEnds /\ period' = rs /\ old' = os
           /\ UNCHANGED <<replaceEdited, edited>>
  <2>1. Sure(period', old', archive') /\ edited' \in SUBSET Olds
    BY <1>1, <1>3, StatusUnchanged
  <2> QED BY <1>1, <1>3, <2>1, EndsSure, KeepsSelf
<1> QED BY <1>2, <1>3 DEF Finish

\* The loop goes on, ends or dies.
LEMMA ProceedSure ==
    ASSUME PublishInv, NEW rs, NEW os, Good(rs, os), NEW list \in SUBSET Periods,
           NEW p, Proceed(rs, os, list, p)
    PROVE  PublishInv' /\ Keeps(rs, os, period', old')
<1> DEFINE Upcoming == {q \in list : q > p /\ rs[q].status \in {"absent", "waiting", "running"}}
           next == Min(Upcoming)
<1>1. \/ PauseStage(rs, os)
      \/ /\ Upcoming # {}
         /\ rs[next].status # "absent"
         /\ archive' = "running"
         /\ job' = "summarizing"
         /\ at' = next
         /\ todo' = list
         /\ period' = [rs EXCEPT ![next].status = "running"]
         /\ old' = os
         /\ UNCHANGED <<status, replaceEdited, edited>>
      \/ IF SomeWait(Publish(rs, os, Periods), Swap(rs, os, Periods))
         THEN PauseStage(Publish(rs, os, Periods), Swap(rs, os, Periods))
         ELSE Finish(Publish(rs, os, Periods), Swap(rs, os, Periods))
      \/ DiesPublishing(rs, os)
  BY DEF Proceed
<1>2. CASE PauseStage(rs, os)
  BY <1>2, PausedSure
<1>3. CASE DiesPublishing(rs, os)
  BY <1>3, PublishingDies
<1>4. CASE /\ Upcoming # {}
           /\ rs[next].status # "absent"
           /\ archive' = "running"
           /\ job' = "summarizing"
           /\ at' = next
           /\ todo' = list
           /\ period' = [rs EXCEPT ![next].status = "running"]
           /\ old' = os
           /\ UNCHANGED <<status, replaceEdited, edited>>
  <2>1. Upcoming \in SUBSET Nat
    <3>1. Periods \subseteq Nat
      BY SpansAssumption DEF Periods
    <3> QED BY <3>1
  <2>2. next \in Upcoming
    <3> HIDE DEF Upcoming
    <3>1. PICK m \in Upcoming : \A n \in Upcoming : m <= n
      BY <1>4, <2>1, LeastNat
    <3> QED BY <3>1 DEF Min
  <2>3. next \in Periods /\ rs[next].status \in OPEN
    BY <1>4, <2>2 DEF OPEN
  <2>4. /\ rs \in [Periods -> Row] /\ os \in [Olds -> {"active", "replaced", "deleted"}]
        /\ Sound(rs, os)
    BY DEF Good, Sound, Typed
  <2> HIDE DEF next
  <2>5. /\ period' \in [Periods -> Row]
        /\ Proceeds(rs, period') /\ NoneCancelled(rs, period')
        /\ period'[next].status = "running"
        /\ \A q \in Periods : period'[q].summary = rs[q].summary
    <3>1. "running" \in OPEN
      BY DEF OPEN
    <3>2. period' = WithStatus(rs, next, "running")
      BY <1>4 DEF WithStatus
    <3> QED BY <2>3, <2>4, <3>1, <3>2, OneRow
  <2>6. Keeps(rs, os, period', old')
    BY <1>4, <2>5 DEF Keeps, Proceeds
  <2>7. Sure(period', old', archive')
    <3>1. old' = os /\ archive' = "running" /\ Together(rs)
      BY <1>4 DEF Good
    <3>2. Sound(period', old') /\ Together(period')
      BY <2>4, <2>5, <3>1, GoesOnSound
    <3> QED BY <3>1, <3>2 DEF Sure
  <2>8. replaceEdited' \in BOOLEAN
    BY <1>4, Zenon DEF PublishInv, TypeOK
  <2>9. TypeOK'
    BY <1>4, <2>3, <2>4, <2>5, <2>8, StatusUnchanged, SpansAssumption
       DEF TypeOK, Periods, Statuses
  <2> QED BY <1>4, <2>3, <2>5, <2>6, <2>7, <2>9, SureNext
<1>5. CASE IF SomeWait(Publish(rs, os, Periods), Swap(rs, os, Periods))
           THEN PauseStage(Publish(rs, os, Periods), Swap(rs, os, Periods))
           ELSE Finish(Publish(rs, os, Periods), Swap(rs, os, Periods))
  <2> DEFINE P == Publish(rs, os, Periods)
             W == Swap(rs, os, Periods)
  <2>1. Good(P, W) /\ Keeps(rs, os, P, W)
    BY AllIsWhole, PublishGood, PublishKeeps
  <2>2. CASE SomeWait(P, W)
    <3>1. PauseStage(P, W)
      BY <1>5, <2>2
    <3> HIDE DEF P, W
    <3>2. PublishInv' /\ Keeps(P, W, period', old')
      BY <2>1, <3>1, PausedSure
    <3> QED BY <2>1, <3>2, KeepsOn
  <2>3. CASE ~SomeWait(P, W)
    <3>1. Finish(P, W)
      BY <1>5, <2>3
    <3>2. \A q \in Periods : P[q].summary # "staged"
      BY <2>3, NoneStaged
    <3> HIDE DEF P, W
    <3>3. PublishInv' /\ Keeps(P, W, period', old')
      BY <2>1, <3>1, <3>2, FinishSure
    <3> QED BY <2>1, <3>3, KeepsOn
  <2> QED BY <2>2, <2>3
<1> QED BY <1>1, <1>2, <1>3, <1>4, <1>5

-----------------------------------------------------------------------------
(* The actions *)

LEMMA StageGood ==
    ASSUME PublishInv, archive \in UNFINISHED_STAGES
    PROVE  Good(period, old)
BY DEF PublishInv, Sure, Good

LEMMA LoadEndsSure ==
    ASSUME PublishInv, LoadEnds
    PROVE  PublishInv' /\ GivesWay
<1>1. CASE Rows = {}
  <2>1. PICK same \in SUBSET Repeatable :
            Proceed([p \in Periods |-> Created(p, same)], old, Periods, 0)
    BY <1>1 DEF LoadEnds
  <2> DEFINE rs == [p \in Periods |-> IF p \in Periods THEN Created(p, same) ELSE Absent]
  <2>2. rs = [p \in Periods |-> Created(p, same)]
    OBVIOUS
  <2>3. Good(rs, old)
    BY CreatedGood DEF PublishInv
  <2>4. Proceed(rs, old, Periods, 0)
    BY <2>1, <2>2
  <2> HIDE DEF rs
  <2>5. PublishInv' /\ Keeps(rs, old, period', old')
    BY <2>3, <2>4, ProceedSure
  <2> QED BY <2>5, KeepsGivesWay
<1>2. CASE Rows # {}
  <2>1. Good(period, old)
    BY StageGood DEF LoadEnds, UNFINISHED_STAGES
  <2>2. Proceed(period, old, Rows, 0) /\ Rows \in SUBSET Periods
    BY <1>2 DEF LoadEnds, Rows
  <2>3. PublishInv' /\ Keeps(period, old, period', old')
    BY <2>1, <2>2, ProceedSure
  <2> QED BY <2>3, KeepsGivesWay
<1> QED BY <1>1, <1>2

LEMMA DiesCreatingSure ==
    ASSUME PublishInv, DiesCreating
    PROVE  PublishInv' /\ GivesWay
<1>1. PICK k \in Periods, same \in SUBSET Repeatable :
          Dies([p \in Periods |-> IF p <= k THEN Created(p, same) ELSE Absent], old)
  BY DEF DiesCreating
<1> DEFINE S == {p \in Periods : p <= k}
           rs == [p \in Periods |-> IF p \in S THEN Created(p, same) ELSE Absent]
<1>2. rs = [p \in Periods |-> IF p <= k THEN Created(p, same) ELSE Absent]
  OBVIOUS
<1>3. S \in SUBSET Periods
  OBVIOUS
<1>4. Dies(rs, old)
  BY <1>1, <1>2
<1> HIDE DEF S
<1>5. Good(rs, old)
  BY <1>3, CreatedGood DEF PublishInv
<1> HIDE DEF rs
<1>6. archive' = "running" /\ archive' \in Statuses
  BY DEF DiesCreating, Statuses
<1>7. Sure(rs, old, archive')
  BY <1>5, <1>6 DEF Sure, Good
<1>8. PublishInv' /\ Keeps(rs, old, period', old')
  BY <1>4, <1>6, <1>7, DiesSure
<1> QED BY <1>8, KeepsGivesWay

LEMMA CompleteOnlySure ==
    ASSUME PublishInv, CompleteOnly
    PROVE  PublishInv' /\ GivesWay
<1>1. /\ period' = period /\ old' = old /\ archive' = archive /\ edited' = edited
      /\ status' = "over" /\ JobEnds /\ replaceEdited' = replaceEdited
  BY DEF CompleteOnly
<1>2. Sure(period', old', archive')
  BY <1>1 DEF PublishInv
<1> QED BY <1>1, <1>2, EndsSure, StatusUnchanged, StillGivesWay

LEMMA PeriodEndsSure ==
    ASSUME PublishInv, PeriodEnds
    PROVE  PublishInv' /\ GivesWay
<1> DEFINE rs == [period EXCEPT ![at] = Completed(@)]
<1>1. /\ Good(period, old)
      /\ at \in Periods /\ period[at].status = "running"
  BY StageGood DEF PeriodEnds, PublishInv, Working, UNFINISHED_STAGES
<1>2. Good(rs, old) /\ Keeps(period, old, rs, old)
  BY <1>1, CompletedGood
<1>3. \/ Proceed(Publish(rs, old, Periods), Swap(rs, old, Periods), todo, at)
      \/ DiesPublishing(rs, old)
  BY DEF PeriodEnds
<1> HIDE DEF rs
<1>4. CASE DiesPublishing(rs, old)
  <2>1. PublishInv' /\ Keeps(rs, old, period', old')
    BY <1>2, <1>4, PublishingDies
  <2> QED BY <2>1, KeepsGivesWay
<1>5. CASE Proceed(Publish(rs, old, Periods), Swap(rs, old, Periods), todo, at)
  <2> DEFINE P == Publish(rs, old, Periods)
             W == Swap(rs, old, Periods)
  <2>1. Good(P, W) /\ Keeps(rs, old, P, W)
    BY <1>2, AllIsWhole, PublishGood, PublishKeeps
  <2>2. Proceed(P, W, todo, at) /\ todo \in SUBSET Periods
    BY <1>5 DEF PublishInv, TypeOK
  <2> HIDE DEF P, W
  <2>3. PublishInv' /\ Keeps(P, W, period', old')
    BY <2>1, <2>2, ProceedSure
  <2>4. Keeps(rs, old, period', old')
    BY <2>1, <2>3, KeepsOn
  <2> QED BY <2>3, <2>4, KeepsGivesWay
<1> QED BY <1>3, <1>4, <1>5

LEMMA PeriodFailsSure ==
    ASSUME PublishInv, PeriodFails
    PROVE  PublishInv' /\ GivesWay
<1> DEFINE rs == WithStatus(period, at, "failed")
<1>1. /\ Good(period, old) /\ archive = "running"
      /\ at \in Periods /\ period[at].status = "running"
  BY StageGood DEF PeriodFails, PublishInv, Working, UNFINISHED_STAGES
<1>2. /\ period \in [Periods -> Row] /\ old \in [Olds -> {"active", "replaced", "deleted"}]
      /\ Sound(period, old) /\ Together(period)
  BY <1>1 DEF Good, Sound, Typed
<1>3. period[at].status \in OPEN /\ "failed" \in OPEN
  BY <1>1 DEF OPEN
<1>4. /\ rs \in [Periods -> Row]
      /\ Proceeds(period, rs) /\ NoneCancelled(period, rs)
      /\ \A q \in Periods : rs[q].summary = period[q].summary
  BY <1>1, <1>2, <1>3, OneRow
<1>5. PauseStage(rs, old) \/ (Dies(rs, old) /\ UNCHANGED archive)
  BY DEF PeriodFails, WithStatus
<1> HIDE DEF rs
<1>6. Good(rs, old)
  BY <1>2, <1>4, GoesOnSound DEF Good
<1>7. CASE PauseStage(rs, old)
  <2>1. PublishInv' /\ Keeps(rs, old, period', old')
    BY <1>6, <1>7, PausedSure
  <2> QED BY <2>1, KeepsGivesWay
<1>8. CASE Dies(rs, old) /\ UNCHANGED archive
  <2>1. archive' \in Statuses /\ Sure(rs, old, archive')
    BY <1>1, <1>6, <1>8 DEF Statuses, Sure, Good
  <2>2. PublishInv' /\ Keeps(rs, old, period', old')
    BY <1>8, <2>1, DiesSure
  <2> QED BY <2>2, KeepsGivesWay
<1> QED BY <1>5, <1>7, <1>8

LEMMA PauseSure ==
    ASSUME PublishInv, Pause
    PROVE  PublishInv' /\ GivesWay
<1>1. Good(period, old) /\ PauseStage(period, old)
  BY StageGood DEF Pause
<1>2. PublishInv' /\ Keeps(period, old, period', old')
  BY <1>1, PausedSure
<1> QED BY <1>2, KeepsGivesWay

LEMMA CrashSure ==
    ASSUME PublishInv, Crash
    PROVE  PublishInv' /\ GivesWay
<1>1. /\ Dies(period, old) /\ archive' = archive /\ archive' \in Statuses
      /\ Sure(period, old, archive')
  BY DEF Crash, PublishInv, TypeOK
<1>2. PublishInv' /\ Keeps(period, old, period', old')
  BY <1>1, DiesSure
<1> QED BY <1>2, KeepsGivesWay

\* The rest of the actions leave the task, or give it nothing to work on.
LEMMA QuietSure ==
    ASSUME PublishInv, TypeOK', job' \in {job, "loading"}, UNCHANGED <<at>>,
           Proceeds(period, period'), NoneCancelled(period, period'),
           archive' = archive \/ (archive = "paused" /\ archive' = "waiting"),
           job' = "summarizing" => period'[at].status = period[at].status,
           \A o \in Olds : old'[o] \in {old[o], "deleted"}
    PROVE  PublishInv' /\ GivesWay
<1>1. /\ period' \in [Periods -> Row]
      /\ old' \in [Olds -> {"active", "replaced", "deleted"}]
  BY DEF TypeOK
<1>2. \A o \in Olds : old'[o] = "active" => old[o] = "active"
  OBVIOUS
<1>3. Sound(period, old)
  BY StatusUnchanged
<1>4. /\ Sound(period', old')
      /\ Together(period) => Together(period')
      /\ (\A q \in Periods : period[q].summary # "staged") =>
             \A q \in Periods : period'[q].summary # "staged"
  BY <1>1, <1>2, <1>3, GoesOnSound
<1>5. Sure(period', old', archive')
  BY <1>4 DEF PublishInv, Sure, UNFINISHED_STAGES
<1>6. job' = "summarizing" =>
          archive' = "running" /\ at' \in Periods /\ period'[at'].status = "running"
  BY DEF PublishInv, Working
<1> QED BY <1>5, <1>6, SureNext, StillGivesWay

LEMMA RowsStay == Proceeds(period, period) /\ NoneCancelled(period, period)
BY DEF Proceeds, NoneCancelled

LEMMA ResumeSure ==
    ASSUME PublishInv, Resume
    PROVE  PublishInv' /\ GivesWay
<1>1. ASSUME NEW q \in Periods
      PROVE  /\ period'[q] \in Row
             /\ period'[q].replaces = period[q].replaces
             /\ period'[q].summary = period[q].summary
             /\ \/ period'[q].status = period[q].status
                \/ period[q].status = "failed" /\ period'[q].status = "waiting"
  <2>1. period[q] \in Row
    BY StatusUnchanged
  <2>2. /\ [period[q] EXCEPT !.status = "waiting"] \in Row
        /\ [period[q] EXCEPT !.status = "waiting"].status = "waiting"
        /\ [period[q] EXCEPT !.status = "waiting"].replaces = period[q].replaces
        /\ [period[q] EXCEPT !.status = "waiting"].summary = period[q].summary
    BY <2>1 DEF Row
  <2>3. period'[q] = IF period[q].status = "failed"
                     THEN [period[q] EXCEPT !.status = "waiting"] ELSE period[q]
    BY DEF Resume
  <2> QED BY <2>1, <2>2, <2>3
<1>2. period' \in [Periods -> Row]
  BY <1>1 DEF Resume
<1>3. Proceeds(period, period') /\ NoneCancelled(period, period')
  BY <1>1 DEF Proceeds, NoneCancelled, OPEN
<1>4. replaceEdited' \in BOOLEAN
  BY Zenon DEF Resume, PublishInv, TypeOK
<1>5. TypeOK'
  BY <1>2, <1>4 DEF Resume, PublishInv, TypeOK, Statuses
<1>6. /\ job' = "loading" /\ at' = at /\ old' = old
      /\ archive' = archive \/ (archive = "paused" /\ archive' = "waiting")
  BY DEF Resume
<1> QED BY <1>3, <1>5, <1>6, QuietSure

LEMMA ResumeInterruptedSure ==
    ASSUME PublishInv, ResumeInterrupted
    PROVE  PublishInv' /\ GivesWay
<1>1. /\ job' = "loading" /\ at' = at /\ old' = old /\ period' = period /\ archive' = archive
      /\ status' = status /\ replaceEdited' = replaceEdited /\ todo' = todo /\ edited' = edited
  BY DEF ResumeInterrupted, record
<1>2. replaceEdited' \in BOOLEAN
  BY <1>1, Zenon DEF PublishInv, TypeOK
<1>3. TypeOK'
  BY <1>1, <1>2 DEF PublishInv, TypeOK
<1>4. Proceeds(period, period') /\ NoneCancelled(period, period')
  BY <1>1, RowsStay
<1> QED BY <1>1, <1>3, <1>4, QuietSure

LEMMA EditSure ==
    ASSUME PublishInv, NEW o \in Olds, Edit(o)
    PROVE  PublishInv' /\ GivesWay
<1>1. /\ job' = job /\ at' = at /\ old' = old /\ period' = period /\ archive' = archive
      /\ status' = status /\ replaceEdited' = replaceEdited /\ todo' = todo
      /\ edited' = edited \cup {o}
  BY DEF Edit, record, task
<1>2. replaceEdited' \in BOOLEAN
  BY <1>1, Zenon DEF PublishInv, TypeOK
<1>3. TypeOK'
  BY <1>1, <1>2 DEF PublishInv, TypeOK
<1>4. Proceeds(period, period') /\ NoneCancelled(period, period')
  BY <1>1, RowsStay
<1> QED BY <1>1, <1>3, <1>4, QuietSure

LEMMA DeleteOldSure ==
    ASSUME PublishInv, NEW o \in Olds, DeleteOld(o)
    PROVE  PublishInv' /\ GivesWay
<1>1. /\ job' = job /\ at' = at /\ period' = period /\ archive' = archive
      /\ status' = status /\ replaceEdited' = replaceEdited /\ todo' = todo
      /\ edited' = edited \ {o} /\ old' = [old EXCEPT ![o] = "deleted"]
  BY DEF DeleteOld, record, task
<1>2. replaceEdited' \in BOOLEAN
  BY <1>1, Zenon DEF PublishInv, TypeOK
<1>3. /\ old' \in [Olds -> {"active", "replaced", "deleted"}]
      /\ \A u \in Olds : old'[u] \in {old[u], "deleted"}
  BY <1>1 DEF PublishInv, TypeOK
<1>4. TypeOK'
  BY <1>1, <1>2, <1>3 DEF PublishInv, TypeOK
<1>5. Proceeds(period, period') /\ NoneCancelled(period, period')
  BY <1>1, RowsStay
<1> QED BY <1>1, <1>3, <1>4, <1>5, QuietSure

LEMMA DeleteNewSure ==
    ASSUME PublishInv, NEW p \in Periods, DeleteNew(p)
    PROVE  PublishInv' /\ GivesWay
<1>1. /\ job' = job /\ at' = at /\ archive' = archive /\ old' = old
      /\ status' = status /\ replaceEdited' = replaceEdited /\ todo' = todo
      /\ edited' = edited /\ period' = [period EXCEPT ![p].summary = "none"]
  BY DEF DeleteNew, record, task
<1>2. replaceEdited' \in BOOLEAN
  BY <1>1, Zenon DEF PublishInv, TypeOK
<1>3. period \in [Periods -> Row] /\ period[p] \in Row
  BY StatusUnchanged
<1>4. /\ [period[p] EXCEPT !.summary = "none"] \in Row
      /\ [period[p] EXCEPT !.summary = "none"].status = period[p].status
      /\ [period[p] EXCEPT !.summary = "none"].replaces = period[p].replaces
      /\ [period[p] EXCEPT !.summary = "none"].summary = "none"
  BY <1>3 DEF Row
<1>5. /\ period' \in [Periods -> Row]
      /\ period'[p] = [period[p] EXCEPT !.summary = "none"]
      /\ \A q \in Periods \ {p} : period'[q] = period[q]
  BY <1>1, <1>3, <1>4
<1>6. TypeOK'
  BY <1>1, <1>2, <1>5 DEF PublishInv, TypeOK
<1>7. \A q \in Periods : period'[q].status = period[q].status
  BY <1>4, <1>5
<1>8. Proceeds(period, period') /\ NoneCancelled(period, period')
  BY <1>4, <1>5, <1>7 DEF Proceeds, NoneCancelled
<1>9. job' = "summarizing" => period'[at].status = period[at].status
  BY <1>1, <1>7 DEF PublishInv, Working
<1> QED BY <1>1, <1>6, <1>8, <1>9, QuietSure

\* _abandon() step by step: what it makes of the rows is sound at each.
LEMMA AbandonedRows ==
    ASSUME NEW rs \in [Periods -> Row]
    PROVE  /\ DropLinked(rs) \in [Periods -> Row] /\ Proceeds(rs, DropLinked(rs))
           /\ DropStaged(rs) \in [Periods -> Row] /\ Proceeds(rs, DropStaged(rs))
           /\ CancelUnfinished(rs) \in [Periods -> Row] /\ Proceeds(rs, CancelUnfinished(rs))
<1>1. ASSUME NEW q \in Periods
      PROVE  /\ DropLinked(rs)[q] \in Row /\ DropLinked(rs)[q].replaces = rs[q].replaces
             /\ DropLinked(rs)[q].summary = rs[q].summary
             /\ DropLinked(rs)[q].status \in {rs[q].status, "cancelled"}
  <2>1. rs[q] \in Row
    OBVIOUS
  <2>2. /\ [rs[q] EXCEPT !.status = "cancelled", !.linked = FALSE] \in Row
        /\ [rs[q] EXCEPT !.status = "cancelled", !.linked = FALSE].status = "cancelled"
        /\ [rs[q] EXCEPT !.status = "cancelled", !.linked = FALSE].replaces = rs[q].replaces
        /\ [rs[q] EXCEPT !.status = "cancelled", !.linked = FALSE].summary = rs[q].summary
    BY <2>1 DEF Row
  <2>3. DropLinked(rs)[q] \in {rs[q], [rs[q] EXCEPT !.status = "cancelled", !.linked = FALSE]}
    BY DEF DropLinked
  <2> QED BY <2>1, <2>2, <2>3
<1>2. ASSUME NEW q \in Periods
      PROVE  /\ DropStaged(rs)[q] \in Row /\ DropStaged(rs)[q].replaces = rs[q].replaces
             /\ DropStaged(rs)[q].summary \in {rs[q].summary, "none"}
             /\ DropStaged(rs)[q].status = rs[q].status
  <2>1. rs[q] \in Row
    OBVIOUS
  <2>2. /\ [rs[q] EXCEPT !.summary = "none"] \in Row
        /\ [rs[q] EXCEPT !.summary = "none"].status = rs[q].status
        /\ [rs[q] EXCEPT !.summary = "none"].replaces = rs[q].replaces
        /\ [rs[q] EXCEPT !.summary = "none"].summary = "none"
    BY <2>1 DEF Row
  <2>3. DropStaged(rs)[q] \in {rs[q], [rs[q] EXCEPT !.summary = "none"]}
    BY DEF DropStaged
  <2> QED BY <2>1, <2>2, <2>3
<1>3. ASSUME NEW q \in Periods
      PROVE  /\ CancelUnfinished(rs)[q] \in Row
             /\ CancelUnfinished(rs)[q].replaces = rs[q].replaces
             /\ CancelUnfinished(rs)[q].summary = rs[q].summary
             /\ CancelUnfinished(rs)[q].status \in {rs[q].status, "cancelled"}
  <2>1. rs[q] \in Row
    OBVIOUS
  <2>2. /\ [rs[q] EXCEPT !.status = "cancelled"] \in Row
        /\ [rs[q] EXCEPT !.status = "cancelled"].status = "cancelled"
        /\ [rs[q] EXCEPT !.status = "cancelled"].replaces = rs[q].replaces
        /\ [rs[q] EXCEPT !.status = "cancelled"].summary = rs[q].summary
    BY <2>1 DEF Row
  <2>3. CancelUnfinished(rs)[q] \in {rs[q], [rs[q] EXCEPT !.status = "cancelled"]}
    BY DEF CancelUnfinished
  <2> QED BY <2>1, <2>2, <2>3
<1>4. /\ DropLinked(rs) \in [Periods -> Row]
      /\ DropStaged(rs) \in [Periods -> Row]
      /\ CancelUnfinished(rs) \in [Periods -> Row]
  BY <1>1, <1>2, <1>3 DEF DropLinked, DropStaged, CancelUnfinished
<1> QED BY <1>1, <1>2, <1>3, <1>4 DEF Proceeds

LEMMA CancelSure ==
    ASSUME PublishInv, Cancel
    PROVE  PublishInv' /\ GivesWay
<1> DEFINE NotStaged(rs) == \A q \in Periods : rs[q].summary # "staged"
           unlinked == DropLinked(period)
           dropped == DropStaged(unlinked)
           rest == CancelUnfinished(dropped)
<1>1. /\ period \in [Periods -> Row] /\ old \in [Olds -> {"active", "replaced", "deleted"}]
      /\ Sound(period, old)
      /\ archive = "done" => NotStaged(period)
  BY DEF PublishInv, Sure, Sound, Typed
<1>2. /\ unlinked \in [Periods -> Row] /\ Sound(unlinked, old)
      /\ archive = "done" => NotStaged(unlinked)
  BY <1>1, AbandonedRows, GoesOnSound
<1> HIDE DEF unlinked
<1>3. /\ dropped \in [Periods -> Row] /\ Sound(dropped, old)
      /\ archive = "done" => NotStaged(dropped)
  BY <1>1, <1>2, AbandonedRows, GoesOnSound
<1> HIDE DEF dropped
<1>4. /\ Sound(rest, old)
      /\ archive = "done" => NotStaged(rest)
  BY <1>1, <1>3, AbandonedRows, GoesOnSound
<1>5. /\ \/ /\ status' = "over" /\ period' = rest /\ JobEnds
            /\ UNCHANGED <<replaceEdited, old, edited>>
         \/ \E rs \in {period, unlinked, dropped, rest} : Dies(rs, old)
      /\ archive' = IF archive \in UNFINISHED_STAGES THEN "cancelled" ELSE archive
  BY DEF Cancel, unlinked, dropped
<1> HIDE DEF rest
<1>6. archive' \in Statuses /\ archive' \notin UNFINISHED_STAGES
      /\ (archive' = "done" => archive = "done")
  BY <1>5, StatusUnchanged DEF Statuses, UNFINISHED_STAGES
<1>7. ASSUME NEW rs \in {period, unlinked, dropped, rest}
      PROVE  Sure(rs, old, archive')
  BY <1>1, <1>2, <1>3, <1>4, <1>6 DEF Sure
<1>8. CASE /\ status' = "over" /\ period' = rest /\ JobEnds
           /\ UNCHANGED <<replaceEdited, old, edited>>
  <2>1. Sure(period', old', archive')
    BY <1>7, <1>8
  <2> QED BY <1>6, <1>8, <2>1, EndsSure, StatusUnchanged, StillGivesWay
<1>9. ASSUME NEW rs \in {period, unlinked, dropped, rest}, Dies(rs, old)
      PROVE  PublishInv' /\ GivesWay
  <2>1. PublishInv'
    BY <1>6, <1>7, <1>9, DiesSure
  <2>2. \A o \in Olds : old'[o] \in {old[o], "deleted"}
    BY <1>9 DEF Dies
  <2> QED BY <2>1, <2>2, StillGivesWay
<1> QED BY <1>5, <1>8, <1>9

LEMMA ClearSure ==
    ASSUME PublishInv, Clear
    PROVE  PublishInv' /\ GivesWay
<1>1. /\ job' = job /\ at' = at /\ archive' = archive
      /\ status' = status /\ replaceEdited' = replaceEdited /\ todo' = todo
      /\ edited' = {} /\ old' = [o \in Olds |-> "deleted"]
  BY DEF Clear, record, task
<1>2. ASSUME NEW q \in Periods
      PROVE  /\ period'[q] \in Row /\ period'[q].summary = "none"
             /\ period'[q].status # "cancelled"
             /\ period'[q].status \in {"absent", "reused"} => period'[q].replaces = {}
             /\ period[q].status = "running" => period'[q].status = "running"
  <2>1. period[q] \in Row
    BY StatusUnchanged
  <2>2. /\ Absent \in Row /\ Absent.summary = "none" /\ Absent.status = "absent"
        /\ Absent.replaces = {}
    BY DEF Absent, Row
  <2>3. /\ [period[q] EXCEPT !.summary = "none"] \in Row
        /\ [period[q] EXCEPT !.summary = "none"].status = period[q].status
        /\ [period[q] EXCEPT !.summary = "none"].replaces = period[q].replaces
        /\ [period[q] EXCEPT !.summary = "none"].summary = "none"
    BY <2>1 DEF Row
  <2>4. period'[q] = IF period[q].status \in {"done", "reused", "failed", "cancelled"}
                     THEN Absent ELSE [period[q] EXCEPT !.summary = "none"]
    BY DEF Clear
  <2>5. period[q].status = "absent" => period[q].replaces = {}
    BY StatusUnchanged DEF Sound, Made
  <2>6. CASE period[q].status \in {"done", "reused", "failed", "cancelled"}
    BY <2>2, <2>4, <2>6
  <2>7. CASE period[q].status \notin {"done", "reused", "failed", "cancelled"}
    BY <2>3, <2>4, <2>5, <2>7
  <2> QED BY <2>6, <2>7
<1>3. period' \in [Periods -> Row]
  BY <1>2 DEF Clear
<1>4. old' \in [Olds -> {"active", "replaced", "deleted"}]
  BY <1>1
<1>5. Sound(period', old') /\ Together(period')
  BY <1>1, <1>2, <1>3, <1>4 DEF Sound, Typed, OneEach, Covered, Made, Together
<1>6. Sure(period', old', archive')
  BY <1>2, <1>5 DEF Sure
<1>7. replaceEdited' \in BOOLEAN
  BY <1>1, Zenon DEF PublishInv, TypeOK
<1>8. TypeOK'
  BY <1>1, <1>3, <1>4, <1>7 DEF PublishInv, TypeOK
<1>9. job' = "summarizing" =>
          archive' = "running" /\ at' \in Periods /\ period'[at'].status = "running"
  BY <1>1, <1>2 DEF PublishInv, Working
<1>10. \A o \in Olds : old'[o] \in {old[o], "deleted"}
  BY <1>1
<1> QED BY <1>6, <1>8, <1>9, <1>10, SureNext, StillGivesWay

LEMMA InitSure ==
    ASSUME Init
    PROVE  PublishInv
<1>1. \A p \in Periods : period[p] = Absent
  BY DEF Init
<1>2. /\ Absent \in Row /\ Absent.summary = "none" /\ Absent.status = "absent"
      /\ Absent.replaces = {}
  BY DEF Absent, Row
<1>3. period \in [Periods -> Row] /\ old \in [Olds -> {"active", "replaced", "deleted"}]
  BY <1>2 DEF Init
<1>4. replaceEdited \in BOOLEAN
  BY Zenon DEF Init
<1>5. TypeOK
  BY <1>3, <1>4, SpansAssumption DEF Init, TypeOK, Statuses
<1>6. \A p \in Periods :
          /\ period[p].summary = "none" /\ period[p].status = "absent"
          /\ period[p].replaces = {}
  BY <1>1, <1>2
<1>7. Sound(period, old) /\ Together(period)
  BY <1>3, <1>6 DEF Sound, Typed, OneEach, Covered, Made, Together
<1> QED BY <1>5, <1>6, <1>7 DEF PublishInv, Sure, Init

LEMMA NextSure ==
    ASSUME PublishInv, [Next]_vars
    PROVE  PublishInv' /\ GivesWay
<1>1. CASE UNCHANGED vars
  <2>1. /\ UNCHANGED <<status, archive, replaceEdited, job, at, todo, period, old, edited>>
    BY <1>1 DEF vars, record, task
  <2>2. replaceEdited' \in BOOLEAN
    BY <2>1, Zenon DEF PublishInv, TypeOK
  <2>3. TypeOK'
    BY <2>1, <2>2 DEF PublishInv, TypeOK
  <2>4. Proceeds(period, period') /\ NoneCancelled(period, period')
    BY <2>1, RowsStay
  <2> QED BY <2>1, <2>3, <2>4, QuietSure
<1>2. CASE LoadEnds
  BY <1>2, LoadEndsSure
<1>3. CASE DiesCreating
  BY <1>3, DiesCreatingSure
<1>4. CASE CompleteOnly
  BY <1>4, CompleteOnlySure
<1>5. CASE PeriodEnds
  BY <1>5, PeriodEndsSure
<1>6. CASE PeriodFails
  BY <1>6, PeriodFailsSure
<1>7. CASE Pause
  BY <1>7, PauseSure
<1>8. CASE Resume
  BY <1>8, ResumeSure
<1>9. CASE Cancel
  BY <1>9, CancelSure
<1>10. CASE Crash
  BY <1>10, CrashSure
<1>11. CASE ResumeInterrupted
  BY <1>11, ResumeInterruptedSure
<1>12. CASE \E o \in Olds : Edit(o)
  BY <1>12, EditSure
<1>13. CASE OwnerDeletes
  BY <1>13, ClearSure, DeleteOldSure, DeleteNewSure DEF OwnerDeletes
<1> QED BY <1>1, <1>2, <1>3, <1>4, <1>5, <1>6, <1>7, <1>8, <1>9, <1>10, <1>11, <1>12, <1>13
    DEF Next

-----------------------------------------------------------------------------
(* The theorems *)

\* The inductive invariant: what may still be made replaces all that is in
\* its way, and a group is cancelled as a whole.
THEOREM Invariance == Spec => []PublishInv
<1>1. Init => PublishInv
  BY InitSure
<1>2. PublishInv /\ [Next]_vars => PublishInv'
  BY NextSure
<1> QED BY <1>1, <1>2, PTL DEF Spec

\* Whatever the owner does and wherever the process dies, no date has a new
\* and an older summary in use, and an import that is done has published all
\* it made.
THEOREM PublishedIsSound == Spec => []HistorySound
<1>1. PublishInv => HistorySound
  BY DEF PublishInv, Sure, Sound, OneEach, Overlap, HistorySound, ActiveNeverOverlap, DonePublishes
<1> QED BY <1>1, Invariance, PTL

\* publish_group(): older summaries are replaced only once all that replaces
\* them is in use, and not against the owner's edits.
THEOREM ReplacedRightly == Spec => ReplacedAsAllowed
<1>1. ASSUME PublishInv, [Next]_vars
      PROVE  /\ \A o \in Olds : old[o] = "active" /\ old'[o] = "replaced" =>
                    \A p \in Periods : o \in period'[p].replaces => period'[p].summary = "active"
             /\ ~replaceEdited => \A o \in edited : old[o] = "active" => old'[o] # "replaced"
  <2>1. GivesWay /\ edited \in SUBSET Olds
    BY <1>1, NextSure, StatusUnchanged
  <2> QED BY <2>1 DEF GivesWay
<1>2. PublishInv /\ [Next]_vars =>
        /\ [\A o \in Olds : old[o] = "active" /\ old'[o] = "replaced" =>
               \A p \in Periods : o \in period'[p].replaces =>
                   period'[p].summary = "active"]_vars
        /\ [~replaceEdited =>
               \A o \in edited : old[o] = "active" => old'[o] # "replaced"]_vars
  BY <1>1
<1> QED BY <1>2, Invariance, PTL DEF Spec, ReplacedAsAllowed, GroupsSwapWhole, EditsAreKept

-----------------------------------------------------------------------------
(* Live chat: the invariant *)

Texts == {"first", "edited"}
Summary == [status : {"active"}, of : Seq(AllLines \X Texts \X Generations), noted : BOOLEAN]
Work == [month : AllMonths, lines : Seq(AllLines \X Texts), gone : BOOLEAN,
         settings : Generations, asked : Generations, failures : 0 .. ATTEMPTS_PER_PART]

ArchiveTyped ==
    /\ stored \in [AllLines -> {"none", "first", "edited"}]
    /\ monthsOver \in 0 .. Months /\ since \in AllLines \cup {NoDate}
    /\ wanted \in BOOLEAN /\ coolsOff \in BOOLEAN /\ lockTaken \in BOOLEAN
    /\ settings \in Generations
    /\ periods \in [AllMonths -> {NoPeriod} \cup Period]
    /\ summaries \in [AllMonths -> {NoSummary} \cup Summary]
    /\ writer \in {"idle", "asking", "sleeping"}
    /\ writer # "idle" => work \in Work
    /\ failedTries \in [AllMonths -> Nat]
    /\ archiveActs \in 0 .. MaxActs /\ refusals \in 0 .. MaxRefusals

\* The row keeps count of what failed, across restarts.
TriesMatch ==
    \A k \in AllMonths : failedTries[k] = IF HasPeriod(k) THEN periods[k].attempts ELSE 0

\* What was saved of a month's work is the beginning of what it read, which
\* is still stored.
Begins(row, lines) ==
    /\ Len(row.partial) <= Len(lines)
    /\ SourceHash(row.partial) = SubSeq(lines, 1, Len(row.partial))
    /\ \A i \in 1 .. Len(lines) : lines[i][1] >= row.start /\ stored[lines[i][1]] # "none"

Progresses ==
    writer # "idle" =>
        /\ HasPeriod(work.month) /\ periods[work.month].status = "running"
        /\ periods[work.month].attempts = work.failures /\ work.failures < ATTEMPTS_PER_PART
        /\ Len(periods[work.month].partial) < Len(work.lines)
        /\ Begins(periods[work.month], work.lines)

\* Only a month that is done has a summary, of messages since its start.
SummariesAreOfDone ==
    \A k \in AllMonths : summaries[k] # NoSummary =>
        /\ HasPeriod(k) /\ periods[k].status = "done"
        /\ \A i \in 1 .. Len(summaries[k].of) : summaries[k].of[i][1] >= periods[k].start

ArchiveInv == ArchiveTyped /\ TriesMatch /\ Progresses /\ SummariesAreOfDone /\ GoneIsSaid


-----------------------------------------------------------------------------
(* Live chat: lines in the order of their dates *)

Sooner(S, x) == {n \in S : n < x}

LEMMA PlacesDiffer ==
    ASSUME NEW S, S \subseteq Nat, IsFiniteSet(S), NEW x \in S, NEW y \in S, x < y
    PROVE  /\ Cardinality(Sooner(S, x)) \in Nat /\ Cardinality(Sooner(S, y)) \in Nat
           /\ Cardinality(Sooner(S, x)) < Cardinality(Sooner(S, y))
<1>1. PICK A, B : A = Sooner(S, x) /\ B = Sooner(S, y)
  OBVIOUS
<1>2. A \in SUBSET S /\ B \in SUBSET S
  BY <1>1 DEF Sooner
<1>3. IsFiniteSet(A) /\ IsFiniteSet(B) /\ Cardinality(A) \in Nat /\ Cardinality(B) \in Nat
  BY <1>2, FS_Subset, FS_CardinalityType
<1>4. x \in B /\ A \subseteq B \ {x}
  <2>1. x \in Nat /\ y \in Nat
    OBVIOUS
  <2>2. ASSUME NEW n \in A PROVE n \in S /\ n < y /\ n # x
    <3>1. n \in S /\ n \in Nat /\ n < x
      BY <1>1 DEF Sooner
    <3> QED BY <2>1, <3>1
  <2>3. x \in B
    BY <1>1 DEF Sooner
  <2>4. \A n \in A : n \in B
    BY <1>1, <2>2 DEF Sooner
  <2> QED BY <2>2, <2>3, <2>4
<1>5. IsFiniteSet(B \ {x}) /\ Cardinality(B \ {x}) = Cardinality(B) - 1
  BY <1>3, <1>4, FS_RemoveElement
<1>6. Cardinality(A) <= Cardinality(B \ {x})
  BY <1>4, <1>5, FS_Subset
<1> QED BY <1>1, <1>3, <1>5, <1>6

\* Each line has its place, and no place is left out.
LEMMA DateOrder ==
    ASSUME NEW S, S \subseteq Nat, IsFiniteSet(S)
    PROVE  Cardinality(S) \in Nat /\ ByDate(S) \in [1 .. Cardinality(S) -> S]
<1>1. PICK n : n = Cardinality(S)
  OBVIOUS
<1>2. n \in Nat
  BY <1>1, FS_CardinalityType
<1>3. PICK rank : rank = [x \in S |-> Cardinality(Sooner(S, x))]
  OBVIOUS
<1>4. ASSUME NEW x \in S PROVE rank[x] \in 0 .. n - 1
  <2>1. Sooner(S, x) \subseteq S \ {x}
    BY DEF Sooner
  <2>2. IsFiniteSet(S \ {x}) /\ Cardinality(S \ {x}) = n - 1
    BY <1>1, FS_RemoveElement
  <2>3. PICK b : b = Cardinality(Sooner(S, x))
    OBVIOUS
  <2>4. b \in Nat /\ b <= n - 1
    BY <2>1, <2>2, <2>3, FS_Subset, FS_CardinalityType
  <2> QED BY <1>2, <1>3, <2>3, <2>4
<1>5. ASSUME NEW x \in S, NEW y \in S, rank[x] = rank[y] PROVE x = y
  <2>1. PICK a, b : a = Cardinality(Sooner(S, x)) /\ b = Cardinality(Sooner(S, y)) /\ a = b
    BY <1>3, <1>5
  <2>2. CASE x < y
    <3>1. a \in Nat /\ b \in Nat /\ a < b
      BY <2>1, <2>2, PlacesDiffer
    <3> QED BY <2>1, <3>1
  <2>3. CASE y < x
    <3>1. a \in Nat /\ b \in Nat /\ b < a
      BY <2>1, <2>3, PlacesDiffer
    <3> QED BY <2>1, <3>1
  <2>4. x \in Nat /\ y \in Nat
    OBVIOUS
  <2> QED BY <2>2, <2>3, <2>4
<1>6. rank \in Injection(S, 0 .. n - 1)
  <2>1. rank \in [S -> 0 .. n - 1]
    BY <1>3, <1>4
  <2> QED BY <1>5, <2>1 DEF Injection, IsInjective
<1>7. IsFiniteSet(0 .. n - 1) /\ Cardinality(0 .. n - 1) = n
  <2>1. IsFiniteSet(0 .. n - 1) /\ Cardinality(0 .. n - 1) = IF 0 > n - 1 THEN 0 ELSE n - 1 - 0 + 1
    BY <1>2, FS_Interval
  <2> QED BY <1>2, <2>1
<1>8. rank \in Surjection(S, 0 .. n - 1)
  BY <1>1, <1>6, <1>7, FS_Injection
<1>9. ASSUME NEW k \in 1 .. n PROVE \E x \in S : Cardinality(Sooner(S, x)) = k - 1
  <2>1. k - 1 \in 0 .. n - 1
    BY <1>2
  <2>2. \E x \in S : rank[x] = k - 1
    BY <1>8, <2>1 DEF Surjection
  <2> QED BY <1>3, <2>2
<1>10. PICK order : order = [k \in 1 .. n |-> CHOOSE x \in S : Cardinality(Sooner(S, x)) = k - 1]
  OBVIOUS
<1>11. /\ order \in [1 .. n -> S]
       /\ \A k \in 1 .. n : order[k] \in S /\ Cardinality(Sooner(S, order[k])) = k - 1
  BY <1>9, <1>10
<1>12. ASSUME NEW i \in 1 .. n, NEW j \in 1 .. n, i < j PROVE order[i] < order[j]
  <2>1. PICK x, y : x = order[i] /\ y = order[j]
    OBVIOUS
  <2>2. /\ x \in S /\ y \in S /\ x \in Nat /\ y \in Nat
        /\ Cardinality(Sooner(S, x)) = i - 1 /\ Cardinality(Sooner(S, y)) = j - 1
    BY <1>11, <2>1
  <2>3. i \in Nat /\ j \in Nat /\ i - 1 < j - 1
    BY <1>2, <1>12
  <2>4. ~(y < x)
    <3>1. ASSUME y < x PROVE FALSE
      <4>1. Cardinality(Sooner(S, y)) < Cardinality(Sooner(S, x))
        BY <2>2, <3>1, PlacesDiffer
      <4> QED BY <2>2, <2>3, <4>1
    <3> QED BY <3>1
  <2>5. x # y
    BY <2>2, <2>3
  <2> QED BY <2>1, <2>2, <2>4, <2>5
<1>13. DOMAIN order = 1 .. n
  BY <1>11
<1>14. \E s \in [1 .. n -> S] : \A i, j \in DOMAIN s : i < j => s[i] < s[j]
  BY <1>11, <1>12, <1>13
<1>15. ByDate(S) \in [1 .. n -> S]
  BY <1>1, <1>14 DEF ByDate
<1> QED BY <1>1, <1>2, <1>15

-----------------------------------------------------------------------------
(* Live chat: what is read *)

LEMMA TheMonths ==
    /\ Months \in Nat \ {0} /\ ATTEMPTS_PER_PART \in Nat \ {0} /\ PerRequest \in Nat \ {0}
    /\ \A k \in 1 .. Months + 1 : FirstOf[k] \in Nat \ {0}
    /\ \A k \in AllMonths : LinesOf(k) \subseteq AllLines
    /\ AllLines \subseteq Nat \ {0} /\ IsFiniteSet(AllLines) /\ Cardinality(AllLines) \in Nat
    /\ Generations \subseteq Nat /\ Generations # {}
<1>1. /\ Months \in Nat \ {0} /\ ATTEMPTS_PER_PART \in Nat \ {0} /\ PerRequest \in Nat \ {0}
      /\ \A k \in 1 .. Months + 1 : FirstOf[k] \in Nat \ {0}
      /\ \A j, k \in 1 .. Months + 1 : j <= k => FirstOf[j] <= FirstOf[k]
      /\ Generations \subseteq Nat /\ Generations # {}
  BY ArchiveAssumption
<1>2. PICK last : last = FirstOf[Months + 1] /\ last \in Nat \ {0}
  BY <1>1
<1>3. ASSUME NEW k \in AllMonths PROVE LinesOf(k) \subseteq AllLines
  <2>1. k \in 1 .. Months + 1 /\ k + 1 \in 1 .. Months + 1 /\ k + 1 <= Months + 1
        /\ Months + 1 \in 1 .. Months + 1
    BY <1>1 DEF AllMonths
  <2>2. PICK a, b : a = FirstOf[k] /\ b = FirstOf[k + 1]
    OBVIOUS
  <2>3. a \in Nat \ {0} /\ b \in Nat \ {0} /\ b <= last
    BY <1>1, <1>2, <2>1, <2>2
  <2> QED BY <1>2, <2>2, <2>3 DEF LinesOf, AllLines
<1>4. AllLines = 1 .. last - 1
  BY <1>2 DEF AllLines
<1>5. IsFiniteSet(AllLines)
  BY <1>2, <1>4, FS_Interval
<1> QED BY <1>1, <1>2, <1>3, <1>4, <1>5, FS_CardinalityType

LEMMA StoredIs ==
    ASSUME NEW k \in AllMonths, NEW start
    PROVE  /\ StoredOf(k, start) \in SUBSET AllLines
           /\ Cardinality(StoredOf(k, start)) \in 0 .. Cardinality(AllLines)
           /\ \A m \in StoredOf(k, start) : m >= start /\ stored[m] # "none" /\ m \in LinesOf(k)
<1>1. StoredOf(k, start) \in SUBSET AllLines
  BY TheMonths DEF StoredOf
<1>2. PICK S, a, b : S = StoredOf(k, start) /\ a = Cardinality(S) /\ b = Cardinality(AllLines)
  OBVIOUS
<1>3. a \in Nat /\ b \in Nat /\ a <= b
  BY <1>1, <1>2, TheMonths, FS_Subset, FS_CardinalityType
<1>4. \A m \in StoredOf(k, start) : m >= start /\ stored[m] # "none" /\ m \in LinesOf(k)
  BY DEF StoredOf
<1> QED BY <1>1, <1>2, <1>3, <1>4

LEMMA ReadableIs ==
    ASSUME ArchiveTyped, NEW ms \in SUBSET AllLines, \A m \in ms : stored[m] # "none"
    PROVE  /\ Readable(ms) \in Seq(AllLines \X Texts)
           /\ \A i \in 1 .. Len(Readable(ms)) : Readable(ms)[i][1] \in ms
<1>1. PICK n, s, r : /\ s = ByDate(ms \ Unreadable) /\ n = Cardinality(ms \ Unreadable)
                     /\ r = Readable(ms)
  OBVIOUS
<1>2. ms \ Unreadable \in SUBSET AllLines
  OBVIOUS
<1>3. IsFiniteSet(ms \ Unreadable) /\ ms \ Unreadable \subseteq Nat
  BY <1>2, TheMonths, FS_Subset
<1>4. n \in Nat /\ s \in [1 .. n -> ms \ Unreadable]
  BY <1>1, <1>3, DateOrder
<1>5. r = [i \in 1 .. n |-> <<s[i], stored[s[i]]>>]
  BY <1>1, <1>4 DEF Readable
<1>6. ASSUME NEW i \in 1 .. n PROVE r[i] \in AllLines \X Texts /\ r[i][1] \in ms
  <2>1. s[i] \in ms /\ s[i] \in AllLines
    BY <1>4
  <2>2. stored[s[i]] \in Texts
    BY <2>1 DEF ArchiveTyped, Texts
  <2> QED BY <1>5, <2>1, <2>2
<1>7. PICK T : T = AllLines \X Texts
  OBVIOUS
<1>8. r \in [1 .. n -> T]
  BY <1>5, <1>6, <1>7
<1>9. r \in Seq(T) /\ Len(r) = n
  BY <1>4, <1>8
<1> QED BY <1>1, <1>6, <1>7, <1>9

Saved == AllLines \X Texts \X Generations

LEMMA HashIs ==
    ASSUME NEW read \in Seq(Saved)
    PROVE  /\ SourceHash(read) \in Seq(AllLines \X Texts) /\ Len(SourceHash(read)) = Len(read)
           /\ \A i \in 1 .. Len(read) : SourceHash(read)[i] = <<read[i][1], read[i][2]>>
<1>1. PICK h, n, T : h = SourceHash(read) /\ n = Len(read) /\ T = AllLines \X Texts
  OBVIOUS
<1>2. n \in Nat /\ DOMAIN read = 1 .. n
  BY <1>1
<1>3. h = [i \in 1 .. n |-> <<read[i][1], read[i][2]>>]
  BY <1>1, <1>2 DEF SourceHash
<1>4. ASSUME NEW i \in 1 .. n PROVE <<read[i][1], read[i][2]>> \in T
  <2>1. read[i] \in Saved
    BY <1>1, <1>2
  <2>2. read[i][1] \in AllLines /\ read[i][2] \in Texts
    BY <2>1 DEF Saved
  <2> QED BY <1>1, <2>2
<1>5. h \in [1 .. n -> T]
  BY <1>3, <1>4
<1>6. h \in Seq(T) /\ Len(h) = n
  BY <1>2, <1>5
<1> QED BY <1>1, <1>3, <1>6


-----------------------------------------------------------------------------
(* Live chat: the writer's steps *)

Aside == /\ UNCHANGED stored /\ UNCHANGED since /\ UNCHANGED monthsOver
         /\ UNCHANGED wanted /\ UNCHANGED settings /\ UNCHANGED lockTaken
Counted == archiveActs \in 0 .. MaxActs /\ refusals \in 0 .. MaxRefusals
NotDone(k) == HasPeriod(k) => periods[k].status # "done"

\* What SummariesAreWhole and DoneForGood say of a step
MadeWhole ==
    \A k \in AllMonths : summaries[k] = NoSummary /\ summaries'[k] # NoSummary =>
        SourceHash(summaries'[k].of) = LinesRead(k)
DoneStays ==
    \A k \in AllMonths : HasPeriod(k) /\ periods[k].status = "done" =>
        /\ periods'[k] # NoPeriod /\ periods'[k].status = "done"
        /\ summaries[k] = NoSummary => summaries'[k] = NoSummary

LEMMA NoPeriodIs == NoPeriod \notin Period /\ NoSummary \notin Summary
<1>1. NoPeriod.status = "absent" /\ NoSummary.status = "absent"
  BY DEF NoPeriod, NoSummary
<1>2. \A row \in Period : row.status # "absent"
  BY DEF Period
<1>3. \A row \in Summary : row.status # "absent"
  BY DEF Summary
<1> QED BY <1>1, <1>2, <1>3

LEMMA ArchiveIs ==
    ASSUME ArchiveInv
    PROVE  /\ ArchiveTyped /\ TriesMatch /\ Progresses /\ SummariesAreOfDone /\ GoneIsSaid
           /\ \A k \in AllMonths : HasPeriod(k) => periods[k] \in Period
           /\ \A k \in AllMonths : summaries[k] # NoSummary => summaries[k] \in Summary
           /\ \A k \in AllMonths : NotDone(k) => summaries[k] = NoSummary
BY DEF ArchiveInv, ArchiveTyped, HasPeriod, SummariesAreOfDone, NotDone

\* A month's row is written, and what failed is counted in it.
LEMMA Written ==
    ASSUME ArchiveInv, NEW k \in AllMonths, NEW new \in Period, 
           periods' = [periods EXCEPT ![k] = new],
           failedTries' \in [AllMonths -> Nat], failedTries'[k] = new.attempts,
           \A j \in AllMonths \ {k} : failedTries'[j] = failedTries[j]
    PROVE  /\ periods' \in [AllMonths -> {NoPeriod} \cup Period]
           /\ periods'[k] = new /\ new # NoPeriod
           /\ \A j \in AllMonths \ {k} : periods'[j] = periods[j]
           /\ TriesMatch'
<1>1. periods \in [AllMonths -> {NoPeriod} \cup Period]
  BY ArchiveIs DEF ArchiveTyped
<1>2. new # NoPeriod
  BY NoPeriodIs
<1>3. /\ periods' \in [AllMonths -> {NoPeriod} \cup Period] /\ periods'[k] = new
      /\ \A j \in AllMonths \ {k} : periods'[j] = periods[j]
  BY <1>1
<1>4. TriesMatch'
  <2> SUFFICES ASSUME NEW j \in AllMonths
               PROVE  failedTries'[j] = IF periods'[j] # NoPeriod THEN periods'[j].attempts ELSE 0
    BY DEF TriesMatch, HasPeriod
  <2>1. CASE j = k
    BY <1>2, <1>3, <2>1
  <2>2. CASE j # k
    BY <1>3, <2>2, ArchiveIs DEF TriesMatch, HasPeriod
  <2> QED BY <2>1, <2>2
<1> QED BY <1>2, <1>3, <1>4

\* No summary is touched, and the row is of a month that is not done.
LEMMA SummariesStay ==
    ASSUME ArchiveInv, NEW k \in AllMonths, NotDone(k), UNCHANGED summaries, UNCHANGED stored,
           \A j \in AllMonths \ {k} : periods'[j] = periods[j]
    PROVE  SummariesAreOfDone' /\ GoneIsSaid' /\ MadeWhole /\ DoneStays
<1>1. summaries[k] = NoSummary
  BY ArchiveIs
<1>2. SummariesAreOfDone'
  <2> SUFFICES ASSUME NEW j \in AllMonths, summaries[j] # NoSummary
               PROVE  /\ periods'[j] # NoPeriod /\ periods'[j].status = "done"
                      /\ \A i \in 1 .. Len(summaries[j].of) : summaries[j].of[i][1] >= periods'[j].start
    BY DEF SummariesAreOfDone, HasPeriod
  <2>1. periods'[j] = periods[j]
    BY <1>1
  <2> QED BY <2>1, ArchiveIs DEF SummariesAreOfDone, HasPeriod
<1>3. GoneIsSaid'
  BY ArchiveIs DEF GoneIsSaid
<1>4. MadeWhole
  BY DEF MadeWhole
<1>5. DoneStays
  <2> SUFFICES ASSUME NEW j \in AllMonths, HasPeriod(j), periods[j].status = "done"
               PROVE  /\ periods'[j] # NoPeriod /\ periods'[j].status = "done"
                      /\ summaries[j] = NoSummary => summaries'[j] = NoSummary
    BY DEF DoneStays
  <2>1. j # k
    BY DEF NotDone
  <2> QED BY <2>1 DEF HasPeriod
<1> QED BY <1>2, <1>3, <1>4, <1>5

LEMMA MonthRested ==
    ASSUME ArchiveInv, NEW k \in AllMonths, NEW new \in Period, NotDone(k),
           periods' = [periods EXCEPT ![k] = new],
           failedTries' \in [AllMonths -> Nat], failedTries'[k] = new.attempts,
           \A j \in AllMonths \ {k} : failedTries'[j] = failedTries[j],
           Aside, Counted', coolsOff' \in BOOLEAN,
           UNCHANGED summaries, writer' = "idle"
    PROVE  ArchiveInv' /\ MadeWhole /\ DoneStays
<1>1. /\ periods' \in [AllMonths -> {NoPeriod} \cup Period] /\ TriesMatch'
      /\ \A j \in AllMonths \ {k} : periods'[j] = periods[j]
  BY Written
<1>2. ArchiveTyped'
  BY <1>1, ArchiveIs DEF ArchiveTyped, Aside, Counted
<1>3. Progresses'
  BY DEF Progresses
<1>4. SummariesAreOfDone' /\ GoneIsSaid' /\ MadeWhole /\ DoneStays
  BY <1>1, SummariesStay DEF Aside
<1> QED BY <1>1, <1>2, <1>3, <1>4 DEF ArchiveInv

LEMMA MonthWorked ==
    ASSUME ArchiveInv, NEW k \in AllMonths, NEW new \in Period, NotDone(k),
           periods' = [periods EXCEPT ![k] = new],
           failedTries' \in [AllMonths -> Nat], failedTries'[k] = new.attempts,
           \A j \in AllMonths \ {k} : failedTries'[j] = failedTries[j],
           Aside, Counted', coolsOff' \in BOOLEAN,
           UNCHANGED summaries, writer' \in {"asking", "sleeping"},
           NEW w \in Work, work' = w, w.month = k, new.status = "running",
           new.attempts = w.failures, w.failures < ATTEMPTS_PER_PART,
           Len(new.partial) < Len(w.lines), Begins(new, w.lines)
    PROVE  ArchiveInv' /\ MadeWhole /\ DoneStays
<1>1. /\ periods' \in [AllMonths -> {NoPeriod} \cup Period] /\ TriesMatch'
      /\ \A j \in AllMonths \ {k} : periods'[j] = periods[j]
      /\ periods'[k] = new /\ new # NoPeriod
  <2>1. periods' \in [AllMonths -> {NoPeriod} \cup Period] /\ TriesMatch'
    BY Written
  <2>2. (\A j \in AllMonths \ {k} : periods'[j] = periods[j]) /\ periods'[k] = new
    BY ArchiveIs DEF ArchiveTyped
  <2>3. new # NoPeriod
    BY NoPeriodIs
  <2> QED BY <2>1, <2>2, <2>3
<1>2. ArchiveTyped'
  BY <1>1, ArchiveIs DEF ArchiveTyped, Aside, Counted
<1>3. Progresses'
  <2>1. Begins(new, w.lines)'
    BY DEF Begins, Aside, SourceHash
  <2> QED BY <1>1, <2>1 DEF Progresses, HasPeriod
<1>4. SummariesAreOfDone' /\ GoneIsSaid' /\ MadeWhole /\ DoneStays
  BY <1>1, SummariesStay DEF Aside
<1> QED BY <1>1, <1>2, <1>3, <1>4 DEF ArchiveInv

LEMMA MonthCompleted ==
    ASSUME ArchiveInv, NEW k \in AllMonths, NEW new \in Period, NotDone(k),
           periods' = [periods EXCEPT ![k] = new],
           failedTries' \in [AllMonths -> Nat], failedTries'[k] = new.attempts,
           \A j \in AllMonths \ {k} : failedTries'[j] = failedTries[j],
           Aside, Counted', coolsOff' \in BOOLEAN, writer' = "idle",
           NEW s \in Summary, summaries' = [summaries EXCEPT ![k] = s],
           new.status = "done", SourceHash(s.of) = LinesRead(k),
           \A i \in 1 .. Len(s.of) : s.of[i][1] >= new.start /\ stored[s.of[i][1]] # "none"
    PROVE  ArchiveInv' /\ MadeWhole /\ DoneStays
<1>1. /\ periods' \in [AllMonths -> {NoPeriod} \cup Period] /\ TriesMatch'
      /\ \A j \in AllMonths \ {k} : periods'[j] = periods[j]
      /\ periods'[k] = new /\ new # NoPeriod
  <2>1. periods' \in [AllMonths -> {NoPeriod} \cup Period] /\ TriesMatch'
    BY Written
  <2>2. (\A j \in AllMonths \ {k} : periods'[j] = periods[j]) /\ periods'[k] = new
    BY ArchiveIs DEF ArchiveTyped
  <2>3. new # NoPeriod
    BY NoPeriodIs
  <2> QED BY <2>1, <2>2, <2>3
<1>2. /\ summaries' \in [AllMonths -> {NoSummary} \cup Summary] /\ summaries'[k] = s
      /\ \A j \in AllMonths \ {k} : summaries'[j] = summaries[j]
  BY ArchiveIs DEF ArchiveTyped
<1>3. ArchiveTyped'
  BY <1>1, <1>2, ArchiveIs DEF ArchiveTyped, Aside, Counted
<1>4. Progresses'
  BY DEF Progresses
<1>5. SummariesAreOfDone'
  <2> SUFFICES ASSUME NEW j \in AllMonths, summaries'[j] # NoSummary
               PROVE  /\ periods'[j] # NoPeriod /\ periods'[j].status = "done"
                      /\ \A i \in 1 .. Len(summaries'[j].of) : summaries'[j].of[i][1] >= periods'[j].start
    BY DEF SummariesAreOfDone, HasPeriod
  <2>1. CASE j = k
    BY <1>1, <1>2, <2>1
  <2>2. CASE j # k
    BY <1>1, <1>2, <2>2, ArchiveIs DEF SummariesAreOfDone, HasPeriod
  <2> QED BY <2>1, <2>2
<1>6. GoneIsSaid'
  <2> SUFFICES ASSUME NEW j \in AllMonths, summaries'[j] # NoSummary, ~summaries'[j].noted,
                      NEW i \in DOMAIN summaries'[j].of
               PROVE  stored'[summaries'[j].of[i][1]] # "none"
    BY DEF GoneIsSaid
  <2>1. CASE j = k
    <3>1. DOMAIN s.of = 1 .. Len(s.of)
      BY DEF Summary
    <3> QED BY <1>2, <2>1, <3>1 DEF Aside
  <2>2. CASE j # k
    BY <1>2, <2>2, ArchiveIs DEF GoneIsSaid, Aside
  <2> QED BY <2>1, <2>2
<1>7. MadeWhole
  <2> SUFFICES ASSUME NEW j \in AllMonths, summaries[j] = NoSummary, summaries'[j] # NoSummary
               PROVE  SourceHash(summaries'[j].of) = LinesRead(j)
    BY DEF MadeWhole
  <2>1. j = k
    BY <1>2
  <2> QED BY <1>2, <2>1
<1>8. DoneStays
  <2> SUFFICES ASSUME NEW j \in AllMonths, HasPeriod(j), periods[j].status = "done"
               PROVE  /\ periods'[j] # NoPeriod /\ periods'[j].status = "done"
                      /\ summaries[j] = NoSummary => summaries'[j] = NoSummary
    BY DEF DoneStays
  <2>1. j # k
    BY DEF NotDone
  <2> QED BY <1>1, <1>2, <2>1 DEF HasPeriod
<1> QED BY <1>1, <1>3, <1>4, <1>5, <1>6, <1>7, <1>8 DEF ArchiveInv

\* A part of a sequence
LEMMA PartIs ==
    ASSUME NEW T, NEW s \in Seq(T), NEW d \in 0 .. Len(s), NEW e \in d .. Len(s)
    PROVE  /\ SubSeq(s, d + 1, e) \in Seq(T) /\ Len(SubSeq(s, d + 1, e)) = e - d
           /\ \A i \in 1 .. e - d : SubSeq(s, d + 1, e)[i] = s[d + i]
<1>1. PICK m \in Int : m = d + 1
  OBVIOUS
<1>2. d \in Nat /\ e \in Nat /\ d <= e /\ e <= Len(s) /\ e \in Int
  OBVIOUS
<1>3. \A i \in m .. e : s[i] \in T
  BY <1>1, <1>2
<1>4. /\ SubSeq(s, m, e) \in Seq(T)
      /\ Len(SubSeq(s, m, e)) = IF m <= e THEN e - m + 1 ELSE 0
      /\ \A i \in 1 .. e - m + 1 : SubSeq(s, m, e)[i] = s[m + i - 1]
  BY <1>2, <1>3, SubSeqProperties
<1>5. e - m + 1 = e - d /\ (IF m <= e THEN e - m + 1 ELSE 0) = e - d
      /\ \A i \in 1 .. e - d : m + i - 1 = d + i
  BY <1>1, <1>2
<1> QED BY <1>1, <1>4, <1>5

LEMMA RowForms ==
    ASSUME NEW row \in Period
    PROVE  /\ Waiting(row) \in Period /\ Waiting(row).attempts = row.attempts
           /\ FailedRow(row) \in Period /\ FailedRow(row).attempts = row.attempts
           /\ StartedOver(row) \in Period /\ StartedOver(row).attempts = 0
           /\ StartedOver(row).partial = << >> /\ StartedOver(row).start = row.start
           /\ row.partial \in Seq(Saved) /\ row.attempts \in 0 .. ATTEMPTS_PER_PART
<1>1. Waiting(row) \in Period /\ Waiting(row).attempts = row.attempts
  BY DEF Waiting, Period
<1>2. FailedRow(row) \in Period /\ FailedRow(row).attempts = row.attempts
  BY DEF FailedRow, Period
<1>3. row.partial \in Seq(Saved) /\ row.attempts \in 0 .. ATTEMPTS_PER_PART
  BY DEF Period, Saved, Texts
<1>4. /\ StartedOver(row) \in Period /\ StartedOver(row).attempts = 0
      /\ StartedOver(row).partial = << >> /\ StartedOver(row).start = row.start
  <2>1. PICK none, zero, date : none = << >> /\ zero = 0 /\ date = NoDate
    OBVIOUS
  <2>2. none \in Seq(AllLines \X {"first", "edited"} \X Generations)
    BY <2>1
  <2>3. zero \in 0 .. ATTEMPTS_PER_PART
    BY <2>1, TheMonths
  <2>4. StartedOver(row) = [row EXCEPT !.partial = none, !.attempts = zero, !.settings_hash = date]
    BY <2>1 DEF StartedOver
  <2>5. /\ StartedOver(row) \in Period /\ StartedOver(row).attempts = zero
        /\ StartedOver(row).partial = none /\ StartedOver(row).start = row.start
    BY <2>1, <2>2, <2>3, <2>4 DEF Period
  <2> QED BY <2>1, <2>5
<1> QED BY <1>1, <1>2, <1>3, <1>4

DoneRow(row) == [row EXCEPT !.status = "done", !.partial = << >>]

LEMMA DoneRowIs ==
    ASSUME NEW row \in Period
    PROVE  /\ DoneRow(row) \in Period /\ DoneRow(row).attempts = row.attempts
           /\ DoneRow(row).status = "done" /\ DoneRow(row).start = row.start
<1>1. PICK none : none = << >>
  OBVIOUS
<1>2. none \in Seq(AllLines \X {"first", "edited"} \X Generations)
  BY <1>1
<1>3. DoneRow(row) = [row EXCEPT !.status = "done", !.partial = none]
  BY <1>1 DEF DoneRow
<1> QED BY <1>2, <1>3 DEF Period

\* What is left to read
LEMMA RestIs ==
    ASSUME NEW row \in Period, NEW w \in Work, Begins(row, w.lines)
    PROVE  /\ Len(row.partial) \in Nat /\ Len(w.lines) \in Nat
           /\ Len(Rest(row, w)) = Len(w.lines) - Len(row.partial)
           /\ Rest(row, w) \in Seq(AllLines \X Texts)
           /\ \A i \in 1 .. Len(w.lines) - Len(row.partial) :
                 Rest(row, w)[i] = w.lines[Len(row.partial) + i]
           /\ Rest(row, w) = << >> <=> Len(row.partial) = Len(w.lines)
           /\ Rest(row, w) # << >> => Len(row.partial) < Len(w.lines)
<1>1. PICK T, s, n, l : /\ T = AllLines \X Texts /\ s = w.lines /\ l = Len(s) /\ n = Len(row.partial)
  OBVIOUS
<1>2. s \in Seq(T)
  BY <1>1 DEF Work
<1>3. l \in Nat /\ n \in Nat /\ n <= l
  BY <1>1, <1>2, RowForms DEF Begins
<1>4. n \in 0 .. Len(s) /\ l \in n .. Len(s)
  BY <1>1, <1>3
<1>5. PICK r : r = SubSeq(s, n + 1, l)
  OBVIOUS
<1>6. r \in Seq(T) /\ Len(r) = l - n /\ \A i \in 1 .. l - n : r[i] = s[n + i]
  BY <1>2, <1>4, <1>5, PartIs
<1>7. r = << >> <=> Len(r) = 0
  BY <1>6
<1>8. Rest(row, w) = r
  BY <1>1, <1>5 DEF Rest
<1>9. r = << >> <=> n = l
  BY <1>3, <1>6, <1>7
<1>10. r # << >> => n < l
  BY <1>3, <1>9
<1>11. n = Len(row.partial) /\ l = Len(w.lines) /\ s = w.lines
  BY <1>1
<1>12. /\ Len(Rest(row, w)) = Len(w.lines) - Len(row.partial)
       /\ Rest(row, w) \in Seq(AllLines \X Texts)
       /\ \A i \in 1 .. Len(w.lines) - Len(row.partial) :
             Rest(row, w)[i] = w.lines[Len(row.partial) + i]
  BY <1>1, <1>6, <1>8, <1>11
<1> QED BY <1>3, <1>8, <1>9, <1>10, <1>11, <1>12

\* A month's work that has read everything
LEMMA CompletesKeeps ==
    ASSUME ArchiveInv, NEW k \in AllMonths, NEW row \in Period, NEW w \in Work, NotDone(k),
           Begins(row, w.lines), Len(row.partial) = Len(w.lines), w.lines = LinesRead(k),
           failedTries' \in [AllMonths -> Nat], failedTries'[k] = row.attempts,
           \A j \in AllMonths \ {k} : failedTries'[j] = failedTries[j],
           Aside, Counted', Completes(k, row, w.gone)
    PROVE  ArchiveInv' /\ MadeWhole /\ DoneStays
<1>1. PICK s, new, read, lines :
         /\ s = [status |-> "active", of |-> row.partial, noted |-> w.gone] /\ new = DoneRow(row)
         /\ read = row.partial /\ lines = w.lines
  OBVIOUS
<1>2. /\ periods' = [periods EXCEPT ![k] = new] /\ summaries' = [summaries EXCEPT ![k] = s]
      /\ writer' = "idle" /\ coolsOff' \in BOOLEAN
  BY <1>1 DEF Completes, SetPeriod, Rests, DoneRow
<1>3. /\ new \in Period /\ new.attempts = row.attempts /\ new.status = "done"
      /\ new.start = row.start
  BY <1>1, DoneRowIs
<1>4. read \in Seq(Saved) /\ lines \in Seq(AllLines \X Texts) /\ Len(lines) \in Nat
  BY <1>1, RowForms DEF Work
<1>5. s \in Summary /\ s.of = read
  <2>1. read \in Seq(AllLines \X Texts \X Generations)
    BY <1>4 DEF Saved
  <2>2. w.gone \in BOOLEAN
    BY DEF Work
  <2> QED BY <1>1, <2>1, <2>2 DEF Summary
<1>6. SourceHash(read) = SubSeq(lines, 1, Len(read)) /\ Len(read) = Len(lines)
      /\ \A i \in 1 .. Len(lines) : lines[i][1] >= row.start /\ stored[lines[i][1]] # "none"
  BY <1>1 DEF Begins
<1>7. SourceHash(read) = lines
  <2>1. PICK h, T : h = SourceHash(read) /\ T = AllLines \X Texts
    OBVIOUS
  <2>2. h \in Seq(T) /\ Len(h) = Len(lines)
    BY <1>4, <1>6, <2>1, HashIs
  <2>3. \A i \in 1 .. Len(lines) : SubSeq(lines, 0 + 1, Len(lines))[i] = lines[0 + i]
    BY <1>4, PartIs
  <2>4. \A i \in 1 .. Len(h) : h[i] = lines[i]
    BY <1>4, <1>6, <2>1, <2>2, <2>3
  <2> QED BY <1>4, <2>1, <2>2, <2>4, SeqEqual
<1>8. \A i \in 1 .. Len(read) : read[i][1] = lines[i][1]
  <2>1. \A i \in 1 .. Len(read) : lines[i] = <<read[i][1], read[i][2]>>
    BY <1>4, <1>7, HashIs
  <2> QED BY <2>1
<1>9. \A i \in 1 .. Len(s.of) : s.of[i][1] >= new.start /\ stored[s.of[i][1]] # "none"
  BY <1>3, <1>5, <1>6, <1>8
<1>10. SourceHash(s.of) = LinesRead(k)
  BY <1>1, <1>5, <1>7
<1> QED BY <1>2, <1>3, <1>5, <1>9, <1>10, MonthCompleted

\* The loop over the parts: later, the end, or the next part
LEMMA GoesOnKeeps ==
    ASSUME ArchiveInv, NEW k \in AllMonths, NEW row \in Period, NEW w \in Work, NotDone(k),
           w.month = k, row.status = "running", row.attempts = w.failures,
           Begins(row, w.lines), Len(row.partial) = Len(w.lines) => w.lines = LinesRead(k),
           failedTries' \in [AllMonths -> Nat], failedTries'[k] = row.attempts,
           \A j \in AllMonths \ {k} : failedTries'[j] = failedTries[j],
           Aside, Counted', GoesOn(k, row, w)
    PROVE  ArchiveInv' /\ MadeWhole /\ DoneStays
<1>1. CASE ~wanted
  <2>1. Stops(k, row) /\ UNCHANGED coolsOff
    BY <1>1 DEF GoesOn
  <2>2. PICK new \in Period : new = Waiting(row) /\ new.attempts = row.attempts
    BY RowForms
  <2>3. /\ periods' = [periods EXCEPT ![k] = new] /\ writer' = "idle" /\ UNCHANGED summaries
        /\ coolsOff' \in BOOLEAN
    BY <2>1, <2>2, ArchiveIs DEF Stops, SetPeriod, Rests, ArchiveTyped
  <2> QED BY <2>2, <2>3, MonthRested
<1>2. CASE wanted /\ Rest(row, w) = << >>
  <2>1. Completes(k, row, w.gone)
    BY <1>2 DEF GoesOn
  <2>2. Len(row.partial) = Len(w.lines)
    BY <1>2, RestIs
  <2> QED BY <2>1, <2>2, CompletesKeeps
<1>3. CASE wanted /\ Rest(row, w) # << >>
  <2>1. Asks(k, row, w)
    BY <1>3 DEF GoesOn
  <2>2. CASE w.failures < ATTEMPTS_PER_PART
    <3>1. PICK v : v = Prompted(w)
      OBVIOUS
    <3>2. /\ v \in Work /\ v.month = k /\ v.failures = w.failures /\ v.lines = w.lines
      <4>1. settings \in Generations
        BY ArchiveIs DEF ArchiveTyped
      <4> QED BY <3>1, <4>1 DEF Prompted, Work
    <3>3. /\ periods' = [periods EXCEPT ![k] = row] /\ work' = v
          /\ writer' \in {"asking", "sleeping"} /\ UNCHANGED summaries /\ coolsOff' \in BOOLEAN
      BY <2>1, <2>2, <3>1, ArchiveIs DEF Asks, SetPeriod, ArchiveTyped
    <3>4. Len(row.partial) < Len(v.lines) /\ Begins(row, v.lines)
      BY <1>3, <3>2, RestIs
    <3> QED BY <2>2, <3>2, <3>3, <3>4, MonthWorked
  <2>3. CASE ~(w.failures < ATTEMPTS_PER_PART)
    <3>1. GivesUp(k, row)
      BY <2>1, <2>3 DEF Asks
    <3>2. PICK new \in Period : new = FailedRow(row) /\ new.attempts = row.attempts
      BY RowForms
    <3>3. /\ periods' = [periods EXCEPT ![k] = new] /\ writer' = "idle" /\ UNCHANGED summaries
          /\ coolsOff' \in BOOLEAN
      BY <3>1, <3>2 DEF GivesUp, SetPeriod, Rests
    <3> QED BY <3>2, <3>3, MonthRested
  <2> QED BY <2>2, <2>3
<1> QED BY <1>1, <1>2, <1>3, ArchiveIs DEF ArchiveTyped

\* What process() goes on with: the row as it was, or begun anew
LEMMA CheckedIs ==
    ASSUME NEW row \in Period, NEW lines \in Seq(AllLines \X Texts),
           \A i \in 1 .. Len(lines) : lines[i][1] >= row.start /\ stored[lines[i][1]] # "none"
    PROVE  LET c == Checked(row, lines)
           IN  /\ c \in Period /\ c.start = row.start /\ Begins(c, lines)
               /\ IF c.partial = row.partial THEN c.attempts = row.attempts ELSE c.attempts = 0
<1>1. PICK c : c = Checked(row, lines)
  OBVIOUS
<1>2. Len(lines) \in Nat /\ row.partial \in Seq(Saved) /\ Len(row.partial) \in Nat
  BY RowForms
<1>3. ASSUME NEW p \in Period, p.partial = << >>, p.start = row.start PROVE Begins(p, lines)
  <2>1. PICK none, T : none = p.partial /\ T = AllLines \X Texts
    OBVIOUS
  <2>2. none \in Seq(Saved) /\ Len(none) = 0
    BY <1>3, <2>1, RowForms
  <2>3. SourceHash(none) \in Seq(T) /\ Len(SourceHash(none)) = 0
    BY <2>1, <2>2, HashIs
  <2>4. SubSeq(lines, 1, 0) \in Seq(T) /\ Len(SubSeq(lines, 1, 0)) = 0
    <3>1. 0 \in 0 .. Len(lines) /\ 0 \in 0 .. Len(lines)
      BY <1>2
    <3>2. SubSeq(lines, 0 + 1, 0) \in Seq(T) /\ Len(SubSeq(lines, 0 + 1, 0)) = 0 - 0
      BY <2>1, <3>1, PartIs
    <3> QED BY <3>2
  <2>5. SourceHash(none) = SubSeq(lines, 1, 0)
    BY <2>3, <2>4, SeqEqual
  <2> QED BY <1>2, <1>3, <2>1, <2>2, <2>5 DEF Begins
<1>4. CASE row.partial = << >>
  <2>1. c = row
    BY <1>1, <1>4 DEF Checked
  <2> QED BY <1>1, <1>3, <1>4, <2>1
<1>5. CASE row.partial # << >> /\ row.settings_hash = settings /\ Len(row.partial) <= Len(lines)
           /\ SourceHash(row.partial) = SubSeq(lines, 1, Len(row.partial))
  <2>1. c = row
    BY <1>1, <1>5 DEF Checked
  <2>2. Begins(row, lines)
    BY <1>5 DEF Begins
  <2> QED BY <1>1, <2>1, <2>2
<1>6. CASE row.partial # << >> /\ ~(row.settings_hash = settings /\ Len(row.partial) <= Len(lines)
           /\ SourceHash(row.partial) = SubSeq(lines, 1, Len(row.partial)))
  <2>1. c = StartedOver(row)
    BY <1>1, <1>6 DEF Checked
  <2>2. c \in Period /\ c.attempts = 0 /\ c.partial = << >> /\ c.start = row.start
    BY <2>1, RowForms
  <2> QED BY <1>1, <1>3, <1>6, <2>2
<1> QED BY <1>4, <1>5, <1>6

LEMMA ProcessKeeps ==
    ASSUME ArchiveInv, NEW k \in AllMonths, NEW row \in Period, NotDone(k), writer = "idle",
           HasPeriod(k) => row = periods[k],
           ~HasPeriod(k) => row.partial = << >> /\ row.attempts = 0,
           Aside, Counted', Process(k, row)
    PROVE  ArchiveInv' /\ MadeWhole /\ DoneStays
<1>1. PICK all, lines, c, checked :
         /\ all = StoredOf(k, row.start) /\ lines = Readable(all) /\ c = Checked(row, lines)
         /\ checked = [c EXCEPT !.status = "running"]
  OBVIOUS
<1>2. /\ all \in SUBSET AllLines /\ Cardinality(all) \in Nat
      /\ \A m \in all : m >= row.start /\ stored[m] # "none"
  BY <1>1, StoredIs
<1>3. /\ lines \in Seq(AllLines \X Texts) /\ Len(lines) \in Nat
      /\ \A i \in 1 .. Len(lines) : lines[i][1] >= row.start /\ stored[lines[i][1]] # "none"
  <2>1. lines \in Seq(AllLines \X Texts) /\ \A i \in 1 .. Len(lines) : lines[i][1] \in all
    BY <1>1, <1>2, ArchiveIs, ReadableIs
  <2> QED BY <1>2, <2>1
<1>4. /\ c \in Period /\ c.start = row.start /\ Begins(c, lines)
      /\ IF c.partial = row.partial THEN c.attempts = row.attempts ELSE c.attempts = 0
  BY <1>1, <1>3, CheckedIs
<1>5. /\ checked \in Period /\ checked.status = "running" /\ checked.attempts = c.attempts
      /\ checked.partial = c.partial /\ checked.start = c.start
  BY <1>1, <1>4 DEF Period
<1>6. Begins(checked, lines)
  BY <1>4, <1>5 DEF Begins
<1>7. PICK w : w = [month |-> k, lines |-> lines, gone |-> Cardinality(all) < row.count,
                    settings |-> settings, asked |-> settings, failures |-> Attempts(checked)]
  OBVIOUS
<1>8. w \in Work /\ w.month = k /\ w.lines = lines /\ w.failures = checked.attempts
  <2>1. settings \in Generations
    BY ArchiveIs DEF ArchiveTyped
  <2>2. Attempts(checked) = checked.attempts /\ checked.attempts \in 0 .. ATTEMPTS_PER_PART
    BY <1>5, RowForms DEF Attempts
  <2>3. (Cardinality(all) < row.count) \in BOOLEAN
    OBVIOUS
  <2> QED BY <1>3, <1>7, <2>1, <2>2, <2>3 DEF Work
<1>9. /\ failedTries' = IF checked.partial = row.partial THEN failedTries
                        ELSE [failedTries EXCEPT ![k] = 0]
      /\ CASE lines = << >> ->
                 /\ SetPeriod(k, [checked EXCEPT !.status = "done"]) /\ Rests
                 /\ coolsOff' = FALSE /\ UNCHANGED summaries
           [] lines # << >> /\ settings \in NoRoom -> GivesUp(k, checked)
           [] OTHER -> GoesOn(k, checked, w)
  BY <1>1, <1>7 DEF Process
<1>10. failedTries[k] = row.attempts
  BY ArchiveIs DEF TriesMatch
<1>11. /\ failedTries' \in [AllMonths -> Nat] /\ failedTries'[k] = checked.attempts
       /\ \A j \in AllMonths \ {k} : failedTries'[j] = failedTries[j]
  <2>1. failedTries \in [AllMonths -> Nat]
    BY ArchiveIs DEF ArchiveTyped
  <2>2. CASE checked.partial = row.partial
    BY <1>4, <1>5, <1>9, <1>10, <2>1, <2>2
  <2>3. CASE checked.partial # row.partial
    BY <1>4, <1>5, <1>9, <2>1, <2>3
  <2> QED BY <2>2, <2>3
<1>12. CASE lines = << >>
  <2>1. PICK new : new = [checked EXCEPT !.status = "done"]
    OBVIOUS
  <2>2. new \in Period /\ new.attempts = checked.attempts
    BY <1>5, <2>1 DEF Period
  <2>3. /\ SetPeriod(k, new) /\ Rests /\ coolsOff' = FALSE /\ UNCHANGED summaries
    BY <1>9, <1>12, <2>1
  <2>4. periods' = [periods EXCEPT ![k] = new] /\ writer' = "idle" /\ coolsOff' \in BOOLEAN
    BY <2>3 DEF SetPeriod, Rests
  <2> QED BY <1>11, <2>2, <2>3, <2>4, MonthRested
<1>13. CASE lines # << >> /\ settings \in NoRoom
  <2>1. GivesUp(k, checked)
    BY <1>9, <1>13
  <2>2. PICK new \in Period : new = FailedRow(checked) /\ new.attempts = checked.attempts
    BY <1>5, RowForms
  <2>3. /\ periods' = [periods EXCEPT ![k] = new] /\ writer' = "idle" /\ UNCHANGED summaries
        /\ coolsOff' \in BOOLEAN
    BY <2>1, <2>2 DEF GivesUp, SetPeriod, Rests
  <2> QED BY <1>11, <2>2, <2>3, MonthRested
<1>14. CASE lines # << >> /\ settings \notin NoRoom
  <2>1. GoesOn(k, checked, w)
    BY <1>9, <1>14
  <2>2. ASSUME Len(checked.partial) = Len(w.lines) PROVE w.lines = LinesRead(k)
    <3>1. HasPeriod(k)
      <4>1. ASSUME row.partial = << >> PROVE c = row
        BY <1>1, <4>1 DEF Checked
      <4>2. ASSUME ~HasPeriod(k) PROVE FALSE
        <5>1. checked.partial = << >>
          BY <1>5, <4>1, <4>2
        <5>2. Len(lines) = 0
          BY <1>8, <2>2, <5>1
        <5> QED BY <1>3, <1>14, <5>2
      <4> QED BY <4>2
    <3> QED BY <1>1, <1>8, <3>1 DEF LinesRead
  <2> QED BY <1>5, <1>6, <1>8, <1>11, <2>1, <2>2, GoesOnKeeps
<1> QED BY <1>12, <1>13, <1>14

LEMMA RoundKeeps ==
    ASSUME ArchiveInv, Round
    PROVE  ArchiveInv' /\ MadeWhole /\ DoneStays
<1>1. PICK k : k = Min(DueMonths)
  OBVIOUS
<1>2. /\ writer = "idle" /\ DueMonths # {}
      /\ Process(k, IF HasPeriod(k) THEN periods[k] ELSE NewPeriod(k))
      /\ Aside /\ Counted'
  BY <1>1, ArchiveIs DEF Round, Aside, outside, Counted, counters, ArchiveTyped
<1>3. k \in DueMonths
  <2>1. DueMonths \in SUBSET Nat
    BY DEF DueMonths, Unfinished, AllMonths
  <2>2. \E m \in DueMonths : \A n \in DueMonths : m <= n
    BY <1>2, <2>1, LeastNat
  <2> QED BY <1>1, <2>2 DEF Min
<1>4. k \in AllMonths /\ (Untouched(k) \/ (HasPeriod(k) /\ periods[k].status \in {"waiting", "running"}))
  BY <1>3 DEF DueMonths, Unfinished
<1>5. NotDone(k)
  BY <1>4 DEF NotDone, Untouched
<1>6. CASE HasPeriod(k)
  <2>1. periods[k] \in Period /\ Process(k, periods[k])
    BY <1>2, <1>4, <1>6, ArchiveIs
  <2> QED BY <1>2, <1>4, <1>5, <1>6, <2>1, ProcessKeeps
<1>7. CASE ~HasPeriod(k)
  <2>1. PICK start, row : start = StartOf(k) /\ row = NewPeriod(k)
    OBVIOUS
  <2>2. start \in Nat /\ start >= FirstOf[k]
    <3>1. PICK a, b : a = FirstOf[k] /\ b = since
      OBVIOUS
    <3>2. k \in 1 .. Months + 1
      BY <1>4, TheMonths DEF AllMonths
    <3>3. a \in Nat /\ b \in Nat
      <4>1. a \in Nat
        BY <3>1, <3>2, TheMonths
      <4>2. b \in AllLines \cup {NoDate}
        BY <3>1, ArchiveIs DEF ArchiveTyped
      <4>3. b \in AllLines => b \in Nat
        BY TheMonths
      <4> QED BY <4>1, <4>2, <4>3 DEF NoDate
    <3>4. \E x \in {a, b} : \A y \in {a, b} : x >= y
      <4>1. CASE a >= b
        BY <3>3, <4>1
      <4>2. CASE b >= a
        BY <3>3, <4>2
      <4> QED BY <3>3, <4>1, <4>2
    <3>5. Max({a, b}) \in {a, b} /\ \A y \in {a, b} : Max({a, b}) >= y
      BY <3>4 DEF Max
    <3>6. start = Max({a, b})
      BY <2>1, <3>1 DEF StartOf
    <3> QED BY <3>1, <3>3, <3>5, <3>6
  <2>3. start \in AllLines
    <3>1. PICK m \in StoredOf(k, start) : TRUE
      BY <1>4, <1>7, <2>1 DEF Untouched
    <3>2. m \in AllLines /\ m >= start
      BY <1>4, StoredIs
    <3>3. FirstOf[k] \in Nat \ {0}
      BY <1>4, TheMonths DEF AllMonths
    <3>4. PICK last : last = FirstOf[Months + 1] /\ last \in Nat
      BY TheMonths
    <3>5. AllLines = 1 .. last - 1
      BY <3>4 DEF AllLines
    <3> QED BY <2>2, <3>2, <3>3, <3>4, <3>5
  <2>4. PICK n, none, zero : n = Cardinality(StoredOf(k, start)) /\ none = << >> /\ zero = 0
    OBVIOUS
  <2>5. n \in 0 .. Cardinality(AllLines) /\ none \in Seq(AllLines \X {"first", "edited"} \X Generations)
        /\ zero \in 0 .. ATTEMPTS_PER_PART
    BY <1>4, <2>4, StoredIs, TheMonths
  <2>6. row = [status |-> "waiting", start |-> start, count |-> n, partial |-> none,
               settings_hash |-> NoDate, attempts |-> zero]
    BY <2>1, <2>4 DEF NewPeriod
  <2>7. row \in Period /\ row.partial = << >> /\ row.attempts = 0
    BY <2>3, <2>4, <2>5, <2>6 DEF Period
  <2>8. Process(k, row)
    BY <1>2, <1>7, <2>1
  <2> QED BY <1>2, <1>4, <1>5, <1>7, <2>7, <2>8, ProcessKeeps
<1> QED BY <1>6, <1>7

\* The work on a month goes on in memory as the row says.
LEMMA WorkIs ==
    ASSUME ArchiveInv, writer # "idle"
    PROVE  /\ work \in Work /\ work.month \in AllMonths /\ periods[work.month] \in Period
           /\ HasPeriod(work.month) /\ NotDone(work.month) /\ periods[work.month].status = "running"
           /\ periods[work.month].attempts = work.failures /\ work.failures \in Nat
           /\ work.failures < ATTEMPTS_PER_PART
           /\ Len(periods[work.month].partial) < Len(work.lines)
           /\ Begins(periods[work.month], work.lines)
           /\ failedTries \in [AllMonths -> Nat] /\ failedTries[work.month] = work.failures
<1>1. ArchiveTyped /\ TriesMatch /\ Progresses
  BY ArchiveIs
<1>2. work \in Work /\ failedTries \in [AllMonths -> Nat]
  BY <1>1 DEF ArchiveTyped
<1>3. work.month \in AllMonths /\ work.failures \in 0 .. ATTEMPTS_PER_PART
  BY <1>2 DEF Work
<1>4. /\ HasPeriod(work.month) /\ periods[work.month].status = "running"
      /\ periods[work.month].attempts = work.failures /\ work.failures < ATTEMPTS_PER_PART
      /\ Len(periods[work.month].partial) < Len(work.lines)
      /\ Begins(periods[work.month], work.lines)
  BY <1>1 DEF Progresses
<1>5. failedTries[work.month] = work.failures
  BY <1>1, <1>3, <1>4 DEF TriesMatch
<1>6. periods[work.month] \in Period /\ NotDone(work.month)
  BY <1>3, <1>4, ArchiveIs DEF NotDone
<1>7. work.failures \in Nat
  BY <1>3
<1> QED BY <1>2, <1>3, <1>4, <1>5, <1>6, <1>7

\* The next part, what the model makes of it, and the row that keeps it
NextPart(row, w) == SubSeq(Rest(row, w), 1, Min({PerRequest, Len(Rest(row, w))}))
MadeOf(part, asked) == [i \in DOMAIN part |-> <<part[i][1], part[i][2], asked>>]
Longer(row, made, hash) ==
    [row EXCEPT !.partial = row.partial \o made, !.attempts = 0, !.settings_hash = hash]

LEMMA LesserIs ==
    ASSUME NEW a \in Nat, NEW b \in Nat
    PROVE  Min({a, b}) \in Nat /\ Min({a, b}) <= b
<1>1. \E x \in {a, b} : \A y \in {a, b} : x <= y
  <2>1. CASE a <= b
    BY <2>1
  <2>2. CASE b <= a
    BY <2>2
  <2> QED BY <2>1, <2>2
<1>2. Min({a, b}) \in {a, b} /\ \A y \in {a, b} : Min({a, b}) <= y
  BY <1>1 DEF Min
<1> QED BY <1>2

LEMMA NextPartIs ==
    ASSUME NEW row \in Period, NEW w \in Work, Begins(row, w.lines)
    PROVE  LET n == Len(row.partial)
               c == Len(NextPart(row, w))
           IN  /\ NextPart(row, w) \in Seq(AllLines \X Texts)
               /\ c \in Nat /\ n \in Nat /\ Len(w.lines) \in Nat /\ n + c <= Len(w.lines)
               /\ \A i \in 1 .. c : NextPart(row, w)[i] = w.lines[n + i]
<1>1. PICK lines, n, l, T, rest : /\ lines = w.lines /\ n = Len(row.partial) /\ l = Len(lines)
                                  /\ T = AllLines \X Texts /\ rest = Rest(row, w)
  OBVIOUS
<1>2. /\ n \in Nat /\ l \in Nat /\ rest \in Seq(T) /\ Len(rest) = l - n
      /\ \A i \in 1 .. l - n : rest[i] = lines[n + i]
  BY <1>1, RestIs
<1>3. PICK c : c = Min({PerRequest, Len(rest)})
  OBVIOUS
<1>4. c \in Nat /\ c <= l - n
  <2>1. PICK a, b : a = PerRequest /\ b = Len(rest)
    OBVIOUS
  <2>2. a \in Nat /\ b \in Nat
    BY <1>2, <2>1, TheMonths
  <2>3. c = Min({a, b})
    BY <1>3, <2>1
  <2> QED BY <1>2, <2>1, <2>2, <2>3, LesserIs
<1>5. PICK part : part = SubSeq(rest, 0 + 1, c)
  OBVIOUS
<1>6. part \in Seq(T) /\ Len(part) = c /\ \A i \in 1 .. c : part[i] = rest[i]
  <2>1. 0 \in 0 .. Len(rest) /\ c \in 0 .. Len(rest)
    BY <1>2, <1>4
  <2>2. part \in Seq(T) /\ Len(part) = c - 0 /\ \A i \in 1 .. c - 0 : part[i] = rest[0 + i]
    BY <1>2, <1>5, <2>1, PartIs
  <2> QED BY <1>4, <2>2
<1>7. \A i \in 1 .. c : rest[i] = lines[n + i]
  BY <1>2, <1>4
<1>8. NextPart(row, w) = part
  BY <1>1, <1>3, <1>5 DEF NextPart
<1>9. n + c <= l
  BY <1>2, <1>4
<1> QED BY <1>1, <1>2, <1>4, <1>6, <1>7, <1>8, <1>9

LEMMA MadeIs ==
    ASSUME NEW part \in Seq(AllLines \X Texts), NEW asked \in Generations
    PROVE  /\ MadeOf(part, asked) \in Seq(Saved) /\ Len(MadeOf(part, asked)) = Len(part)
           /\ \A i \in 1 .. Len(part) : /\ MadeOf(part, asked)[i][1] = part[i][1]
                                        /\ MadeOf(part, asked)[i][2] = part[i][2]
<1>1. PICK made, c : made = MadeOf(part, asked) /\ c = Len(part)
  OBVIOUS
<1>2. c \in Nat /\ DOMAIN part = 1 .. c
  BY <1>1
<1>3. made = [i \in 1 .. c |-> <<part[i][1], part[i][2], asked>>]
  BY <1>1, <1>2 DEF MadeOf
<1>4. ASSUME NEW i \in 1 .. c PROVE <<part[i][1], part[i][2], asked>> \in Saved
  <2>1. part[i] \in AllLines \X Texts
    BY <1>2
  <2>2. part[i][1] \in AllLines /\ part[i][2] \in Texts
    BY <2>1
  <2> QED BY <2>2 DEF Saved
<1>5. PICK V : V = Saved
  OBVIOUS
<1>6. made \in [1 .. c -> V]
  BY <1>3, <1>4, <1>5
<1>7. made \in Seq(V) /\ Len(made) = c
  BY <1>2, <1>6
<1>8. \A i \in 1 .. c : made[i][1] = part[i][1] /\ made[i][2] = part[i][2]
  BY <1>3
<1> QED BY <1>1, <1>5, <1>7, <1>8

LEMMA LongerIs ==
    ASSUME NEW row \in Period, NEW made \in Seq(Saved), NEW hash \in Generations
    PROVE  /\ Longer(row, made, hash) \in Period /\ Longer(row, made, hash).attempts = 0
           /\ Longer(row, made, hash).status = row.status
           /\ Longer(row, made, hash).start = row.start
           /\ Longer(row, made, hash).partial = row.partial \o made
<1>1. PICK more, zero : more = row.partial \o made /\ zero = 0
  OBVIOUS
<1>2. more \in Seq(Saved)
  <2>1. PICK V, read : V = Saved /\ read = row.partial
    OBVIOUS
  <2>2. read \in Seq(V) /\ made \in Seq(V)
    BY <2>1, RowForms
  <2>3. read \o made \in Seq(V)
    BY <2>2
  <2> QED BY <1>1, <2>1, <2>3
<1>3. more \in Seq(AllLines \X {"first", "edited"} \X Generations)
  BY <1>2 DEF Saved, Texts
<1>4. zero \in 0 .. ATTEMPTS_PER_PART
  BY <1>1, TheMonths
<1>5. Longer(row, made, hash) = [row EXCEPT !.partial = more, !.attempts = zero, !.settings_hash = hash]
  BY <1>1 DEF Longer
<1>6. /\ Longer(row, made, hash) \in Period /\ Longer(row, made, hash).attempts = zero
      /\ Longer(row, made, hash).status = row.status
      /\ Longer(row, made, hash).start = row.start
      /\ Longer(row, made, hash).partial = more
  BY <1>3, <1>4, <1>5 DEF Period
<1> QED BY <1>1, <1>6

\* The next part is the next of the lines: what is saved stays their beginning.
LEMMA StillBegins ==
    ASSUME NEW row \in Period, NEW w \in Work, Begins(row, w.lines),
           NEW hash \in Generations, NEW made, made = MadeOf(NextPart(row, w), w.asked)
    PROVE  made \in Seq(Saved) /\ Begins(Longer(row, made, hash), w.lines)
<1>1. PICK lines, read, n, l, T, part, c :
        /\ lines = w.lines /\ read = row.partial /\ n = Len(read) /\ l = Len(lines)
        /\ T = AllLines \X Texts /\ part = NextPart(row, w) /\ c = Len(part)
  OBVIOUS
<1>2. lines \in Seq(T) /\ read \in Seq(Saved)
  BY <1>1, RowForms DEF Work
<1>3. /\ part \in Seq(T) /\ c \in Nat /\ n \in Nat /\ l \in Nat /\ n + c <= l
      /\ \A i \in 1 .. c : part[i] = lines[n + i]
  BY <1>1, NextPartIs
<1>4. made \in Seq(Saved) /\ Len(made) = c
      /\ \A i \in 1 .. c : made[i][1] = part[i][1] /\ made[i][2] = part[i][2]
  <2>1. w.asked \in Generations
    BY DEF Work
  <2>2. made = MadeOf(part, w.asked)
    BY <1>1
  <2> QED BY <1>1, <1>3, <2>1, <2>2, MadeIs
<1>5. PICK more : more = read \o made
  OBVIOUS
<1>6. /\ more \in Seq(Saved) /\ Len(more) = n + c
      /\ \A i \in 1 .. n + c : more[i] = IF i <= n THEN read[i] ELSE made[i - n]
  <2>1. PICK V : V = Saved
    OBVIOUS
  <2>2. read \in Seq(V) /\ made \in Seq(V) /\ Len(read) = n
    BY <1>1, <1>2, <1>4, <2>1
  <2>3. more \in Seq(V) /\ Len(more) = n + c
    <3>1. Len(read) = n /\ Len(made) = c
      BY <1>1, <1>4
    <3>2. read \o made \in Seq(V) /\ Len(read \o made) = Len(read) + Len(made)
      BY <2>2, ConcatProperties
    <3> QED BY <1>5, <3>1, <3>2
  <2>4. \A i \in 1 .. Len(read) + Len(made) :
            more[i] = IF i <= Len(read) THEN read[i] ELSE made[i - Len(read)]
    BY <1>5, <2>2, ConcatProperties
  <2> QED BY <1>4, <2>1, <2>2, <2>3, <2>4
<1>7. SourceHash(more) = SubSeq(lines, 1, n + c)
  <2>1. PICK h, s : h = SourceHash(more) /\ s = SubSeq(lines, 0 + 1, n + c)
    OBVIOUS
  <2>2. h \in Seq(T) /\ Len(h) = n + c /\ \A i \in 1 .. n + c : h[i] = <<more[i][1], more[i][2]>>
    BY <1>1, <1>6, <2>1, HashIs
  <2>3. s \in Seq(T) /\ Len(s) = n + c /\ \A i \in 1 .. n + c : s[i] = lines[i]
    <3>1. 0 \in 0 .. Len(lines) /\ n + c \in 0 .. Len(lines) /\ n + c \in Nat
      BY <1>1, <1>3
    <3>2. s \in Seq(T) /\ Len(s) = (n + c) - 0 /\ \A i \in 1 .. (n + c) - 0 : s[i] = lines[0 + i]
      BY <1>2, <2>1, <3>1, PartIs
    <3> QED BY <3>1, <3>2
  <2>4. ASSUME NEW i \in 1 .. n PROVE <<read[i][1], read[i][2]>> = lines[i]
    <3>1. SourceHash(read) = SubSeq(lines, 1, n)
      BY <1>1 DEF Begins
    <3>2. SourceHash(read)[i] = <<read[i][1], read[i][2]>>
      BY <1>1, <1>2, HashIs
    <3>3. 0 \in 0 .. Len(lines) /\ n \in 0 .. Len(lines)
      BY <1>1, <1>3
    <3>4. \A j \in 1 .. n - 0 : SubSeq(lines, 0 + 1, n)[j] = lines[0 + j]
      BY <1>2, <3>3, PartIs
    <3> QED BY <1>3, <3>1, <3>2, <3>4
  <2>5. ASSUME NEW i \in 1 .. n + c PROVE h[i] = s[i]
    <3>1. i \in Nat /\ i >= 1 /\ i <= n + c
      BY <1>3
    <3>2. CASE i <= n
      <4>1. i \in 1 .. n /\ more[i] = read[i]
        BY <1>3, <1>6, <3>1, <3>2
      <4> QED BY <2>2, <2>3, <2>4, <4>1
    <3>3. CASE ~(i <= n)
      <4>1. PICK j : j = i - n
        OBVIOUS
      <4>2. j \in 1 .. c /\ n + j = i /\ more[i] = made[j]
        BY <1>3, <1>6, <3>1, <3>3, <4>1
      <4>3. part[j] = lines[n + j] /\ made[j][1] = part[j][1] /\ made[j][2] = part[j][2]
        BY <1>3, <1>4, <4>2
      <4>4. more[i][1] = lines[i][1] /\ more[i][2] = lines[i][2]
        BY <4>2, <4>3
      <4>5. i \in 1 .. Len(lines)
        BY <1>1, <1>3, <3>1
      <4>6. lines[i] \in T
        BY <1>2, <4>5
      <4>7. lines[i] = <<lines[i][1], lines[i][2]>>
        BY <1>1, <4>6
      <4> QED BY <2>2, <2>3, <4>4, <4>7
    <3> QED BY <3>2, <3>3
  <2>6. h = s
    BY <2>2, <2>3, <2>5, SeqEqual
  <2> QED BY <2>1, <2>6
<1>8. PICK new : new = Longer(row, made, hash)
  OBVIOUS
<1>9. new.partial = more /\ new.start = row.start
  BY <1>1, <1>4, <1>5, <1>8, LongerIs
<1>10. \A i \in 1 .. Len(w.lines) : w.lines[i][1] >= new.start /\ stored[w.lines[i][1]] # "none"
  BY <1>9 DEF Begins
<1>11. Begins(new, w.lines)
  BY <1>1, <1>3, <1>6, <1>7, <1>9, <1>10 DEF Begins
<1> QED BY <1>4, <1>8, <1>11

-----------------------------------------------------------------------------
(* Live chat: each step *)

WriterKeeps == ArchiveInv' /\ MadeWhole /\ DoneStays

LEMMA AnswersKeeps ==
    ASSUME ArchiveInv, Answers
    PROVE  WriterKeeps
<1>1. writer = "asking"
  BY DEF Answers
<1>2. /\ work \in Work /\ work.month \in AllMonths /\ periods[work.month] \in Period
      /\ NotDone(work.month) /\ periods[work.month].status = "running"
      /\ Begins(periods[work.month], work.lines)
      /\ failedTries \in [AllMonths -> Nat]
  BY <1>1, WorkIs
<1>3. PICK k, was, zero : k = work.month /\ was = periods[k] /\ zero = 0
  OBVIOUS
<1>4. PICK made : made = MadeOf(NextPart(was, work), work.asked)
  OBVIOUS
<1>5. PICK row : row = Longer(was, made, work.settings)
  OBVIOUS
<1>6. /\ row \in Period /\ row.attempts = 0 /\ row.status = "running" /\ Begins(row, work.lines)
  <2>1. work.settings \in Generations /\ was \in Period /\ Begins(was, work.lines)
    BY <1>2, <1>3 DEF Work
  <2>2. made \in Seq(Saved) /\ Begins(row, work.lines)
    BY <1>2, <1>4, <1>5, <2>1, StillBegins
  <2> QED BY <1>2, <1>3, <1>5, <2>1, <2>2, LongerIs
<1>7. PICK w : w = [work EXCEPT !.failures = zero]
  OBVIOUS
<1>8. w \in Work /\ w.month = k /\ w.lines = work.lines /\ w.failures = 0
  <2>1. zero \in 0 .. ATTEMPTS_PER_PART
    BY <1>3, TheMonths
  <2> QED BY <1>2, <1>3, <1>7, <2>1 DEF Work
<1>9. /\ CASE ~wanted -> Stops(k, row) /\ UNCHANGED coolsOff
           [] wanted /\ Rest(row, w) = << >> -> Completes(k, row, w.gone)
           [] OTHER -> SetPeriod(k, row) /\ work' = Prompted(w)
                       /\ UNCHANGED <<writer, summaries, coolsOff>>
      /\ failedTries' = [failedTries EXCEPT ![k] = 0]
      /\ Aside /\ UNCHANGED counters
  BY <1>3, <1>4, <1>5, <1>7 DEF Answers, Aside, outside, MadeOf, NextPart, Longer
<1>10. /\ failedTries' \in [AllMonths -> Nat] /\ failedTries'[k] = row.attempts
       /\ \A j \in AllMonths \ {k} : failedTries'[j] = failedTries[j]
  BY <1>2, <1>3, <1>6, <1>9
<1>11. Counted' /\ coolsOff \in BOOLEAN
  BY <1>9, ArchiveIs DEF Counted, counters, ArchiveTyped
<1>12. k \in AllMonths /\ NotDone(k) /\ Begins(row, w.lines)
  BY <1>2, <1>3, <1>6, <1>8
<1>13. CASE ~wanted
  <2>1. Stops(k, row) /\ UNCHANGED coolsOff
    BY <1>9, <1>13
  <2>2. PICK new \in Period : new = Waiting(row) /\ new.attempts = row.attempts
    BY <1>6, RowForms
  <2>3. /\ periods' = [periods EXCEPT ![k] = new] /\ writer' = "idle" /\ UNCHANGED summaries
        /\ coolsOff' \in BOOLEAN
    BY <1>11, <2>1, <2>2 DEF Stops, SetPeriod, Rests
  <2> QED BY <1>9, <1>10, <1>11, <1>12, <2>2, <2>3, MonthRested DEF WriterKeeps
<1>14. CASE wanted /\ Rest(row, w) = << >>
  <2>1. Completes(k, row, w.gone)
    BY <1>9, <1>14
  <2>2. Len(row.partial) = Len(w.lines)
    BY <1>6, <1>8, <1>12, <1>14, RestIs
  <2>3. w.lines = LinesRead(k)
    BY <1>1, <1>8 DEF LinesRead
  <2> QED BY <1>6, <1>8, <1>9, <1>10, <1>11, <1>12, <2>1, <2>2, <2>3, CompletesKeeps DEF WriterKeeps
<1>15. CASE wanted /\ Rest(row, w) # << >>
  <2>1. SetPeriod(k, row) /\ work' = Prompted(w) /\ UNCHANGED <<writer, summaries, coolsOff>>
    BY <1>9, <1>15
  <2>2. PICK v : v = Prompted(w)
    OBVIOUS
  <2>3. v \in Work /\ v.month = k /\ v.failures = 0 /\ v.lines = w.lines
    <3>1. settings \in Generations
      BY ArchiveIs DEF ArchiveTyped
    <3> QED BY <1>8, <2>2, <3>1 DEF Prompted, Work
  <2>4. /\ periods' = [periods EXCEPT ![k] = row] /\ work' = v /\ UNCHANGED summaries
        /\ coolsOff' \in BOOLEAN /\ writer' \in {"asking", "sleeping"}
    BY <1>1, <1>11, <2>1, <2>2 DEF SetPeriod
  <2>5. Len(row.partial) < Len(v.lines) /\ Begins(row, v.lines)
    BY <1>6, <1>8, <1>12, <1>15, <2>3, RestIs
  <2>6. row.attempts = v.failures /\ v.failures < ATTEMPTS_PER_PART
    BY <1>6, <2>3, TheMonths
  <2> QED BY <1>6, <1>9, <1>10, <1>11, <1>12, <2>3, <2>4, <2>5, <2>6, MonthWorked DEF WriterKeeps
<1> QED BY <1>13, <1>14, <1>15, ArchiveIs DEF ArchiveTyped

\* One more failure is counted, in the row as in memory.
LEMMA OneMore ==
    ASSUME ArchiveInv, writer # "idle", NEW k, k = work.month,
           failedTries' = [failedTries EXCEPT ![k] = @ + 1], NEW row,
           row = [periods[k] EXCEPT !.attempts = work.failures + 1]
    PROVE  /\ row \in Period /\ row.attempts = work.failures + 1 /\ row.status = "running"
           /\ Begins(row, work.lines) /\ Len(row.partial) < Len(work.lines)
           /\ work.failures + 1 \in 0 .. ATTEMPTS_PER_PART
           /\ failedTries' \in [AllMonths -> Nat] /\ failedTries'[k] = row.attempts
           /\ \A j \in AllMonths \ {k} : failedTries'[j] = failedTries[j]
<1>1. /\ work \in Work /\ k \in AllMonths /\ periods[k] \in Period
      /\ periods[k].status = "running" /\ work.failures \in Nat
      /\ work.failures < ATTEMPTS_PER_PART /\ ATTEMPTS_PER_PART \in Nat
      /\ Begins(periods[k], work.lines) /\ Len(periods[k].partial) < Len(work.lines)
      /\ failedTries \in [AllMonths -> Nat] /\ failedTries[k] = work.failures
  BY WorkIs, TheMonths
<1>2. PICK was, more : was = periods[k] /\ more = work.failures + 1
  OBVIOUS
<1>3. more \in 0 .. ATTEMPTS_PER_PART
  BY <1>1, <1>2
<1>4. row = [was EXCEPT !.attempts = more]
  BY <1>2
<1>5. row \in Period /\ row.attempts = more /\ row.status = "running"
      /\ row.partial = was.partial /\ row.start = was.start
  BY <1>1, <1>2, <1>3, <1>4 DEF Period
<1>6. Begins(row, work.lines)
  BY <1>1, <1>2, <1>5 DEF Begins
<1>7. /\ failedTries' \in [AllMonths -> Nat] /\ failedTries'[k] = more
      /\ \A j \in AllMonths \ {k} : failedTries'[j] = failedTries[j]
  BY <1>1, <1>2
<1> QED BY <1>1, <1>2, <1>3, <1>5, <1>6, <1>7

LEMMA RefusesKeeps ==
    ASSUME ArchiveInv, Refuses
    PROVE  WriterKeeps
<1>1. PICK k, row : k = work.month /\ row = [periods[k] EXCEPT !.attempts = work.failures + 1]
  OBVIOUS
<1>2. /\ writer = "asking" /\ refusals < MaxRefusals /\ refusals' = refusals + 1
      /\ failedTries' = [failedTries EXCEPT ![k] = @ + 1]
      /\ IF work.failures + 1 < ATTEMPTS_PER_PART
         THEN /\ SetPeriod(k, row) /\ writer' = "sleeping"
              /\ work' = [work EXCEPT !.failures = @ + 1] /\ UNCHANGED <<summaries, coolsOff>>
         ELSE GivesUp(k, row)
      /\ Aside /\ UNCHANGED archiveActs
  BY <1>1 DEF Refuses, Aside, outside
<1>3. /\ row \in Period /\ row.attempts = work.failures + 1 /\ row.status = "running"
      /\ Begins(row, work.lines) /\ Len(row.partial) < Len(work.lines)
      /\ work.failures + 1 \in 0 .. ATTEMPTS_PER_PART
      /\ failedTries' \in [AllMonths -> Nat] /\ failedTries'[k] = row.attempts
      /\ \A j \in AllMonths \ {k} : failedTries'[j] = failedTries[j]
  BY <1>1, <1>2, OneMore
<1>4. k \in AllMonths /\ NotDone(k) /\ work \in Work
  BY <1>1, <1>2, WorkIs
<1>5. Counted' /\ coolsOff \in BOOLEAN
  <2>1. archiveActs \in 0 .. MaxActs /\ refusals \in 0 .. MaxRefusals /\ coolsOff \in BOOLEAN
    BY ArchiveIs DEF ArchiveTyped
  <2>2. MaxRefusals \in Nat
    BY ArchiveAssumption
  <2> QED BY <1>2, <2>1, <2>2 DEF Counted
<1>6. CASE work.failures + 1 < ATTEMPTS_PER_PART
  <2>1. PICK w, more : more = work.failures + 1 /\ w = [work EXCEPT !.failures = more]
    OBVIOUS
  <2>2. w \in Work /\ w.month = k /\ w.failures = more /\ w.lines = work.lines
    BY <1>1, <1>3, <1>4, <2>1 DEF Work
  <2>3. /\ periods' = [periods EXCEPT ![k] = row] /\ work' = w /\ UNCHANGED summaries
        /\ coolsOff' \in BOOLEAN /\ writer' \in {"asking", "sleeping"}
    BY <1>2, <1>5, <1>6, <2>1 DEF SetPeriod
  <2>4. /\ Len(row.partial) < Len(w.lines) /\ Begins(row, w.lines)
        /\ row.attempts = w.failures /\ w.failures < ATTEMPTS_PER_PART
    BY <1>3, <1>6, <2>1, <2>2
  <2> QED BY <1>2, <1>3, <1>4, <1>5, <2>2, <2>3, <2>4, MonthWorked DEF WriterKeeps
<1>7. CASE ~(work.failures + 1 < ATTEMPTS_PER_PART)
  <2>1. GivesUp(k, row)
    BY <1>2, <1>7
  <2>2. PICK new \in Period : new = FailedRow(row) /\ new.attempts = row.attempts
    BY <1>3, RowForms
  <2>3. /\ periods' = [periods EXCEPT ![k] = new] /\ writer' = "idle" /\ UNCHANGED summaries
        /\ coolsOff' \in BOOLEAN
    BY <2>1, <2>2 DEF GivesUp, SetPeriod, Rests
  <2> QED BY <1>2, <1>3, <1>4, <1>5, <2>2, <2>3, MonthRested DEF WriterKeeps
<1> QED BY <1>6, <1>7

LEMMA ActsCounted ==
    ASSUME ArchiveInv, Acts
    PROVE  Counted'
<1>1. archiveActs \in 0 .. MaxActs /\ refusals \in 0 .. MaxRefusals
  BY ArchiveIs DEF ArchiveTyped
<1>2. MaxActs \in Nat
  BY ArchiveAssumption
<1> QED BY <1>1, <1>2 DEF Counted, Acts

\* The owner cancels the request, or the queue has no room for it.
LEMMA LetGoKeeps ==
    ASSUME ArchiveInv, CancelledInQueue \/ QueueFull
    PROVE  WriterKeeps
<1>1. PICK k, was : k = work.month /\ was = periods[k]
  OBVIOUS
<1>2. writer = "asking" /\ Acts /\ Aside /\ UNCHANGED failedTries
  BY DEF CancelledInQueue, QueueFull, Aside, outside
<1>3. /\ k \in AllMonths /\ NotDone(k) /\ was \in Period /\ was.attempts = work.failures
      /\ failedTries \in [AllMonths -> Nat] /\ failedTries[k] = work.failures
  BY <1>1, <1>2, WorkIs
<1>4. \E new \in Period : new.attempts = was.attempts /\ periods' = [periods EXCEPT ![k] = new]
  <2>1. SetPeriod(k, Waiting(was)) \/ SetPeriod(k, FailedRow(was))
    BY <1>1 DEF CancelledInQueue, QueueFull, Stops, GivesUp
  <2> QED BY <1>3, <2>1, RowForms DEF SetPeriod
<1>5. UNCHANGED summaries /\ writer' = "idle" /\ coolsOff' \in BOOLEAN
  BY DEF CancelledInQueue, QueueFull, Stops, GivesUp, Rests
<1>6. Counted'
  BY <1>2, ActsCounted
<1>7. PICK new \in Period : new.attempts = was.attempts /\ periods' = [periods EXCEPT ![k] = new]
  BY <1>4
<1>8. /\ failedTries' \in [AllMonths -> Nat] /\ failedTries'[k] = new.attempts
      /\ \A j \in AllMonths \ {k} : failedTries'[j] = failedTries[j]
  BY <1>2, <1>3, <1>7
<1> QED BY <1>2, <1>3, <1>5, <1>6, <1>7, <1>8, MonthRested DEF WriterKeeps

LEMMA DiesGivingUpKeeps ==
    ASSUME ArchiveInv, DiesGivingUp
    PROVE  WriterKeeps
<1>1. PICK k, row : k = work.month /\ row = [periods[k] EXCEPT !.attempts = work.failures + 1]
  OBVIOUS
<1>2. /\ writer = "asking" /\ work.failures + 1 = ATTEMPTS_PER_PART /\ Acts /\ Aside
      /\ SetPeriod(k, [periods[k] EXCEPT !.attempts = ATTEMPTS_PER_PART])
      /\ failedTries' = [failedTries EXCEPT ![k] = @ + 1]
      /\ writer' = "idle" /\ coolsOff' = FALSE /\ UNCHANGED summaries
  BY <1>1 DEF DiesGivingUp, Aside, outside, Rests
<1>3. /\ row \in Period /\ failedTries' \in [AllMonths -> Nat] /\ failedTries'[k] = row.attempts
      /\ \A j \in AllMonths \ {k} : failedTries'[j] = failedTries[j]
  BY <1>1, <1>2, OneMore
<1>4. k \in AllMonths /\ NotDone(k)
  BY <1>1, <1>2, WorkIs
<1>5. periods' = [periods EXCEPT ![k] = row] /\ coolsOff' \in BOOLEAN
  BY <1>1, <1>2 DEF SetPeriod
<1>6. Counted'
  BY <1>2, ActsCounted
<1> QED BY <1>2, <1>3, <1>4, <1>5, <1>6, MonthRested DEF WriterKeeps

\* What the others do: the months' rows stay as they are.
LEMMA MonthsStay ==
    ASSUME ArchiveInv, UNCHANGED periods, UNCHANGED failedTries, ArchiveTyped', GoneIsSaid',
           writer' # "idle" => writer # "idle" /\ UNCHANGED work,
           writer' # "idle" => \A m \in AllLines : stored[m] # "none" => stored'[m] # "none",
           \A k \in AllMonths : \/ summaries'[k] = NoSummary
                                \/ summaries[k] # NoSummary /\ summaries'[k].of = summaries[k].of
    PROVE  WriterKeeps
<1>1. TriesMatch'
  BY ArchiveIs DEF TriesMatch, HasPeriod
<1>2. Progresses'
  <2> SUFFICES ASSUME writer' # "idle" PROVE Progresses'
    BY DEF Progresses
  <2>1. writer # "idle" /\ work' = work
    OBVIOUS
  <2>2. PICK row, lines : row = periods[work.month] /\ lines = work.lines
    OBVIOUS
  <2>3. Begins(row, lines) /\ lines \in Seq(AllLines \X Texts)
    BY <2>1, <2>2, WorkIs DEF Work
  <2>4. \A i \in 1 .. Len(lines) : lines[i][1] \in AllLines
    BY <2>3
  <2>5. \A i \in 1 .. Len(lines) : lines[i][1] >= row.start /\ stored'[lines[i][1]] # "none"
    BY <2>3, <2>4 DEF Begins
  <2>6. Len(row.partial) <= Len(lines) /\ SourceHash(row.partial) = SubSeq(lines, 1, Len(row.partial))
    BY <2>3 DEF Begins
  <2>7. Begins(row, lines)'
    BY <2>5, <2>6 DEF Begins, SourceHash
  <2>8. /\ HasPeriod(work.month) /\ row.status = "running" /\ row.attempts = work.failures
        /\ work.failures < ATTEMPTS_PER_PART /\ Len(row.partial) < Len(lines)
    BY <2>1, <2>2, WorkIs
  <2>9. /\ work' = work /\ periods'[work'.month] = row /\ work'.lines = lines
    BY <2>1, <2>2
  <2> QED BY <2>7, <2>8, <2>9 DEF Progresses, HasPeriod
<1>3. SummariesAreOfDone'
  <2> SUFFICES ASSUME NEW k \in AllMonths, summaries'[k] # NoSummary
               PROVE  /\ periods[k] # NoPeriod /\ periods[k].status = "done"
                      /\ \A i \in 1 .. Len(summaries'[k].of) :
                            summaries'[k].of[i][1] >= periods[k].start
    BY DEF SummariesAreOfDone, HasPeriod
  <2>1. summaries[k] # NoSummary /\ summaries'[k].of = summaries[k].of
    OBVIOUS
  <2> QED BY <2>1, ArchiveIs DEF SummariesAreOfDone, HasPeriod
<1>4. MadeWhole
  BY DEF MadeWhole
<1>5. DoneStays
  BY DEF DoneStays, HasPeriod
<1> QED BY <1>1, <1>2, <1>3, <1>4, <1>5 DEF ArchiveInv, WriterKeeps

\* The lines of a summary are messages of the chat.
LEMMA OfLines ==
    ASSUME ArchiveInv, NEW k \in AllMonths, summaries[k] # NoSummary,
           NEW i \in DOMAIN summaries[k].of
    PROVE  i \in 1 .. Len(summaries[k].of) /\ summaries[k].of[i][1] \in AllLines
<1>1. PICK s, V : s = summaries[k].of /\ V = AllLines \X Texts \X Generations
  OBVIOUS
<1>2. s \in Seq(V)
  BY <1>1, ArchiveIs DEF Summary
<1>3. i \in 1 .. Len(s) /\ s[i] \in V
  BY <1>1, <1>2
<1> QED BY <1>1, <1>3

LEMMA NothingGoes ==
    ASSUME ArchiveInv, \A m \in AllLines : stored[m] # "none" => stored'[m] # "none",
           \A k \in AllMonths : summaries'[k] = NoSummary \/ summaries'[k] = summaries[k]
    PROVE  GoneIsSaid'
<1> SUFFICES ASSUME NEW k \in AllMonths, summaries'[k] # NoSummary, ~summaries'[k].noted,
                    NEW i \in DOMAIN summaries'[k].of
             PROVE  stored'[summaries'[k].of[i][1]] # "none"
  BY DEF GoneIsSaid
<1>1. summaries'[k] = summaries[k] /\ summaries[k] # NoSummary
  OBVIOUS
<1>2. summaries[k].of[i][1] \in AllLines
  BY <1>1, OfLines
<1>3. stored[summaries[k].of[i][1]] # "none"
  BY <1>1, ArchiveIs DEF GoneIsSaid
<1> QED BY <1>1, <1>2, <1>3

\* Of the steps that change nothing that was written
LEMMA NothingWritten ==
    ASSUME ArchiveInv, UNCHANGED stored, UNCHANGED periods, UNCHANGED failedTries,
           UNCHANGED summaries, UNCHANGED monthsOver,
           UNCHANGED <<writer, work>> \/ Rests \/ Slept,
           since' \in AllLines \cup {NoDate}, settings' \in Generations,
           wanted' \in BOOLEAN /\ coolsOff' \in BOOLEAN /\ lockTaken' \in BOOLEAN, Counted'
    PROVE  WriterKeeps
<1>1. /\ writer' # "idle" => writer # "idle" /\ UNCHANGED work
      /\ writer' \in {"idle", "asking", "sleeping"}
  BY ArchiveIs DEF Rests, Slept, ArchiveTyped
<1>2. ArchiveTyped'
  BY <1>1, ArchiveIs DEF ArchiveTyped, Counted
<1>3. GoneIsSaid'
  BY ArchiveIs DEF GoneIsSaid
<1> QED BY <1>1, <1>2, <1>3, MonthsStay

LEMMA QuietKeeps ==
    ASSUME ArchiveInv,
           Slept \/ CoolsOff \/ ImportLocks \/ ImportUnlocks \/ Restarts \/ Changes
           \/ (\E m \in AllLines : SetsSince(m)) \/ UNCHANGED archiveVars
    PROVE  WriterKeeps
<1>1. /\ archiveActs \in 0 .. MaxActs /\ refusals \in 0 .. MaxRefusals
      /\ since \in AllLines \cup {NoDate} /\ settings \in Generations
      /\ wanted \in BOOLEAN /\ coolsOff \in BOOLEAN /\ lockTaken \in BOOLEAN
  BY ArchiveIs DEF ArchiveTyped
<1>2. CASE Slept
  <2>1. Counted'
    BY <1>1, <1>2 DEF Slept, Counted, counters
  <2> QED BY <1>1, <1>2, <2>1, NothingWritten DEF Slept, outside
<1>3. CASE CoolsOff
  <2>1. Counted'
    BY <1>1, <1>3 DEF CoolsOff, Counted, counters
  <2> QED BY <1>1, <1>3, <2>1, NothingWritten DEF CoolsOff, outside
<1>4. CASE ImportLocks
  <2>1. Counted'
    BY <1>4, ActsCounted DEF ImportLocks
  <2> QED BY <1>1, <1>4, <2>1, NothingWritten DEF ImportLocks
<1>5. CASE ImportUnlocks
  <2>1. Counted'
    BY <1>1, <1>5 DEF ImportUnlocks, Counted, counters
  <2> QED BY <1>1, <1>5, <2>1, NothingWritten DEF ImportUnlocks
<1>6. CASE Restarts
  <2>1. Counted'
    BY <1>6, ActsCounted DEF Restarts
  <2> QED BY <1>1, <1>6, <2>1, NothingWritten DEF Restarts
<1>7. CASE Changes
  <2>1. Counted'
    BY <1>7, ActsCounted DEF Changes
  <2>2. wanted' \in BOOLEAN /\ settings' \in Generations
    BY <1>1, <1>7 DEF Changes
  <2> QED BY <1>1, <1>7, <2>1, <2>2, NothingWritten DEF Changes
<1>8. ASSUME NEW m \in AllLines, SetsSince(m) PROVE WriterKeeps
  <2>1. Counted'
    BY <1>8, ActsCounted DEF SetsSince
  <2> QED BY <1>1, <1>8, <2>1, NothingWritten DEF SetsSince, outside
<1>9. CASE UNCHANGED archiveVars
  <2>1. Counted'
    BY <1>1, <1>9 DEF archiveVars, Counted, counters
  <2> QED BY <1>1, <1>9, <2>1, NothingWritten DEF archiveVars, outside
<1> QED BY <1>2, <1>3, <1>4, <1>5, <1>6, <1>7, <1>8, <1>9

LEMMA MonthPassesKeeps ==
    ASSUME ArchiveInv, MonthPasses
    PROVE  WriterKeeps
<1>1. /\ monthsOver' = monthsOver + 1 /\ monthsOver < Months
      /\ stored' = [m \in AllLines |-> IF m \in LinesOf(monthsOver + 1) THEN "first" ELSE stored[m]]
      /\ UNCHANGED since /\ UNCHANGED wanted /\ UNCHANGED settings /\ UNCHANGED lockTaken
      /\ UNCHANGED periods /\ UNCHANGED summaries /\ UNCHANGED writer /\ UNCHANGED work
      /\ UNCHANGED coolsOff /\ UNCHANGED failedTries /\ UNCHANGED archiveActs /\ UNCHANGED refusals
  BY DEF MonthPasses, counters
<1>2. stored' \in [AllLines -> {"none", "first", "edited"}]
      /\ \A m \in AllLines : stored[m] # "none" => stored'[m] # "none"
  BY <1>1, ArchiveIs DEF ArchiveTyped
<1>3. monthsOver' \in 0 .. Months
  BY <1>1, TheMonths, ArchiveIs DEF ArchiveTyped
<1>4. ArchiveTyped'
  BY <1>1, <1>2, <1>3, ArchiveIs DEF ArchiveTyped
<1>5. GoneIsSaid'
  BY <1>1, <1>2, NothingGoes
<1> QED BY <1>1, <1>2, <1>4, <1>5, MonthsStay

LEMMA EditKeeps ==
    ASSUME ArchiveInv, NEW m \in AllLines, EditMessage(m)
    PROVE  WriterKeeps
<1>1. /\ stored' = [stored EXCEPT ![m] = "edited"]
      /\ UNCHANGED since /\ UNCHANGED monthsOver /\ UNCHANGED wanted /\ UNCHANGED settings
      /\ UNCHANGED lockTaken
      /\ UNCHANGED periods /\ UNCHANGED summaries /\ UNCHANGED writer /\ UNCHANGED work
      /\ UNCHANGED coolsOff /\ UNCHANGED failedTries
  BY DEF EditMessage, outside
<1>2. stored' \in [AllLines -> {"none", "first", "edited"}]
      /\ \A n \in AllLines : stored[n] # "none" => stored'[n] # "none"
  BY <1>1, ArchiveIs DEF ArchiveTyped
<1>3. Counted'
  BY ActsCounted DEF EditMessage
<1>4. ArchiveTyped'
  BY <1>1, <1>2, <1>3, ArchiveIs DEF ArchiveTyped, Counted
<1>5. GoneIsSaid'
  BY <1>1, <1>2, NothingGoes
<1> QED BY <1>1, <1>2, <1>4, <1>5, MonthsStay

\* A summary of messages before the date began before it, and says so now.
LEMMA DeletesKeeps ==
    ASSUME ArchiveInv, NEW before \in Nat, DeletesBefore(before)
    PROVE  WriterKeeps
<1>1. /\ stored' = [m \in AllLines |-> IF m < before THEN "none" ELSE stored[m]]
      /\ writer = "idle" /\ summaries' = Noted(before)
      /\ UNCHANGED since /\ UNCHANGED monthsOver /\ UNCHANGED wanted /\ UNCHANGED settings
      /\ UNCHANGED lockTaken
      /\ UNCHANGED periods /\ UNCHANGED writer /\ UNCHANGED work
      /\ UNCHANGED coolsOff /\ UNCHANGED failedTries
  BY DEF DeletesBefore, outside
<1>2. ASSUME NEW k \in AllMonths
      PROVE  /\ summaries'[k] \in {NoSummary} \cup Summary
             /\ \/ summaries'[k] = NoSummary
                \/ summaries[k] # NoSummary /\ summaries'[k].of = summaries[k].of
             /\ summaries'[k] # NoSummary /\ ~summaries'[k].noted =>
                   summaries'[k] = summaries[k] /\ ~(periods[k].start < before)
  <2>1. summaries'[k] = IF summaries[k] # NoSummary /\ periods[k].start < before
                        THEN [summaries[k] EXCEPT !.noted = TRUE] ELSE summaries[k]
    BY <1>1 DEF Noted
  <2>2. CASE summaries[k] # NoSummary /\ periods[k].start < before
    <3>1. PICK s \in Summary : s = summaries[k]
      BY <2>2, ArchiveIs
    <3>2. summaries'[k] = [s EXCEPT !.noted = TRUE]
      BY <2>1, <2>2, <3>1
    <3>3. summaries'[k] \in Summary /\ summaries'[k].of = s.of /\ summaries'[k].noted = TRUE
      BY <3>1, <3>2 DEF Summary
    <3> QED BY <2>2, <3>1, <3>3
  <2>3. CASE summaries[k] = NoSummary
    BY <2>1, <2>3
  <2>4. CASE summaries[k] # NoSummary /\ ~(periods[k].start < before)
    <3>1. summaries'[k] = summaries[k] /\ summaries[k] \in Summary
      BY <2>1, <2>4, ArchiveIs
    <3> QED BY <2>4, <3>1
  <2> QED BY <2>2, <2>3, <2>4
<1>3. summaries' \in [AllMonths -> {NoSummary} \cup Summary]
  <2>1. summaries' = [k \in AllMonths |-> summaries'[k]]
    BY <1>1 DEF Noted
  <2> QED BY <1>2, <2>1
<1>4. stored' \in [AllLines -> {"none", "first", "edited"}]
  BY <1>1, ArchiveIs DEF ArchiveTyped
<1>5. Counted'
  BY ActsCounted DEF DeletesBefore
<1>6. ArchiveTyped'
  BY <1>1, <1>3, <1>4, <1>5, ArchiveIs DEF ArchiveTyped, Counted
<1>7. GoneIsSaid'
  <2> SUFFICES ASSUME NEW k \in AllMonths, summaries'[k] # NoSummary, ~summaries'[k].noted,
                      NEW i \in DOMAIN summaries'[k].of
               PROVE  stored'[summaries'[k].of[i][1]] # "none"
    BY DEF GoneIsSaid
  <2>1. summaries'[k] = summaries[k] /\ ~(periods[k].start < before)
    BY <1>2
  <2>2. PICK m, start : m = summaries[k].of[i][1] /\ start = periods[k].start
    OBVIOUS
  <2>3. i \in 1 .. Len(summaries[k].of) /\ m \in AllLines
    BY <2>1, <2>2, OfLines
  <2>4. stored[m] # "none"
    BY <2>1, <2>2, ArchiveIs DEF GoneIsSaid
  <2>5. periods[k] \in Period /\ m >= start
    BY <2>1, <2>2, <2>3, ArchiveIs DEF SummariesAreOfDone
  <2>6. start \in Nat /\ m \in Nat
    <3>1. start \in AllLines
      BY <2>2, <2>5 DEF Period
    <3> QED BY <2>3, <3>1, TheMonths
  <2>7. ~(m < before)
    BY <2>1, <2>2, <2>5, <2>6
  <2> QED BY <1>1, <2>1, <2>2, <2>3, <2>4, <2>7
<1> QED BY <1>1, <1>2, <1>6, <1>7, MonthsStay

\* The owner deletes a summary, or all of them.
LEMMA DropsKeeps ==
    ASSUME ArchiveInv, ClearsSummaries \/ \E k \in AllMonths : DeletesSummary(k)
    PROVE  WriterKeeps
<1>1. /\ UNCHANGED stored /\ UNCHANGED since /\ UNCHANGED monthsOver /\ UNCHANGED wanted
      /\ UNCHANGED settings /\ UNCHANGED lockTaken
      /\ UNCHANGED periods /\ UNCHANGED writer /\ UNCHANGED work
      /\ UNCHANGED coolsOff /\ UNCHANGED failedTries /\ Acts
  BY DEF ClearsSummaries, DeletesSummary, outside
<1>2. summaries \in [AllMonths -> {NoSummary} \cup Summary]
  BY ArchiveIs DEF ArchiveTyped
<1>3. /\ summaries' \in [AllMonths -> {NoSummary} \cup Summary]
      /\ \A j \in AllMonths : summaries'[j] = NoSummary \/ summaries'[j] = summaries[j]
  BY <1>2 DEF ClearsSummaries, DeletesSummary
<1>4. Counted'
  BY <1>1, ActsCounted
<1>5. ArchiveTyped'
  BY <1>1, <1>3, <1>4, ArchiveIs DEF ArchiveTyped, Counted
<1>6. GoneIsSaid'
  BY <1>1, <1>3, NothingGoes
<1>7. \A j \in AllMonths : \/ summaries'[j] = NoSummary
                           \/ summaries[j] # NoSummary /\ summaries'[j].of = summaries[j].of
  BY <1>3
<1> QED BY <1>1, <1>5, <1>6, <1>7, MonthsStay

LEMMA RetriesKeeps ==
    ASSUME ArchiveInv, NEW k \in AllMonths, Retries(k)
    PROVE  WriterKeeps
<1>1. /\ HasPeriod(k) /\ periods[k].status = "failed" /\ Acts
      /\ SetPeriod(k, [Waiting(periods[k]) EXCEPT !.attempts = 0])
      /\ failedTries' = [failedTries EXCEPT ![k] = 0] /\ coolsOff' = FALSE
      /\ Aside /\ UNCHANGED summaries /\ UNCHANGED writer /\ UNCHANGED work
  BY DEF Retries, Aside, outside
<1>2. NotDone(k) /\ periods[k] \in Period
  BY <1>1, ArchiveIs DEF NotDone
<1>3. PICK was, zero, new : /\ was = Waiting(periods[k]) /\ zero = 0
                            /\ new = [was EXCEPT !.attempts = zero]
  OBVIOUS
<1>4. new \in Period /\ new.attempts = 0
  <2>1. was \in Period
    BY <1>2, <1>3, RowForms
  <2>2. zero \in 0 .. ATTEMPTS_PER_PART
    BY <1>3, TheMonths
  <2>3. new = [was EXCEPT !.attempts = zero]
    BY <1>3
  <2>4. new \in Period /\ new.attempts = zero
    BY <2>1, <2>2, <2>3 DEF Period
  <2> QED BY <1>3, <2>4
<1>5. periods' = [periods EXCEPT ![k] = new]
  BY <1>1, <1>3 DEF SetPeriod
<1>6. /\ failedTries' \in [AllMonths -> Nat] /\ failedTries'[k] = new.attempts
      /\ \A j \in AllMonths \ {k} : failedTries'[j] = failedTries[j]
  BY <1>1, <1>4, ArchiveIs DEF ArchiveTyped
<1>7. /\ periods' \in [AllMonths -> {NoPeriod} \cup Period] /\ TriesMatch'
      /\ \A j \in AllMonths \ {k} : periods'[j] = periods[j]
  BY <1>4, <1>5, <1>6, Written
<1>8. Counted'
  BY <1>1, ActsCounted
<1>9. ArchiveTyped'
  BY <1>1, <1>6, <1>7, <1>8, ArchiveIs DEF ArchiveTyped, Aside, Counted
<1>10. Progresses'
  <2> SUFFICES ASSUME writer' # "idle" PROVE Progresses'
    BY DEF Progresses
  <2>1. writer # "idle" /\ work' = work
    BY <1>1
  <2>2. PICK row, lines : row = periods[work.month] /\ lines = work.lines
    OBVIOUS
  <2>3. /\ work.month \in AllMonths /\ HasPeriod(work.month) /\ row.status = "running"
        /\ row.attempts = work.failures /\ work.failures < ATTEMPTS_PER_PART
        /\ Len(row.partial) < Len(lines) /\ Begins(row, lines)
    BY <2>1, <2>2, WorkIs
  <2>4. work.month # k
    BY <1>1, <2>2, <2>3
  <2>5. periods'[work'.month] = row /\ work'.lines = lines
    BY <1>7, <2>1, <2>2, <2>3, <2>4
  <2>6. Begins(row, lines)'
    BY <1>1, <2>3 DEF Begins, SourceHash, Aside
  <2> QED BY <2>1, <2>2, <2>3, <2>5, <2>6 DEF Progresses, HasPeriod
<1>11. SummariesAreOfDone' /\ GoneIsSaid' /\ MadeWhole /\ DoneStays
  BY <1>1, <1>2, <1>7, SummariesStay DEF Aside
<1> QED BY <1>7, <1>9, <1>10, <1>11 DEF ArchiveInv, WriterKeeps

LEMMA ArchiveStarts ==
    ASSUME ArchiveInit
    PROVE  ArchiveInv
<1>1. /\ stored = [m \in AllLines |-> "none"] /\ monthsOver = 0 /\ since = NoDate
      /\ wanted = TRUE /\ settings = Min(Generations)
      /\ periods = [k \in AllMonths |-> NoPeriod]
      /\ summaries = [k \in AllMonths |-> NoSummary]
      /\ writer = "idle" /\ coolsOff = FALSE /\ lockTaken = FALSE
      /\ failedTries = [k \in AllMonths |-> 0] /\ archiveActs = 0 /\ refusals = 0
  BY DEF ArchiveInit
<1>2. settings \in Generations
  <2>1. Generations \in SUBSET Nat /\ Generations # {}
    BY TheMonths
  <2>2. \E m \in Generations : \A n \in Generations : m <= n
    BY <2>1, LeastNat
  <2> QED BY <1>1, <2>2 DEF Min
<1>3. monthsOver \in 0 .. Months /\ archiveActs \in 0 .. MaxActs /\ refusals \in 0 .. MaxRefusals
  BY <1>1, ArchiveAssumption
<1>4. failedTries \in [AllMonths -> Nat]
  BY <1>1
<1>5. ArchiveTyped
  BY <1>1, <1>2, <1>3, <1>4 DEF ArchiveTyped
<1>6. TriesMatch
  BY <1>1 DEF TriesMatch, HasPeriod
<1>7. Progresses
  BY <1>1 DEF Progresses
<1>8. SummariesAreOfDone /\ GoneIsSaid
  BY <1>1 DEF SummariesAreOfDone, GoneIsSaid
<1> QED BY <1>5, <1>6, <1>7, <1>8 DEF ArchiveInv

LEMMA ArchiveStep ==
    ASSUME ArchiveInv, [ArchiveNext]_archiveVars
    PROVE  WriterKeeps
<1>1. CASE Round
  BY <1>1, RoundKeeps DEF WriterKeeps
<1>2. CASE Answers
  BY <1>2, AnswersKeeps
<1>3. CASE Refuses
  BY <1>3, RefusesKeeps
<1>4. CASE CancelledInQueue \/ QueueFull
  BY <1>4, LetGoKeeps
<1>5. CASE Slept \/ CoolsOff \/ ImportLocks \/ ImportUnlocks \/ Restarts \/ UNCHANGED archiveVars
  BY <1>5, QuietKeeps
<1>6. CASE MonthPasses
  BY <1>6, MonthPassesKeeps
<1>7. CASE Owner
  <2>1. ASSUME NEW m \in AllLines, EditMessage(m) \/ DeletesBefore(m + 1) \/ SetsSince(m)
        PROVE  WriterKeeps
    <3>1. m + 1 \in Nat
      BY TheMonths
    <3> QED BY <2>1, <3>1, EditKeeps, DeletesKeeps, QuietKeeps
  <2>2. ASSUME NEW k \in AllMonths, DeletesSummary(k) \/ Retries(k)
        PROVE  WriterKeeps
    BY <2>2, DropsKeeps, RetriesKeeps
  <2>3. CASE ClearsSummaries \/ Changes
    BY <2>3, DropsKeeps, QuietKeeps
  <2> QED BY <1>7, <2>1, <2>2, <2>3 DEF Owner
<1>8. CASE DiesGivingUp
  BY <1>8, DiesGivingUpKeeps
<1> QED BY <1>1, <1>2, <1>3, <1>4, <1>5, <1>6, <1>7, <1>8 DEF ArchiveNext

LEMMA ArchiveSays ==
    ASSUME ArchiveInv
    PROVE  ArchiveTypeOK /\ GoneIsSaid /\ TriesAreCounted
<1>1. ArchiveTypeOK /\ GoneIsSaid
  BY ArchiveIs DEF ArchiveTyped, ArchiveTypeOK
<1>2. TriesAreCounted
  <2> SUFFICES ASSUME NEW k \in AllMonths PROVE failedTries[k] <= ATTEMPTS_PER_PART
    BY DEF TriesAreCounted
  <2>1. CASE HasPeriod(k)
    <3>1. failedTries[k] = periods[k].attempts /\ periods[k].attempts \in 0 .. ATTEMPTS_PER_PART
      BY <2>1, ArchiveIs, RowForms DEF TriesMatch
    <3> QED BY <3>1, TheMonths
  <2>2. CASE ~HasPeriod(k)
    BY <2>2, ArchiveIs, TheMonths DEF TriesMatch
  <2> QED BY <2>1, <2>2
<1> QED BY <1>1, <1>2

\* A summary of live chat is made once and of everything its work began with,
\* tells of deleted messages, and no part was asked for too often, whatever is
\* edited, deleted, set, cancelled or refused meanwhile and however often the
\* process restarts.
THEOREM LiveSummariesAreWhole == ArchiveSpec => MadeOnceAndWhole
<1>1. ArchiveInit => ArchiveInv
  BY ArchiveStarts
<1>2. ArchiveInv /\ [ArchiveNext]_archiveVars => ArchiveInv' /\ MadeWhole /\ DoneStays
  BY ArchiveStep DEF WriterKeeps
<1>3. ArchiveInv => ArchiveTypeOK /\ GoneIsSaid /\ TriesAreCounted
  BY ArchiveSays
<1>4. ArchiveInv /\ [ArchiveNext]_archiveVars =>
        [\A k \in AllMonths : summaries[k] = NoSummary /\ summaries'[k] # NoSummary =>
            SourceHash(summaries'[k].of) = LinesRead(k)]_archiveVars
  BY <1>2 DEF MadeWhole
<1>5. ArchiveInv /\ [ArchiveNext]_archiveVars =>
        [\A k \in AllMonths : HasPeriod(k) /\ periods[k].status = "done" =>
            /\ periods'[k] # NoPeriod /\ periods'[k].status = "done"
            /\ summaries[k] = NoSummary => summaries'[k] = NoSummary]_archiveVars
  BY <1>2 DEF DoneStays
<1> QED BY <1>1, <1>2, <1>3, <1>4, <1>5, PTL
     DEF ArchiveSpec, MadeOnceAndWhole, SummariesAreWhole, DoneForGood
=============================================================================
