-------------------------- MODULE ModelQueueProofs --------------------------
(***************************************************************************)
(* Proofs about ModelQueue for any number of requests, any limits and any  *)
(* settings: its type invariant, its safety invariants and its action      *)
(* properties.                                                             *)
(***************************************************************************)
EXTENDS ModelQueue, FiniteSetTheorems, WellFoundedInduction, TLAPS

-----------------------------------------------------------------------------
(* Sets, and numbers *)

\* A set of natural numbers that is not empty has a least element.
LEMMA LeastNat ==
    ASSUME NEW S \in SUBSET Nat, S # {}
    PROVE  \E m \in S : \A n \in S : m <= n
<1>1. PICK m \in S : \A n \in S : <<n, m>> \notin OpToRel(<, Nat)
  BY NatLessThanWellFounded, WFMin
<1>2. \A n \in S : ~(n < m)
  BY <1>1 DEF OpToRel
<1> QED BY <1>2

\* Bounded above, it has a greatest one.
LEMMA GreatestNat ==
    ASSUME NEW S \in SUBSET Nat, S # {},
           NEW b \in Nat, \A n \in S : n <= b
    PROVE  \E m \in S : \A n \in S : n <= m
<1> DEFINE B == {k \in Nat : \A n \in S : n <= k}
<1>1. PICK m \in B : \A k \in B : m <= k
  <2>1. b \in B /\ B \in SUBSET Nat
    OBVIOUS
  <2> QED BY <2>1, LeastNat
<1>2. m \in S
  <2> SUFFICES ASSUME m \notin S PROVE FALSE
    OBVIOUS
  <2>1. \A n \in S : n <= m - 1
    BY <1>1
  <2>2. m - 1 \in Nat
    <3>1. PICK n \in S : n \in Nat
      OBVIOUS
    <3>2. n <= m - 1
      BY <2>1, <3>1
    <3> QED BY <1>1, <3>1, <3>2
  <2>3. m - 1 \in B
    BY <2>1, <2>2
  <2> QED BY <1>1, <2>3
<1> QED BY <1>1, <1>2

\* The members of two sets that share none.
LEMMA DisjointUnion ==
    ASSUME NEW S, NEW T, IsFiniteSet(S), IsFiniteSet(T), S \cap T = {}
    PROVE  /\ IsFiniteSet(S \cup T)
           /\ Cardinality(S \cup T) = Cardinality(S) + Cardinality(T)
<1>1. Cardinality(S) \in Nat /\ Cardinality(T) \in Nat
  BY FS_CardinalityType
<1>2. Cardinality(S \cap T) = 0
  BY FS_EmptySet
<1>3. /\ IsFiniteSet(S \cup T)
      /\ Cardinality(S \cup T) =
             Cardinality(S) + Cardinality(T) - Cardinality(S \cap T)
  BY FS_Union
<1> QED BY <1>1, <1>2, <1>3

-----------------------------------------------------------------------------
(* A loop takes the elements of Q in the order of sq until n members of L   *)
(* are taken.  r is taken if fewer than n members of L come before it.      *)

TakenFrom(Q, sq, L, n) ==
    {r \in Q : Cardinality({u \in L : sq[u] < sq[r]}) < n}

\* With what comes before an element that is taken, the loop took it first.
LEMMA TakenIsPrefix ==
    ASSUME NEW Q, IsFiniteSet(Q), NEW sq \in [Q -> Nat], NEW L \in SUBSET Q,
           NEW n \in Int, NEW r \in TakenFrom(Q, sq, L, n),
           NEW u \in Q, sq[u] <= sq[r]
    PROVE  u \in TakenFrom(Q, sq, L, n)
<1> DEFINE Before(x) == {v \in L : sq[v] < sq[x]}
<1>1. r \in Q /\ Cardinality(Before(r)) < n
  BY DEF TakenFrom
<1>2. IsFiniteSet(Before(r)) /\ IsFiniteSet(Before(u))
  BY FS_Subset
<1>3. Before(u) \subseteq Before(r)
  BY <1>1
<1>4. Cardinality(Before(u)) <= Cardinality(Before(r))
  BY <1>2, <1>3, FS_Subset
<1>5. Cardinality(Before(u)) \in Nat /\ Cardinality(Before(r)) \in Nat
  BY <1>2, FS_CardinalityType
<1>6. Cardinality(Before(u)) < n
  <2> HIDE DEF Before
  <2> QED BY <1>1, <1>4, <1>5
<1> QED BY <1>6 DEF TakenFrom

\* The loop takes no more than n members of L.
LEMMA TakenIsBounded ==
    ASSUME NEW Q, IsFiniteSet(Q), NEW sq \in [Q -> Nat],
           \A x, y \in Q : sq[x] = sq[y] => x = y,
           NEW L \in SUBSET Q, NEW n \in Int,
           NEW b \in Nat, \A x \in Q : sq[x] <= b
    PROVE  LET T == TakenFrom(Q, sq, L, n) \cap L
           IN  T # {} => Cardinality(T) <= n
<1> DEFINE T == TakenFrom(Q, sq, L, n) \cap L
           Places == {sq[x] : x \in T}
<1> SUFFICES ASSUME T # {} PROVE Cardinality(T) <= n
  OBVIOUS
<1>1. T \subseteq Q
  OBVIOUS
<1>2. PICK m \in T : \A x \in T : sq[x] <= sq[m]
  <2>1. Places \in SUBSET Nat /\ Places # {} /\ \A p \in Places : p <= b
    BY <1>1
  <2>2. PICK p \in Places : \A k \in Places : k <= p
    BY <2>1, GreatestNat
  <2> QED BY <2>2
<1> DEFINE Before == {v \in L : sq[v] < sq[m]}
<1>3. Cardinality(Before) < n
  BY <1>2 DEF TakenFrom
<1>4. T \ {m} \subseteq Before
  BY <1>1, <1>2
<1>5. IsFiniteSet(T) /\ IsFiniteSet(Before) /\ IsFiniteSet(T \ {m})
  BY <1>1, FS_Subset
<1>6. Cardinality(T \ {m}) <= Cardinality(Before)
  BY <1>4, <1>5, FS_Subset
<1>7. Cardinality(T \ {m}) = Cardinality(T) - 1
  BY <1>2, <1>5, FS_RemoveElement
<1>8. Cardinality(T) \in Nat /\ Cardinality(Before) \in Nat
  BY <1>5, FS_CardinalityType
<1> HIDE DEF T, Before
<1> QED BY <1>3, <1>6, <1>7, <1>8

\* It stops short of the end only when it has taken n of them.
LEMMA TakenIsMaximal ==
    ASSUME NEW Q, IsFiniteSet(Q), NEW sq \in [Q -> Nat],
           NEW L \in SUBSET Q, NEW n \in Int,
           TakenFrom(Q, sq, L, n) # Q
    PROVE  n <= Cardinality(TakenFrom(Q, sq, L, n) \cap L)
<1> DEFINE Taken == TakenFrom(Q, sq, L, n)
           Left == {sq[x] : x \in Q \ Taken}
<1>1. Taken \subseteq Q
  BY DEF TakenFrom
<1>2. PICK m \in Q \ Taken : \A x \in Q \ Taken : sq[m] <= sq[x]
  <2>1. Left \in SUBSET Nat /\ Left # {}
    BY <1>1
  <2>2. PICK p \in Left : \A k \in Left : p <= k
    BY <2>1, LeastNat
  <2> QED BY <2>2
<1> DEFINE Before == {v \in L : sq[v] < sq[m]}
<1>3. Before \subseteq Taken \cap L
  BY <1>2
<1>4. IsFiniteSet(Before) /\ IsFiniteSet(Taken \cap L)
  BY <1>1, FS_Subset
<1>5. Cardinality(Before) <= Cardinality(Taken \cap L)
  BY <1>3, <1>4, FS_Subset
<1>6. Cardinality(Before) \in Nat /\ Cardinality(Taken \cap L) \in Nat
  BY <1>4, FS_CardinalityType
<1>7. ~(Cardinality(Before) < n)
  BY <1>2 DEF TakenFrom
<1> HIDE DEF Before
<1> QED BY <1>5, <1>6, <1>7

-----------------------------------------------------------------------------
(* The tickets *)

Tickets == [state : TicketStates,
            seq : Nat,
            attempt : 0 .. 2,
            future : {"none", "pending", "started", "refused", "cancelled"}]

-----------------------------------------------------------------------------
(* Tickets *)

LEMMA BecomesFields ==
    ASSUME NEW t, NEW s, NEW f
    PROVE  /\ Becomes(t, s, f).state = s
           /\ Becomes(t, s, f).future = f
           /\ Becomes(t, s, f).seq = t.seq
           /\ Becomes(t, s, f).attempt = t.attempt
BY DEF Becomes

LEMMA BecomesType ==
    ASSUME NEW t \in Tickets,
           NEW s \in TicketStates,
           NEW f \in {"none", "pending", "started", "refused", "cancelled"}
    PROVE  Becomes(t, s, f) \in Tickets
BY DEF Becomes, Tickets

-----------------------------------------------------------------------------
(* The limits *)

LEMMA LimitsType ==
    ASSUME NEW s \in SettingsChoices
    PROVE  /\ Total(s) \in Nat \ {0}
           /\ EffectiveBackground(s) \in Nat
<1>1. s \in Settings
  BY LimitsAssumption
<1>2. /\ s.parallel \in Nat \ {0}
      /\ s.background \in Nat
      /\ s.reserved \in Nat
      /\ s.paused \in BOOLEAN
  BY <1>1 DEF Settings
<1> QED BY <1>2 DEF Total, EffectiveBackground, EffectiveReserved, Least

LEMMA FiniteRequests ==
    ASSUME NEW S \in SUBSET Requests
    PROVE  IsFiniteSet(S) /\ Cardinality(S) \in Nat
BY RequestsAssumption, FS_Subset, FS_CardinalityType

-----------------------------------------------------------------------------
(* What a dispatch does *)

\* The tickets and rows after a dispatch that started some of the requests of
\* q and expired some others.
Dispatched(tk, rw, q, run, start, expire) ==
    /\ start \subseteq q
    /\ expire \subseteq q
    /\ start \cap expire = {}
    /\ queued' = q \ (start \cup expire)
    /\ running' = run \cup start
    /\ ticket' = [r \in Requests |->
           IF r \in start THEN Becomes(tk[r], "running", "started")
           ELSE IF r \in expire
           THEN Becomes(tk[r], "expired", Refused(tk[r].future))
           ELSE tk[r]]
    /\ row' = [r \in Requests |->
           IF r \in start THEN Log(r, "running")
           ELSE IF r \in expire THEN Log(r, "expired") ELSE rw[r]]
    /\ \A r \in start : Startable(tk, r)

\* It starts them within the limits and in order, and leaves nothing waiting
\* that could start.
WithinLimits(start) ==
    /\ start # {} => Cardinality(running') <= Total(settings')
    /\ OfPriority(start, "background") # {} =>
           /\ BackgroundRunning' <= EffectiveBackground(settings')
           /\ OfPriority(queued', "foreground") = {}

InOrder(tk, start) ==
    \A s \in start, w \in queued' :
        PriorityOf(s) = PriorityOf(w) => tk[s].seq < tk[w].seq

DistinctPlaces(tk, q, b) ==
    /\ \A r, u \in q : tk[r].seq = tk[u].seq => r = u
    /\ \A r \in q : tk[r].seq <= b

\* The requests of one priority a dispatch takes with n free slots.
LEMMA PoppedEffect ==
    ASSUME NEW tk \in [Requests -> Tickets], NEW q \in SUBSET Requests,
           NEW b \in Nat, DistinctPlaces(tk, q, b), NEW n \in Int
    PROVE  LET F == Popped(tk, q, n)
               S == {r \in F : Startable(tk, r)}
           IN  /\ F \subseteq q
               /\ S # {} => Cardinality(S) <= n
               /\ F # q => n <= Cardinality(S)
               /\ \A s \in F, w \in q \ F : tk[s].seq < tk[w].seq
<1> DEFINE F == Popped(tk, q, n)
           S == {r \in F : Startable(tk, r)}
           L == {r \in q : Startable(tk, r)}
           sq == [r \in q |-> tk[r].seq]
<1>1. F \subseteq q
  BY DEF Popped
<1>2. sq \in [q -> Nat]
  BY DEF Tickets
<1>3. F = TakenFrom(q, sq, L, n)
  <2>1. \A r \in q : {u \in Ahead(tk, q, r) : Startable(tk, u)}
                         = {u \in L : sq[u] < sq[r]}
    BY DEF Ahead
  <2> HIDE DEF L, sq
  <2> QED BY <2>1 DEF Popped, TakenFrom
<1>4. S = TakenFrom(q, sq, L, n) \cap L
  BY <1>1, <1>3
<1>5. IsFiniteSet(q)
  BY FiniteRequests
<1>6. /\ \A x, y \in q : sq[x] = sq[y] => x = y
      /\ \A x \in q : sq[x] <= b
  BY DEF DistinctPlaces
<1>7. L \in SUBSET q
  OBVIOUS
<1>8. S # {} => Cardinality(S) <= n
  <2> HIDE DEF L, sq, S, F
  <2> QED BY <1>2, <1>4, <1>5, <1>6, <1>7, TakenIsBounded
<1>9. F # q => n <= Cardinality(S)
  <2> HIDE DEF L, sq, S, F
  <2> QED BY <1>2, <1>3, <1>4, <1>5, <1>7, TakenIsMaximal
<1>10. ASSUME NEW s \in F, NEW w \in q \ F
       PROVE  tk[s].seq < tk[w].seq
  <2>1. ~(sq[w] <= sq[s])
    <3> HIDE DEF L, sq, S, F
    <3> QED BY <1>2, <1>3, <1>5, <1>7, <1>10, TakenIsPrefix
  <2>2. sq[w] = tk[w].seq /\ sq[s] = tk[s].seq
    BY <1>1, <1>10
  <2>3. tk[w].seq \in Nat /\ tk[s].seq \in Nat
    BY <1>1, <1>10 DEF Tickets
  <2> HIDE DEF sq
  <2> QED BY <2>1, <2>2, <2>3
<1> QED BY <1>1, <1>8, <1>9, <1>10

\* The whole dispatch.
LEMMA DispatchEffect ==
    ASSUME NEW tk \in [Requests -> Tickets], NEW rw,
           NEW q \in SUBSET Requests, NEW run \in SUBSET Requests,
           q \cap run = {},
           NEW b \in Nat, DistinctPlaces(tk, q, b),
           settings' \in SettingsChoices,
           Dispatch(tk, rw, q, run)
    PROVE  \E start, expire \in SUBSET Requests :
               /\ Dispatched(tk, rw, q, run, start, expire)
               /\ WithinLimits(start)
               /\ InOrder(tk, start)
               /\ NoStartableWaiting'
<1> DEFINE QF == OfPriority(q, "foreground")
           QB == OfPriority(q, "background")
           F == Popped(tk, QF, ForegroundSlots(run))
           FS == {r \in F : Startable(tk, r)}
           B == Popped(tk, QB, BackgroundSlots(run, FS))
           BS == {r \in B : Startable(tk, r)}
           start == {r \in F \cup B : Startable(tk, r)}
           expire == (F \cup B) \ start
           total == Total(settings')
           share == EffectiveBackground(settings')
           runB == OfPriority(run, "background")
<1>1. /\ total \in Nat \ {0}
      /\ share \in Nat
  BY LimitsType
<1>2. /\ QF \subseteq q /\ QB \subseteq q
      /\ QF \cup QB = q /\ QF \cap QB = {}
      /\ runB \subseteq run
  BY DEF OfPriority, PriorityOf
<1>3. /\ DistinctPlaces(tk, QF, b)
      /\ DistinctPlaces(tk, QB, b)
  BY <1>2 DEF DistinctPlaces
<1>4. Cardinality(run) \in Nat /\ Cardinality(runB) \in Nat
  BY <1>2, FiniteRequests
<1>5. /\ ForegroundSlots(run) = total - Cardinality(run)
      /\ ForegroundSlots(run) \in Int
  BY <1>1, <1>4 DEF ForegroundSlots
<1>6. /\ F \subseteq QF
      /\ FS # {} => Cardinality(FS) <= ForegroundSlots(run)
      /\ F # QF => ForegroundSlots(run) <= Cardinality(FS)
      /\ \A s \in F, w \in QF \ F : tk[s].seq < tk[w].seq
  <2> HIDE DEF QF, QB
  <2> QED BY <1>2, <1>3, <1>5, PoppedEffect
<1>7. Cardinality(FS) \in Nat
  <2>1. FS \in SUBSET Requests
    BY <1>2, <1>6
  <2> QED BY <2>1, FiniteRequests
<1>8. /\ BackgroundSlots(run, FS) =
             Least(ForegroundSlots(run) - Cardinality(FS),
                   share - Cardinality(runB))
      /\ BackgroundSlots(run, FS) \in Int
  <2> HIDE DEF FS
  <2> QED BY <1>1, <1>4, <1>5, <1>7 DEF BackgroundSlots, Least
<1>9. /\ B \subseteq QB
      /\ BS # {} => Cardinality(BS) <= BackgroundSlots(run, FS)
      /\ B # QB => BackgroundSlots(run, FS) <= Cardinality(BS)
      /\ \A s \in B, w \in QB \ B : tk[s].seq < tk[w].seq
  <2> HIDE DEF QF, QB, FS
  <2> QED BY <1>2, <1>3, <1>8, PoppedEffect
<1>10. Cardinality(BS) \in Nat
  <2>1. BS \in SUBSET Requests
    BY <1>2, <1>9
  <2> QED BY <2>1, FiniteRequests
<1>11. /\ start = FS \cup BS
       /\ FS \subseteq QF /\ BS \subseteq QB
       /\ start \cup expire = F \cup B
       /\ start \in SUBSET Requests /\ expire \in SUBSET Requests
  BY <1>2, <1>6, <1>9
<1>12. Dispatched(tk, rw, q, run, start, expire)
  <2>1. start \subseteq q /\ expire \subseteq q /\ start \cap expire = {}
    BY <1>2, <1>6, <1>9
  <2> QED BY <2>1 DEF Dispatch, Dispatched
<1>13. queued' = (QF \ F) \cup (QB \ B) /\ running' = run \cup FS \cup BS
  BY <1>2, <1>6, <1>9, <1>11, <1>12 DEF Dispatched
<1>14. /\ OfPriority(queued', "foreground") = QF \ F
       /\ OfPriority(queued', "background") = QB \ B
       /\ OfPriority(start, "background") = BS
       /\ OfPriority(running', "background") = runB \cup BS
  BY <1>11, <1>13 DEF OfPriority, PriorityOf
<1>15. Cardinality(running') = Cardinality(run) + Cardinality(FS) + Cardinality(BS)
  <2>1. /\ IsFiniteSet(run) /\ IsFiniteSet(FS) /\ IsFiniteSet(BS)
    BY <1>2, <1>11, FiniteRequests
  <2>2. run \cap FS = {} /\ (run \cup FS) \cap BS = {}
    BY <1>2, <1>11
  <2> HIDE DEF FS, BS
  <2>3. /\ IsFiniteSet(run \cup FS)
        /\ Cardinality(run \cup FS) = Cardinality(run) + Cardinality(FS)
    BY <2>1, <2>2, DisjointUnion
  <2>4. Cardinality((run \cup FS) \cup BS) = Cardinality(run \cup FS) + Cardinality(BS)
    BY <2>1, <2>2, <2>3, DisjointUnion
  <2> QED BY <2>3, <2>4, <1>13
<1>16. BackgroundRunning' = Cardinality(runB) + Cardinality(BS)
  <2>1. IsFiniteSet(runB) /\ IsFiniteSet(BS) /\ runB \cap BS = {}
    BY <1>2, <1>11, FiniteRequests
  <2>2. Cardinality(runB \cup BS) = Cardinality(runB) + Cardinality(BS)
    <3> HIDE DEF BS, runB
    <3> QED BY <2>1, DisjointUnion
  <2> QED BY <2>2, <1>14 DEF BackgroundRunning
<1>17. BS # {} => Cardinality(BS) >= 1
  <2>1. IsFiniteSet(BS)
    BY <1>2, <1>11, FiniteRequests
  <2> HIDE DEF BS
  <2> QED BY <2>1, <1>10, FS_EmptySet
<1> HIDE DEF QF, QB, F, FS, B, BS, start, expire, runB
<1>18. WithinLimits(start)
  <2>1. start # {} => Cardinality(running') <= total
    <3>1. CASE BS # {}
      BY <3>1, <1>1, <1>4, <1>5, <1>7, <1>8, <1>9, <1>10, <1>15 DEF Least
    <3>2. CASE BS = {}
      <4>1. Cardinality(BS) = 0
        BY <3>2, FS_EmptySet
      <4> QED BY <4>1, <3>2, <1>1, <1>4, <1>5, <1>6, <1>7, <1>11, <1>15
    <3> QED BY <3>1, <3>2
  <2>2. ASSUME BS # {} PROVE BackgroundRunning' <= share
    BY <2>2, <1>1, <1>4, <1>5, <1>7, <1>8, <1>9, <1>10, <1>16 DEF Least
  <2>3. ASSUME BS # {} PROVE QF \ F = {}
    <3>1. Cardinality(FS) < ForegroundSlots(run)
      BY <2>3, <1>1, <1>4, <1>5, <1>7, <1>8, <1>9, <1>10, <1>17 DEF Least
    <3> QED BY <3>1, <1>5, <1>6, <1>7
  <2> QED BY <2>1, <2>2, <2>3, <1>14 DEF WithinLimits
<1>19. InOrder(tk, start)
  <2> SUFFICES ASSUME NEW s \in start, NEW w \in queued',
                      PriorityOf(s) = PriorityOf(w)
               PROVE  tk[s].seq < tk[w].seq
    BY DEF InOrder
  <2>1. \/ s \in F /\ w \in QF \ F
        \/ s \in B /\ w \in QB \ B
    BY <1>11, <1>13 DEF FS, BS, QF, QB, OfPriority
  <2> QED BY <2>1, <1>6, <1>9
<1>20. NoStartableWaiting'
  <2>1. ASSUME QF \ F # {} PROVE Cardinality(running') >= total
    BY <2>1, <1>1, <1>4, <1>5, <1>6, <1>7, <1>10, <1>15
  <2>2. ASSUME QB \ B # {}
        PROVE  Cardinality(running') >= total \/ BackgroundRunning' >= share
    <3>1. BackgroundSlots(run, FS) <= Cardinality(BS)
      BY <2>2, <1>9
    <3> QED BY <3>1, <1>1, <1>4, <1>5, <1>7, <1>8, <1>10, <1>15, <1>16 DEF Least
  <2> QED BY <2>1, <2>2, <1>14 DEF NoStartableWaiting
<1> QED BY <1>11, <1>12, <1>18, <1>19, <1>20

-----------------------------------------------------------------------------
(* The inductive invariant.  Its parts take the tickets, rows, queue, running *)
(* requests and callers as arguments, so that they can also be stated of what *)
(* a handler leaves to the dispatch at its end.                               *)

\* Where a call stands and what its ticket says.
CallsMatch(tk, cl) ==
    \A r \in Requests :
        /\ tk[r].state = "none" <=> cl[r] \in {"idle", "ended"}
        /\ tk[r].state \in {"queued", "cancelled", "expired"} => cl[r] = "waiting"
        /\ tk[r].state = "running" => cl[r] \in {"waiting", "calling"}
        /\ tk[r].state = "retrying" => cl[r] = "sleeping" /\ tk[r].attempt = 1
        /\ cl[r] = "calling" => tk[r].state = "running"
        /\ cl[r] = "sleeping" => tk[r].state = "retrying"

\* A future is done when, and as, its ticket leaves the queue; a caller that
\* gives up cancels it only while it is pending.
FuturesMatch(tk, cl, gone) ==
    \A r \in Requests :
        /\ tk[r].state = "none" => tk[r].future = "none"
        /\ tk[r].state = "queued" => tk[r].future \in {"pending", "cancelled"}
        /\ tk[r].state = "running" => tk[r].future = "started"
        /\ tk[r].state \in {"cancelled", "expired"} =>
               tk[r].future \in {"refused", "cancelled"}
        /\ r \in gone => cl[r] = "waiting" /\ tk[r].future # "pending"

QueueMatches(tk, q, run) ==
    \A r \in Requests :
        /\ r \in q <=> tk[r].state = "queued"
        /\ r \in run <=> tk[r].state = "running"

\* Every ticket has a place, given out before, and every open one its own.
PlacesMatch(tk, next) ==
    /\ \A r \in Requests : tk[r].state = "none" <=> tk[r].seq = 0
    /\ \A r \in Requests : tk[r].seq < next
    /\ \A r, u \in Requests :
           /\ tk[r].state \in OpenStates
           /\ tk[u].state \in OpenStates
           /\ tk[r].seq = tk[u].seq
           => r = u

\* The open rows of the log are those of the open tickets.
RowsMatch(tk, rw) ==
    \A r \in Requests :
        rw[r] \in OpenStates \/ tk[r].state \in OpenStates => rw[r] = tk[r].state

Consistent(tk, rw, q, run, cl, gone, next) ==
    /\ tk \in [Requests -> Tickets]
    /\ rw \in [Requests -> OpenStates \cup ClosedRows \cup {"absent", "deleted"}]
    /\ q \subseteq Requests
    /\ run \subseteq Requests
    /\ CallsMatch(tk, cl)
    /\ FuturesMatch(tk, cl, gone)
    /\ QueueMatches(tk, q, run)
    /\ PlacesMatch(tk, next)
    /\ Logged => RowsMatch(tk, rw)

Inv ==
    /\ TypeOK
    /\ CallsMatch(ticket, caller)
    /\ FuturesMatch(ticket, caller, gaveUp)
    /\ QueueMatches(ticket, queued, running)
    /\ PlacesMatch(ticket, nextSeq)
    /\ up /\ Logged => RowsMatch(ticket, row)
    /\ \A r \in Requests : caller[r] = "idle" => row[r] = "absent"
    /\ ~up => \A r \in Requests : caller[r] \in {"idle", "ended"}
    /\ NoStartableWaiting

\* A dispatch keeps consistent what the handler left consistent.
LEMMA DispatchKeepsConsistent ==
    ASSUME NEW tk, NEW rw, NEW q, NEW run, NEW cl, NEW gone, NEW next,
           NEW start \in SUBSET Requests, NEW expire \in SUBSET Requests,
           TypeOK,
           Consistent(tk, rw, q, run, cl, gone, next),
           Dispatched(tk, rw, q, run, start, expire)
    PROVE  Consistent(ticket', row', queued', running', cl, gone, next)
<1> USE DEF OpenStates, TicketStates, FinalStates, ClosedRows, Refused
<1>1. /\ tk \in [Requests -> Tickets]
      /\ rw \in [Requests -> OpenStates \cup ClosedRows \cup {"absent", "deleted"}]
      /\ q \subseteq Requests /\ run \subseteq Requests
      /\ QueueMatches(tk, q, run)
  BY DEF Consistent
<1>2. /\ start \subseteq q /\ expire \subseteq q /\ start \cap expire = {}
      /\ queued' = q \ (start \cup expire)
      /\ running' = run \cup start
      /\ \A r \in start : tk[r].future = "pending"
  BY DEF Dispatched, Startable
<1>3. ASSUME NEW r \in start
      PROVE  /\ ticket'[r] = Becomes(tk[r], "running", "started")
             /\ row'[r] = Log(r, "running")
             /\ tk[r].state = "queued"
  BY <1>1, <1>2, <1>3 DEF Dispatched, QueueMatches
<1>4. ASSUME NEW r \in expire
      PROVE  /\ ticket'[r] = Becomes(tk[r], "expired", Refused(tk[r].future))
             /\ row'[r] = Log(r, "expired")
             /\ tk[r].state = "queued"
  BY <1>1, <1>2, <1>4 DEF Dispatched, QueueMatches
<1>5. ASSUME NEW r \in Requests, r \notin start, r \notin expire
      PROVE  ticket'[r] = tk[r] /\ row'[r] = rw[r]
  BY <1>5 DEF Dispatched
<1>6. \A r \in start : /\ ticket'[r].state = "running"
                       /\ ticket'[r].future = "started"
                       /\ ticket'[r].seq = tk[r].seq
                       /\ ticket'[r].attempt = tk[r].attempt
  BY <1>3, BecomesFields
<1>7. \A r \in expire : /\ ticket'[r].state = "expired"
                        /\ ticket'[r].future = Refused(tk[r].future)
                        /\ ticket'[r].seq = tk[r].seq
                        /\ ticket'[r].attempt = tk[r].attempt
  BY <1>4, BecomesFields
<1>8. \A r \in Requests : ticket'[r].seq = tk[r].seq /\ ticket'[r].attempt = tk[r].attempt
  BY <1>5, <1>6, <1>7
<1>9. ticket' \in [Requests -> Tickets]
  <2>1. \A r \in Requests : tk[r].future \in {"none", "pending", "started", "refused", "cancelled"}
    BY <1>1 DEF Tickets
  <2>2. \A r \in start : ticket'[r] \in Tickets
    BY <1>1, <1>3, BecomesType
  <2>3. \A r \in expire : ticket'[r] \in Tickets
    BY <1>1, <1>4, <2>1, BecomesType
  <2>4. \A r \in Requests : ticket'[r] \in Tickets
    BY <1>1, <1>5, <2>2, <2>3
  <2> QED BY <2>4 DEF Dispatched
<1>10. row' \in [Requests -> OpenStates \cup ClosedRows \cup {"absent", "deleted"}]
  BY <1>1, <1>3, <1>4, <1>5 DEF Dispatched, Log, TypeOK
<1>11. CallsMatch(ticket', cl)
  BY <1>2, <1>3, <1>4, <1>5, <1>6, <1>7, <1>8 DEF Consistent, CallsMatch
<1>12. FuturesMatch(ticket', cl, gone)
  BY <1>2, <1>3, <1>4, <1>5, <1>6, <1>7 DEF Consistent, FuturesMatch
<1>13. QueueMatches(ticket', queued', running')
  BY <1>1, <1>2, <1>3, <1>4, <1>5, <1>6, <1>7 DEF QueueMatches
<1>14. PlacesMatch(ticket', next)
  <2>1. \A r \in Requests :
            /\ ticket'[r].state \in OpenStates => tk[r].state \in OpenStates
            /\ ticket'[r].state = "none" <=> tk[r].state = "none"
    BY <1>3, <1>4, <1>5, <1>6, <1>7
  <2> HIDE DEF OpenStates
  <2> QED BY <2>1, <1>8 DEF Consistent, PlacesMatch
<1>15. ASSUME Logged PROVE RowsMatch(ticket', row')
  <2> SUFFICES ASSUME NEW r \in Requests
               PROVE  row'[r] \in OpenStates \/ ticket'[r].state \in OpenStates =>
                          row'[r] = ticket'[r].state
    BY DEF RowsMatch
  <2>1. CASE r \in start
    BY <2>1, <1>3, <1>6, <1>15 DEF Log
  <2>2. CASE r \in expire
    BY <2>2, <1>4, <1>7, <1>15 DEF Log
  <2>3. CASE r \notin start /\ r \notin expire
    BY <2>3, <1>5, <1>15 DEF Consistent, RowsMatch
  <2> QED BY <2>1, <2>2, <2>3
<1>16. queued' \subseteq Requests /\ running' \subseteq Requests
  BY <1>1, <1>2
<1> QED BY <1>9, <1>10, <1>11, <1>12, <1>13, <1>14, <1>15, <1>16 DEF Consistent

-----------------------------------------------------------------------------
(* The steps *)

\* A request keeps its place, or loses it with its ticket; a new one comes
\* behind all others.  One that holds a slot does not wait again.
TakesPlaces(tk, q, run) ==
    /\ q \cap running = {}
    /\ \A r \in Requests : ticket[r].seq # 0 => tk[r].seq \in {ticket[r].seq, 0}
    /\ \A r \in q \cup run :
           ticket[r].seq = 0 => \A u \in Requests \ {r} : tk[u].seq < tk[r].seq

PlacesAreTaken == TakesPlaces(ticket', queued', running')

\* What each step does right, beside keeping the invariant.
GoodStep == StartIsWithinLimits /\ StartIsInOrder /\ ClosedRowsStay /\ PlacesAreTaken

\* A handler that ends with a dispatch.
Handled(tk, rw, q, run) ==
    /\ up
    /\ up'
    /\ settings' \in SettingsChoices
    /\ enabled' \in BOOLEAN
    /\ nextSeq' \in Nat
    /\ gaveUp' \in SUBSET Requests
    /\ caller' \in [Requests -> {"idle", "waiting", "calling", "sleeping", "ended"}]
    /\ Consistent(tk, rw, q, run, caller', gaveUp', nextSeq')
    /\ run \subseteq running
    /\ TakesPlaces(tk, q, run)
    /\ q \cap gaveUp \subseteq gaveUp'
    /\ \A r \in Requests : row[r] \in ClosedRows => rw[r] = row[r]
    /\ \A r \in Requests : caller'[r] = "idle" => rw[r] = "absent"

LEMMA DispatchingStep ==
    ASSUME Inv, NEW tk, NEW rw, NEW q, NEW run,
           Handled(tk, rw, q, run), Dispatch(tk, rw, q, run)
    PROVE  Inv' /\ GoodStep
<1> USE DEF Handled
<1>1. /\ tk \in [Requests -> Tickets]
      /\ q \in SUBSET Requests /\ run \in SUBSET Requests
      /\ QueueMatches(tk, q, run)
      /\ PlacesMatch(tk, nextSeq')
      /\ FuturesMatch(tk, caller', gaveUp')
      /\ CallsMatch(tk, caller')
  BY DEF Consistent
<1>2. q \cap run = {}
  BY DEF TakesPlaces
<1>3. DistinctPlaces(tk, q, nextSeq')
  <2>1. \A r \in q : tk[r].state \in OpenStates /\ tk[r].seq \in Nat
    BY <1>1 DEF QueueMatches, OpenStates, Tickets
  <2> QED BY <1>1, <2>1 DEF PlacesMatch, DistinctPlaces
<1>4. PICK start \in SUBSET Requests, expire \in SUBSET Requests :
          /\ Dispatched(tk, rw, q, run, start, expire)
          /\ WithinLimits(start)
          /\ InOrder(tk, start)
          /\ NoStartableWaiting'
  BY <1>1, <1>2, <1>3, DispatchEffect
<1>5. Consistent(ticket', row', queued', running', caller', gaveUp', nextSeq')
  <2>1. TypeOK
    BY DEF Inv
  <2> QED BY <1>4, <2>1, DispatchKeepsConsistent
<1>6. /\ start \subseteq q /\ expire \subseteq q
      /\ queued' = q \ (start \cup expire)
      /\ running' = run \cup start
      /\ \A r \in start : Startable(tk, r)
      /\ \A r \in start : row'[r] = Log(r, "running")
      /\ \A r \in expire \ start : row'[r] = Log(r, "expired")
      /\ \A r \in Requests \ (start \cup expire) : row'[r] = rw[r] /\ ticket'[r] = tk[r]
      /\ \A r \in start : ticket'[r] = Becomes(tk[r], "running", "started")
      /\ \A r \in expire \ start :
             ticket'[r] = Becomes(tk[r], "expired", Refused(tk[r].future))
  BY <1>4 DEF Dispatched
<1>7. running' \ running = start
  BY <1>6 DEF TakesPlaces
<1>8. \A r \in Requests : ticket'[r].seq = tk[r].seq
  BY <1>6, BecomesFields
<1>9. \A r \in q : caller'[r] = "waiting" /\ tk[r].state = "queued"
  BY <1>1 DEF QueueMatches, CallsMatch
<1>10. TypeOK'
  BY <1>5 DEF Consistent, TypeOK, Tickets
<1>11. Inv'
  <2>1. \A r \in Requests : caller'[r] = "idle" => row'[r] = "absent"
    BY <1>6, <1>9
  <2> QED BY <1>4, <1>5, <1>10, <2>1 DEF Inv, Consistent
<1>12. StartIsWithinLimits
  <2>1. \A r \in start : Wanted(r) /\ r \notin gaveUp
    BY <1>1, <1>6 DEF Startable, FuturesMatch
  <2> QED BY <1>4, <1>7, <2>1 DEF StartIsWithinLimits, WithinLimits
<1>13. StartIsInOrder
  <2>1. ASSUME NEW s \in start, NEW w \in queued', PriorityOf(s) = PriorityOf(w)
        PROVE  ticket'[s].seq < ticket'[w].seq
    BY <1>1, <1>4, <1>6, <1>8, <2>1 DEF InOrder
  <2>2. ASSUME NEW r \in Requests, ticket[r].state \in OpenStates,
               ticket'[r].state \in OpenStates
        PROVE  ticket'[r].seq = ticket[r].seq
    <3>1. ticket[r].seq # 0 /\ ticket'[r].seq # 0
      BY <1>11, <2>2 DEF Inv, PlacesMatch, OpenStates
    <3> QED BY <1>8, <3>1 DEF TakesPlaces
  <2> QED BY <1>7, <1>8, <2>1, <2>2 DEF StartIsInOrder
<1>14. ClosedRowsStay
  <2> SUFFICES ASSUME NEW r \in Requests, row[r] \in ClosedRows
               PROVE  row'[r] = row[r]
    BY DEF ClosedRowsStay
  <2>1. CASE r \in q /\ Logged
    <3>1. rw[r] = "queued"
      BY <1>9, <2>1 DEF Consistent, RowsMatch, OpenStates
    <3> QED BY <3>1 DEF ClosedRows, FinalStates
  <2>2. CASE r \in q /\ ~Logged
    BY <1>6, <2>2 DEF Log
  <2>3. CASE r \notin q
    BY <1>6, <2>3
  <2> QED BY <2>1, <2>2, <2>3
<1>15. PlacesAreTaken
  <2>1. queued' \cup running' \subseteq q \cup run /\ queued' \cap running = {}
    BY <1>6 DEF TakesPlaces
  <2>2. queued' \cup running' \subseteq Requests
    BY <1>1, <2>1
  <2> QED BY <1>8, <2>1, <2>2 DEF PlacesAreTaken, TakesPlaces
<1> QED BY <1>11, <1>12, <1>13, <1>14, <1>15 DEF GoodStep

\* A handler that does not dispatch: nothing starts, and no slot is freed.
LEMMA QuietStep ==
    ASSUME Inv, up, up', settings' = settings, enabled' \in BOOLEAN,
           nextSeq' = nextSeq, gaveUp' \in SUBSET Requests,
           caller' \in [Requests -> {"idle", "waiting", "calling", "sleeping", "ended"}],
           Consistent(ticket', row', queued', running', caller', gaveUp', nextSeq'),
           running' = running, queued' \subseteq queued,
           \A r \in Requests : ticket'[r].seq \in {ticket[r].seq, 0},
           \A r \in Requests : caller'[r] = "idle" => row'[r] = "absent",
           ClosedRowsStay
    PROVE  Inv' /\ GoodStep
<1>1. TypeOK'
  BY DEF Inv, TypeOK, Consistent, Tickets
<1>2. NoStartableWaiting'
  <2>1. /\ OfPriority(queued', "foreground") \subseteq OfPriority(queued, "foreground")
        /\ OfPriority(queued', "background") \subseteq OfPriority(queued, "background")
        /\ BackgroundRunning' = BackgroundRunning
    BY DEF OfPriority, BackgroundRunning
  <2> QED BY <2>1 DEF Inv, NoStartableWaiting
<1>3. Inv'
  BY <1>1, <1>2 DEF Inv, Consistent
<1>4. running' \ running = {}
  OBVIOUS
<1>5. StartIsWithinLimits
  BY <1>4 DEF StartIsWithinLimits, OfPriority
<1>6. \A r \in Requests : ticket'[r].state \in OpenStates =>
                              ticket'[r].seq # 0 /\ ticket'[r].seq = ticket[r].seq
  BY <1>3 DEF Inv, PlacesMatch, OpenStates
<1>7. StartIsInOrder
  BY <1>4, <1>6 DEF StartIsInOrder
<1>8. PlacesAreTaken
  <2>1. queued' \cap running = {}
    BY DEF Inv, QueueMatches, TypeOK
  <2>2. \A r \in queued' \cup running' : r \in Requests /\ ticket'[r].state \in OpenStates
    BY <1>3 DEF Inv, QueueMatches, OpenStates, TypeOK
  <2> QED BY <1>6, <2>1, <2>2 DEF PlacesAreTaken, TakesPlaces
<1> QED BY <1>3, <1>5, <1>7, <1>8 DEF GoodStep

LEMMA InvIsConsistent ==
    ASSUME Inv, up
    PROVE  Consistent(ticket, row, queued, running, caller, gaveUp, nextSeq)
BY DEF Inv, TypeOK, Consistent, Tickets

\* What one request may change to: ticket t, row w, caller at c.
Alike(r, t, w, q, run, c, gone) ==
    /\ q \ {r} = queued \ {r} /\ run \ {r} = running \ {r} /\ gone \ {r} = gaveUp \ {r}
    /\ t.state = "none" <=> c \in {"idle", "ended"}
    /\ t.state \in {"queued", "cancelled", "expired"} => c = "waiting"
    /\ t.state = "running" => c \in {"waiting", "calling"}
    /\ t.state = "retrying" => c = "sleeping" /\ t.attempt = 1
    /\ c = "calling" => t.state = "running"
    /\ c = "sleeping" => t.state = "retrying"
    /\ t.state = "none" => t.future = "none"
    /\ t.state = "queued" => t.future \in {"pending", "cancelled"}
    /\ t.state = "running" => t.future = "started"
    /\ t.state \in {"cancelled", "expired"} => t.future \in {"refused", "cancelled"}
    /\ r \in gone => c = "waiting" /\ t.future # "pending"
    /\ r \in q <=> t.state = "queued"
    /\ r \in run <=> t.state = "running"
    /\ Logged /\ (w \in OpenStates \/ t.state \in OpenStates) => w = t.state

PlaceIsFree(r, t, next) ==
    /\ t.seq < next
    /\ t.state = "none" <=> t.seq = 0
    /\ t.state \in OpenStates =>
           \A u \in Requests \ {r} : ticket[u].state \in OpenStates => ticket[u].seq # t.seq

LEMMA OneChanges ==
    ASSUME Consistent(ticket, row, queued, running, caller, gaveUp, nextSeq),
           caller \in [Requests -> {"idle", "waiting", "calling", "sleeping", "ended"}],
           nextSeq \in Nat, NEW next \in Nat, nextSeq <= next,
           NEW r \in Requests, NEW t \in Tickets,
           NEW w \in OpenStates \cup ClosedRows \cup {"absent", "deleted"},
           NEW q \in SUBSET Requests, NEW run \in SUBSET Requests,
           NEW gone \in SUBSET Requests, NEW c,
           Alike(r, t, w, q, run, c, gone), PlaceIsFree(r, t, next)
    PROVE  Consistent([ticket EXCEPT ![r] = t], [row EXCEPT ![r] = w], q, run,
                      [caller EXCEPT ![r] = c], gone, next)
<1> USE DEF Alike, PlaceIsFree
<1> DEFINE tk == [ticket EXCEPT ![r] = t]
           rw == [row EXCEPT ![r] = w]
           cl == [caller EXCEPT ![r] = c]
<1>1. /\ ticket \in [Requests -> Tickets]
      /\ row \in [Requests -> OpenStates \cup ClosedRows \cup {"absent", "deleted"}]
  BY DEF Consistent
<1>2. /\ tk \in [Requests -> Tickets]
      /\ rw \in [Requests -> OpenStates \cup ClosedRows \cup {"absent", "deleted"}]
      /\ tk[r] = t /\ rw[r] = w /\ cl[r] = c
      /\ \A u \in Requests \ {r} : tk[u] = ticket[u] /\ rw[u] = row[u] /\ cl[u] = caller[u]
  BY <1>1
<1> HIDE DEF tk, rw, cl
<1>3. CallsMatch(tk, cl)
  BY <1>2 DEF Consistent, CallsMatch
<1>4. FuturesMatch(tk, cl, gone)
  BY <1>2 DEF Consistent, FuturesMatch
<1>5. QueueMatches(tk, q, run)
  BY <1>2 DEF Consistent, QueueMatches
<1>6. PlacesMatch(tk, next)
  <2>1. \A u \in Requests : tk[u].seq \in Nat
    BY <1>2 DEF Tickets
  <2> HIDE DEF OpenStates
  <2> QED BY <1>2, <2>1 DEF Consistent, PlacesMatch
<1>7. ASSUME Logged PROVE RowsMatch(tk, rw)
  BY <1>2, <1>7 DEF Consistent, RowsMatch
<1>8. Consistent(tk, rw, q, run, cl, gone, next)
  BY <1>2, <1>3, <1>4, <1>5, <1>6, <1>7 DEF Consistent
<1> QED BY <1>8 DEF tk, rw, cl

LEMMA BlankType ==
    /\ Blank \in Tickets
    /\ Blank.state = "none"
    /\ Blank.future = "none"
    /\ Blank.seq = 0
BY DEF Blank, Tickets, TicketStates

LEMMA NewTicketType ==
    ASSUME NEW n \in Nat
    PROVE  /\ NewTicket(n) \in Tickets
           /\ NewTicket(n).state = "queued"
           /\ NewTicket(n).future = "pending"
           /\ NewTicket(n).seq = n
BY DEF NewTicket, Tickets, TicketStates, OpenStates

LEMMA RequeuedType ==
    ASSUME NEW t \in Tickets, t.attempt = 1
    PROVE  /\ Requeued(t) \in Tickets
           /\ Requeued(t).state = "queued"
           /\ Requeued(t).future = "pending"
           /\ Requeued(t).seq = t.seq
BY DEF Requeued, Tickets, TicketStates, OpenStates

LEMMA LogType ==
    ASSUME Inv, NEW r \in Requests, NEW s \in OpenStates \cup ClosedRows
    PROVE  Log(r, s) \in OpenStates \cup ClosedRows \cup {"absent", "deleted"}
BY DEF Inv, TypeOK, Log

\* What the invariant says of one request.
LEMMA InvOfOne ==
    ASSUME Inv, NEW r \in Requests
    PROVE  /\ ticket[r] \in Tickets
           /\ row[r] \in OpenStates \cup ClosedRows \cup {"absent", "deleted"}
           /\ ticket[r].state = "none" <=> caller[r] \in {"idle", "ended"}
           /\ ticket[r].state = "retrying" => ticket[r].attempt = 1
           /\ caller[r] = "calling" => ticket[r].state = "running"
           /\ caller[r] = "sleeping" => ticket[r].state = "retrying"
           /\ ticket[r].state \in {"queued", "cancelled", "expired"} =>
                  caller[r] = "waiting"
           /\ ticket[r].state = "none" => ticket[r].future = "none"
           /\ ticket[r].state = "queued" => ticket[r].future \in {"pending", "cancelled"}
           /\ ticket[r].state = "running" =>
                  caller[r] \in {"waiting", "calling"} /\ ticket[r].future = "started"
           /\ ticket[r].state = "retrying" => caller[r] = "sleeping"
           /\ ticket[r].state \in {"cancelled", "expired"} =>
                  ticket[r].future \in {"refused", "cancelled"}
           /\ r \in gaveUp => caller[r] = "waiting" /\ ticket[r].future # "pending"
           /\ r \in queued <=> ticket[r].state = "queued"
           /\ r \in running <=> ticket[r].state = "running"
           /\ ticket[r].seq < nextSeq
           /\ ticket[r].state = "none" <=> ticket[r].seq = 0
           /\ caller[r] \notin {"idle", "ended"} => up
           /\ caller[r] = "idle" => row[r] = "absent"
           /\ up /\ Logged /\ (row[r] \in OpenStates \/ ticket[r].state \in OpenStates) =>
                  row[r] = ticket[r].state
BY DEF Inv, TypeOK, Tickets, CallsMatch, FuturesMatch, QueueMatches, PlacesMatch, RowsMatch

LEMMA AcquireStep ==
    ASSUME Inv, NEW r \in Requests, Acquire(r)
    PROVE  Inv' /\ GoodStep
<1> DEFINE tk == [ticket EXCEPT ![r] = NewTicket(nextSeq)]
           rw == [row EXCEPT ![r] = Log(r, "queued")]
<1>1. /\ up /\ up' /\ caller[r] = "idle" /\ ticket[r].state = "none" /\ row[r] = "absent"
      /\ r \notin gaveUp /\ r \notin queued /\ r \notin running
      /\ nextSeq \in Nat /\ nextSeq' = nextSeq + 1 /\ gaveUp' = gaveUp
      /\ settings' \in SettingsChoices /\ enabled' \in BOOLEAN
      /\ gaveUp \in SUBSET Requests /\ queued \in SUBSET Requests
      /\ running \in SUBSET Requests
      /\ caller' = [caller EXCEPT ![r] = "waiting"]
      /\ caller \in [Requests -> {"idle", "waiting", "calling", "sleeping", "ended"}]
  <2>1. TypeOK
    BY DEF Inv
  <2> QED BY <2>1, InvOfOne DEF Acquire, TypeOK
<1>2. /\ \A u \in Requests : ticket[u].seq < nextSeq
      /\ ticket[r].seq = 0
      /\ nextSeq # 0
  BY <1>1, InvOfOne DEF Tickets
<1>3. \A u \in Requests : ticket[u].seq \in Nat
  BY DEF Inv, TypeOK
<1>4. Log(r, "queued") \in OpenStates \cup ClosedRows \cup {"absent", "deleted"}
  BY LogType DEF OpenStates
<1>5. Logged => Log(r, "queued") = "queued"
  BY DEF Log
<1>6. ~Logged => Log(r, "queued") = "absent"
  BY <1>1 DEF Log
<1>7. Consistent(tk, rw, queued \cup {r}, running, caller', gaveUp', nextSeq')
  <2>1. Consistent(ticket, row, queued, running, caller, gaveUp, nextSeq)
    BY <1>1, InvIsConsistent
  <2>2. \A u \in Requests \ {r} : ticket[u].state \in OpenStates => ticket[u].seq # nextSeq
    BY <1>1, <1>2, <1>3
  <2>3. nextSeq < nextSeq + 1 /\ nextSeq <= nextSeq + 1 /\ nextSeq + 1 \in Nat
    BY <1>1
  <2>4. Alike(r, NewTicket(nextSeq), Log(r, "queued"), queued \cup {r}, running,
              "waiting", gaveUp)
    BY <1>1, <1>5, NewTicketType DEF Alike
  <2>5. PlaceIsFree(r, NewTicket(nextSeq), nextSeq + 1)
    BY <1>1, <1>2, <2>2, <2>3, NewTicketType DEF PlaceIsFree
  <2> QED BY <1>1, <1>4, <2>1, <2>3, <2>4, <2>5, NewTicketType, OneChanges
<1>8. Dispatch(tk, rw, queued \cup {r}, running)
  BY DEF Acquire
<1>12. (queued \cup {r}) \cap running = {}
  BY <1>1 DEF Inv, QueueMatches
<1>9. TakesPlaces(tk, queued \cup {r}, running)
  <2>1. /\ tk[r].seq = nextSeq
        /\ \A u \in Requests \ {r} : tk[u] = ticket[u]
    BY NewTicketType, <1>1 DEF Inv, TypeOK
  <2>2. \A u \in queued \cup running : u \in Requests /\ ticket[u].seq # 0
    BY <1>1, InvOfOne
  <2> HIDE DEF tk
  <2> QED BY <1>2, <1>12, <2>1, <2>2 DEF TakesPlaces
<1>10. \A u \in Requests : row[u] \in ClosedRows => rw[u] = row[u]
  BY <1>1 DEF ClosedRows, FinalStates
<1>11. \A u \in Requests : caller'[u] = "idle" => rw[u] = "absent"
  BY <1>1 DEF Inv, TypeOK
<1>13. caller' \in [Requests -> {"idle", "waiting", "calling", "sleeping", "ended"}]
  BY <1>1
<1>14. Handled(tk, rw, queued \cup {r}, running)
  <2> HIDE DEF tk, rw
  <2> QED BY <1>1, <1>7, <1>9, <1>10, <1>11, <1>12, <1>13 DEF Handled
<1> QED BY <1>8, <1>14, DispatchingStep

CallStates == {"idle", "waiting", "calling", "sleeping", "ended"}

\* The same request goes on with ticket t: it keeps its place.
GoesOn(r, t) ==
    /\ t.state # "none" => t.seq = ticket[r].seq /\ ticket[r].state # "none"
    /\ t.state = "none" => t.seq = 0
    /\ t.state \in OpenStates => ticket[r].state \in OpenStates

LEMMA PlaceIsKept ==
    ASSUME Inv, NEW r \in Requests, NEW t \in Tickets, GoesOn(r, t)
    PROVE  PlaceIsFree(r, t, nextSeq)
<1>1. /\ ticket[r].seq < nextSeq /\ 0 <= ticket[r].seq /\ ticket[r].seq \in Nat
      /\ nextSeq \in Nat
  BY InvOfOne DEF Inv, TypeOK
<1> QED BY <1>1 DEF Inv, PlacesMatch, PlaceIsFree, GoesOn, OpenStates

\* The handler of one request that does not dispatch.
LEMMA QuietRequest ==
    ASSUME Inv, up, up', NEW r \in Requests, NEW t \in Tickets,
           NEW w \in OpenStates \cup ClosedRows \cup {"absent", "deleted"},
           NEW c \in CallStates \ {"idle"},
           UNCHANGED <<settings, nextSeq, running, enabled>>,
           ticket' = [ticket EXCEPT ![r] = t],
           row' = [row EXCEPT ![r] = w],
           caller' = [caller EXCEPT ![r] = c],
           queued' \subseteq queued, gaveUp' \in SUBSET Requests,
           Alike(r, t, w, queued', running, c, gaveUp'), GoesOn(r, t),
           row[r] \in ClosedRows => w \in {row[r], "deleted"}
    PROVE  Inv' /\ GoodStep
<1>1. /\ nextSeq \in Nat /\ enabled \in BOOLEAN /\ running \in SUBSET Requests
      /\ queued \in SUBSET Requests /\ caller \in [Requests -> CallStates]
      /\ row \in [Requests -> OpenStates \cup ClosedRows \cup {"absent", "deleted"}]
      /\ ticket \in [Requests -> Tickets]
  BY DEF Inv, TypeOK, CallStates, Tickets
<1>2. Consistent(ticket, row, queued, running, caller, gaveUp, nextSeq)
  BY InvIsConsistent
<1>3. PlaceIsFree(r, t, nextSeq)
  BY PlaceIsKept
<1>4. Consistent(ticket', row', queued', running', caller', gaveUp', nextSeq')
  <2>1. queued' \in SUBSET Requests /\ nextSeq <= nextSeq
    BY <1>1
  <2>2. Consistent([ticket EXCEPT ![r] = t], [row EXCEPT ![r] = w], queued', running,
                   [caller EXCEPT ![r] = c], gaveUp', nextSeq)
    BY <1>1, <1>2, <1>3, <2>1, OneChanges DEF CallStates
  <2> QED BY <2>2
<1>5. caller' \in [Requests -> CallStates]
  BY <1>1
<1>6. \A u \in Requests : ticket'[u].seq \in {ticket[u].seq, 0}
  BY <1>1 DEF GoesOn
<1>7. \A u \in Requests : caller'[u] = "idle" => row'[u] = "absent"
  BY <1>1 DEF Inv
<1>8. ClosedRowsStay
  BY <1>1 DEF ClosedRowsStay
<1> QED BY <1>1, <1>4, <1>5, <1>6, <1>7, <1>8, QuietStep DEF CallStates

\* The handler of one request that ends with a dispatch.
LEMMA DispatchingRequest ==
    ASSUME Inv, up, up', NEW r \in Requests, NEW t \in Tickets,
           NEW w \in OpenStates \cup ClosedRows \cup {"absent", "deleted"},
           NEW c \in CallStates \ {"idle"},
           NEW q \in SUBSET Requests, NEW run \in SUBSET running,
           q \cap running = {}, q \cap gaveUp \subseteq gaveUp',
           gaveUp' \in SUBSET Requests,
           UNCHANGED <<settings, nextSeq, enabled>>,
           caller' = [caller EXCEPT ![r] = c],
           Alike(r, t, w, q, run, c, gaveUp'), GoesOn(r, t),
           row[r] \in ClosedRows => w = row[r],
           Dispatch([ticket EXCEPT ![r] = t], [row EXCEPT ![r] = w], q, run)
    PROVE  Inv' /\ GoodStep
<1> DEFINE tk == [ticket EXCEPT ![r] = t]
           rw == [row EXCEPT ![r] = w]
<1>1. /\ nextSeq \in Nat /\ enabled \in BOOLEAN /\ running \in SUBSET Requests
      /\ settings \in SettingsChoices
      /\ queued \in SUBSET Requests /\ caller \in [Requests -> CallStates]
      /\ row \in [Requests -> OpenStates \cup ClosedRows \cup {"absent", "deleted"}]
      /\ ticket \in [Requests -> Tickets]
  BY DEF Inv, TypeOK, CallStates, Tickets
<1>2. Consistent(ticket, row, queued, running, caller, gaveUp, nextSeq)
  BY InvIsConsistent
<1>3. PlaceIsFree(r, t, nextSeq)
  BY PlaceIsKept
<1>4. run \in SUBSET Requests
  BY <1>1
<1>5. Consistent(tk, rw, q, run, caller', gaveUp', nextSeq')
  <2>1. nextSeq <= nextSeq
    BY <1>1
  <2>2. Consistent([ticket EXCEPT ![r] = t], [row EXCEPT ![r] = w], q, run,
                   [caller EXCEPT ![r] = c], gaveUp', nextSeq)
    BY <1>1, <1>2, <1>3, <1>4, <2>1, OneChanges DEF CallStates
  <2> QED BY <2>2
<1>6. caller' \in [Requests -> CallStates]
  BY <1>1
<1>7. TakesPlaces(tk, q, run)
  <2>1. \A u \in Requests : tk[u].seq \in {ticket[u].seq, 0}
    BY <1>1 DEF GoesOn
  <2>2. \A u \in q \cup run : ticket[u].seq # 0
    <3>1. \A u \in q \cup run : tk[u].state \in {"queued", "running"}
      BY <1>5 DEF Consistent, QueueMatches
    <3>2. \A u \in q \cup run : ticket[u].state # "none"
      BY <1>1, <1>4, <3>1 DEF GoesOn
    <3> QED BY <1>4, <3>2, InvOfOne
  <2> HIDE DEF tk
  <2> QED BY <2>1, <2>2 DEF TakesPlaces
<1>8. \A u \in Requests : caller'[u] = "idle" => rw[u] = "absent"
  BY <1>1 DEF Inv
<1>9. \A u \in Requests : row[u] \in ClosedRows => rw[u] = row[u]
  BY <1>1
<1>10. Handled(tk, rw, q, run)
  <2> HIDE DEF tk, rw
  <2> QED BY <1>1, <1>5, <1>6, <1>7, <1>8, <1>9 DEF Handled, CallStates
<1>11. Dispatch(tk, rw, q, run)
  OBVIOUS
<1> HIDE DEF tk, rw
<1> QED BY <1>10, <1>11, DispatchingStep

\* A call that holds a slot gives it back.
LEMMA ReleaseStep ==
    ASSUME Inv, NEW r \in running, NEW c \in {"sleeping", "ended"},
           NEW s \in FinalStates \cup {"retrying"},
           s = "retrying" <=> c = "sleeping",
           s = "retrying" => ticket[r].attempt = 1,
           caller' = [caller EXCEPT ![r] = c],
           gaveUp' = gaveUp \ {r},
           UNCHANGED <<settings, up, nextSeq, enabled>>,
           Release(r, s)
    PROVE  Inv' /\ GoodStep
<1>1. /\ r \in Requests /\ queued \in SUBSET Requests /\ gaveUp \in SUBSET Requests
      /\ running \in SUBSET Requests
  BY DEF Inv, TypeOK
<1>2. /\ ticket[r] \in Tickets /\ ticket[r].state = "running" /\ r \notin queued /\ up
      /\ row[r] \in OpenStates \cup ClosedRows \cup {"absent", "deleted"}
      /\ Logged => row[r] = "running"
  BY <1>1, InvOfOne DEF OpenStates
<1>3. queued \cap running = {}
  BY <1>1, InvOfOne
<1> DEFINE t == IF s = "retrying" THEN Becomes(ticket[r], s, ticket[r].future) ELSE Blank
           w == Log(r, s)
<1>4. /\ t \in Tickets
      /\ s = "retrying" => /\ t.state = "retrying" /\ t.attempt = 1
                           /\ t.seq = ticket[r].seq
      /\ s # "retrying" => t.state = "none" /\ t.future = "none" /\ t.seq = 0
  <2>1. ticket[r].future \in {"none", "pending", "started", "refused", "cancelled"}
    BY <1>2 DEF Tickets
  <2>2. Becomes(ticket[r], "retrying", ticket[r].future) \in Tickets
    BY <1>2, <2>1, BecomesType DEF OpenStates, TicketStates
  <2> QED BY <2>2, BecomesFields, BlankType
<1>5. /\ w \in OpenStates \cup ClosedRows \cup {"absent", "deleted"}
      /\ Logged => w = s
      /\ ~Logged => w = row[r]
  BY <1>1, LogType DEF OpenStates, ClosedRows, Log
<1>6. Dispatch([ticket EXCEPT ![r] = t], [row EXCEPT ![r] = w], queued, running \ {r})
  BY <1>1 DEF Release
<1>7. c \in CallStates \ {"idle"}
  BY DEF CallStates
<1> HIDE DEF t, w
<1>8. Alike(r, t, w, queued, running \ {r}, c, gaveUp')
  BY <1>2, <1>4, <1>5 DEF Alike, OpenStates, FinalStates
<1>9. GoesOn(r, t)
  BY <1>2, <1>4 DEF GoesOn, OpenStates
<1>10. row[r] \in ClosedRows => w = row[r]
  BY <1>2, <1>5 DEF ClosedRows, FinalStates
<1>11. queued \cap gaveUp \subseteq gaveUp' /\ gaveUp' \in SUBSET Requests
  BY <1>1, <1>2
<1>12. running \ {r} \in SUBSET running /\ queued \cap (running \ {r}) = {} /\ up'
  BY <1>2, <1>3
<1> QED BY <1>1, <1>2, <1>3, <1>4, <1>5, <1>6, <1>7, <1>8, <1>9, <1>10, <1>11, <1>12,
           DispatchingRequest

-----------------------------------------------------------------------------
(* One lemma per action *)

LEMMA Unchanged ==
    ASSUME Inv, NEW r \in Requests
    PROVE  /\ ticket = [ticket EXCEPT ![r] = ticket[r]]
           /\ row = [row EXCEPT ![r] = row[r]]
           /\ gaveUp \in SUBSET Requests
           /\ queued \in SUBSET Requests
           /\ running \in SUBSET Requests
BY DEF Inv, TypeOK

LEMMA RefuseBusyStep ==
    ASSUME Inv, NEW r \in Requests, RefuseBusy(r)
    PROVE  Inv' /\ GoodStep
<1>1. Alike(r, ticket[r], row[r], queued', running, "ended", gaveUp')
  BY InvOfOne DEF RefuseBusy, Alike, OpenStates
<1>2. GoesOn(r, ticket[r])
  BY InvOfOne DEF GoesOn
<1> QED BY <1>1, <1>2, InvOfOne, Unchanged, QuietRequest DEF RefuseBusy, CallStates

LEMMA RefuseRetryStep ==
    ASSUME Inv, NEW r \in Requests, RefuseRetry(r)
    PROVE  Inv' /\ GoodStep
<1>1. /\ ticket[r].state = "retrying" /\ up /\ up' /\ r \notin gaveUp
      /\ Logged => row[r] = "retrying"
      /\ ~Logged => Log(r, "failed") = row[r]
      /\ Logged => Log(r, "failed") = "failed"
  BY InvOfOne DEF RefuseRetry, OpenStates, Log
<1>2. Alike(r, Blank, Log(r, "failed"), queued', running, "ended", gaveUp')
  BY <1>1, InvOfOne, BlankType DEF RefuseRetry, Alike, OpenStates
<1>3. GoesOn(r, Blank)
  BY BlankType DEF GoesOn, OpenStates
<1>4. Log(r, "failed") \in OpenStates \cup ClosedRows \cup {"absent", "deleted"}
  BY LogType DEF ClosedRows, FinalStates
<1>5. row[r] \in ClosedRows => Log(r, "failed") \in {row[r], "deleted"}
  BY <1>1 DEF ClosedRows, FinalStates
<1> QED BY <1>1, <1>2, <1>3, <1>4, <1>5, BlankType, Unchanged, QuietRequest
        DEF RefuseRetry, CallStates

LEMMA AcquireRetryStep ==
    ASSUME Inv, NEW r \in Requests, AcquireRetry(r)
    PROVE  Inv' /\ GoodStep
<1> DEFINE t == Requeued(ticket[r])
           w == Log(r, "queued")
<1>1. /\ ticket[r].state = "retrying" /\ ticket[r].attempt = 1 /\ ticket[r] \in Tickets
      /\ up /\ up' /\ r \notin gaveUp /\ r \notin queued /\ r \notin running
      /\ Logged => row[r] = "retrying"
      /\ ~Logged => w = row[r]
      /\ Logged => w = "queued"
  BY InvOfOne DEF AcquireRetry, OpenStates, Log
<1>2. /\ t \in Tickets /\ t.state = "queued" /\ t.future = "pending"
      /\ t.seq = ticket[r].seq
  BY <1>1, RequeuedType
<1>3. w \in OpenStates \cup ClosedRows \cup {"absent", "deleted"}
  BY LogType DEF OpenStates
<1>4. Dispatch([ticket EXCEPT ![r] = t], [row EXCEPT ![r] = w], queued \cup {r}, running)
  BY DEF AcquireRetry
<1> HIDE DEF t, w
<1>5. Alike(r, t, w, queued \cup {r}, running, "waiting", gaveUp')
  BY <1>1, <1>2 DEF AcquireRetry, Alike, OpenStates
<1>6. GoesOn(r, t)
  BY <1>1, <1>2 DEF GoesOn, OpenStates
<1>7. row[r] \in ClosedRows => w = row[r]
  BY <1>1 DEF ClosedRows, FinalStates
<1>8. (queued \cup {r}) \cap running = {}
  BY <1>1, InvOfOne, Unchanged
<1>9. /\ gaveUp' \in SUBSET Requests /\ (queued \cup {r}) \cap gaveUp \subseteq gaveUp'
      /\ queued \cup {r} \in SUBSET Requests /\ running \in SUBSET running
      /\ "waiting" \in CallStates \ {"idle"}
      /\ UNCHANGED <<settings, nextSeq, enabled>>
      /\ caller' = [caller EXCEPT ![r] = "waiting"]
  BY Unchanged DEF AcquireRetry, CallStates
<1> QED BY <1>1, <1>2, <1>3, <1>4, <1>5, <1>6, <1>7, <1>8, <1>9, DispatchingRequest

LEMMA GiveUpStep ==
    ASSUME Inv, NEW r \in Requests, GiveUp(r)
    PROVE  Inv' /\ GoodStep
<1> DEFINE t == IF ticket[r].future = "pending"
                THEN Becomes(ticket[r], ticket[r].state, "cancelled") ELSE ticket[r]
<1>1. /\ ticket[r] \in Tickets /\ up /\ up' /\ caller[r] = "waiting"
      /\ gaveUp' = gaveUp \cup {r}
  BY InvOfOne DEF GiveUp
<1>2. /\ t \in Tickets
      /\ t.state = ticket[r].state /\ t.seq = ticket[r].seq
      /\ t.attempt = ticket[r].attempt
      /\ t.future = IF ticket[r].future = "pending" THEN "cancelled" ELSE ticket[r].future
  <2>1. ticket[r].state \in TicketStates
    BY <1>1 DEF Tickets
  <2>2. Becomes(ticket[r], ticket[r].state, "cancelled") \in Tickets
    BY <1>1, <2>1, BecomesType
  <2> QED BY <1>1, <2>2, BecomesFields
<1>3. ticket' = [ticket EXCEPT ![r] = t]
  BY DEF GiveUp
<1> HIDE DEF t
<1>4. Alike(r, t, row[r], queued', running, "waiting", gaveUp')
  BY <1>1, <1>2, InvOfOne DEF GiveUp, Alike
<1>5. GoesOn(r, t)
  BY <1>2, InvOfOne DEF GoesOn
<1>6. caller' = [caller EXCEPT ![r] = "waiting"]
  BY <1>1 DEF GiveUp, Inv, TypeOK
<1>7. UNCHANGED <<settings, nextSeq, running, enabled, queued, row>>
  BY DEF GiveUp
<1>8. gaveUp' \in SUBSET Requests
  BY <1>1, Unchanged
<1>9. "waiting" \in CallStates \ {"idle"}
  BY DEF CallStates
<1> QED BY <1>1, <1>2, <1>3, <1>4, <1>5, <1>6, <1>7, <1>8, <1>9, Unchanged, InvOfOne,
           QuietRequest

LEMMA ResumeStartedStep ==
    ASSUME Inv, NEW r \in Requests, ResumeStarted(r)
    PROVE  Inv' /\ GoodStep
<1>1. ticket[r].state = "running"
  BY InvOfOne DEF ResumeStarted, Tickets, TicketStates, OpenStates
<1>2. Alike(r, ticket[r], row[r], queued', running, "calling", gaveUp')
  <2>1. ticket[r].future = "started"
    BY DEF ResumeStarted
  <2> QED BY <1>1, <2>1, InvOfOne DEF ResumeStarted, Alike, OpenStates
<1>3. GoesOn(r, ticket[r])
  BY InvOfOne DEF GoesOn
<1> QED BY <1>2, <1>3, InvOfOne, Unchanged, QuietRequest DEF ResumeStarted, CallStates

LEMMA ResumeRefusedStep ==
    ASSUME Inv, NEW r \in Requests, ResumeRefused(r)
    PROVE  Inv' /\ GoodStep
<1>1. ticket[r].state \notin OpenStates
  BY InvOfOne DEF ResumeRefused, OpenStates
<1>2. Alike(r, Blank, row[r], queued', running, "ended", gaveUp')
  BY <1>1, InvOfOne, BlankType DEF ResumeRefused, Alike, OpenStates
<1>3. GoesOn(r, Blank)
  BY BlankType DEF GoesOn, OpenStates
<1> QED BY <1>2, <1>3, InvOfOne, BlankType, Unchanged, QuietRequest
        DEF ResumeRefused, CallStates

LEMMA ResumeCancelledStep ==
    ASSUME Inv, NEW r \in Requests, ResumeCancelled(r)
    PROVE  Inv' /\ GoodStep
<1>1. /\ caller[r] = "waiting" /\ r \in gaveUp /\ up /\ up'
      /\ gaveUp' = gaveUp \ {r} /\ caller' = [caller EXCEPT ![r] = "ended"]
      /\ UNCHANGED <<settings, up, nextSeq, enabled>>
      /\ gaveUp' \in SUBSET Requests /\ gaveUp' \ {r} = gaveUp \ {r}
      /\ "ended" \in CallStates \ {"idle"}
  BY InvOfOne, Unchanged DEF ResumeCancelled, CallStates
<1>2. CASE ticket[r].state = "running"
  <2>1. Release(r, "expired")
    BY <1>2 DEF ResumeCancelled, Leave
  <2>2. r \in running
    BY <1>2, InvOfOne
  <2> QED BY <1>1, <2>1, <2>2, ReleaseStep DEF FinalStates
<1>3. CASE ticket[r].state # "running" /\ r \in queued
  <2>1. /\ ticket' = [ticket EXCEPT ![r] = Blank]
        /\ row' = [row EXCEPT ![r] = Log(r, "expired")]
        /\ queued' = queued \ {r} /\ UNCHANGED running
        /\ ticket[r].state = "queued"
    BY <1>3, InvOfOne DEF ResumeCancelled, Leave
  <2>2. /\ Logged => row[r] = "queued" /\ Log(r, "expired") = "expired"
        /\ ~Logged => Log(r, "expired") = row[r]
    BY <1>1, <2>1, InvOfOne DEF Log, OpenStates
  <2>3. Log(r, "expired") \in OpenStates \cup ClosedRows \cup {"absent", "deleted"}
    BY LogType DEF ClosedRows, FinalStates
  <2>4. row[r] \in ClosedRows => Log(r, "expired") \in {row[r], "deleted"}
    BY <2>2 DEF ClosedRows, FinalStates
  <2>5. Alike(r, Blank, Log(r, "expired"), queued', running, "ended", gaveUp')
    BY <1>1, <2>1, <2>2, BlankType, InvOfOne DEF Alike, OpenStates
  <2>6. GoesOn(r, Blank) /\ queued' \subseteq queued
    BY <2>1, BlankType DEF GoesOn, OpenStates
  <2> QED BY <1>1, <2>1, <2>3, <2>4, <2>5, <2>6, BlankType, QuietRequest
<1>4. CASE ticket[r].state # "running" /\ r \notin queued
  <2>1. /\ ticket' = [ticket EXCEPT ![r] = Blank]
        /\ UNCHANGED <<queued, running, row>>
    BY <1>4 DEF ResumeCancelled, Leave
  <2>2. ticket[r].state \notin OpenStates
    BY <1>1, <1>4, InvOfOne DEF OpenStates
  <2>3. Alike(r, Blank, row[r], queued', running, "ended", gaveUp')
    BY <1>1, <1>4, <2>1, <2>2, BlankType, InvOfOne DEF Alike, OpenStates
  <2>4. GoesOn(r, Blank) /\ queued' \subseteq queued
    BY <2>1, BlankType DEF GoesOn, OpenStates
  <2> QED BY <1>1, <2>1, <2>3, <2>4, BlankType, InvOfOne, Unchanged, QuietRequest
<1> QED BY <1>2, <1>3, <1>4

LEMMA FinishStep ==
    ASSUME Inv, NEW r \in Requests, Finish(r)
    PROVE  Inv' /\ GoodStep
<1>1. PICK s \in {"done", "failed", "expired"} : Release(r, s)
  BY DEF Finish
<1>2. r \in running /\ r \notin gaveUp
  BY InvOfOne DEF Finish
<1>3. gaveUp' = gaveUp \ {r}
  BY <1>2 DEF Finish
<1> QED BY <1>1, <1>2, <1>3, ReleaseStep DEF Finish, FinalStates

LEMMA FailTransientlyStep ==
    ASSUME Inv, NEW r \in Requests, FailTransiently(r)
    PROVE  Inv' /\ GoodStep
<1>1. r \in running /\ r \notin gaveUp
  BY InvOfOne DEF FailTransiently
<1>2. gaveUp' = gaveUp \ {r}
  BY <1>1 DEF FailTransiently
<1> QED BY <1>1, <1>2, ReleaseStep DEF FailTransiently

LEMMA AbandonStep ==
    ASSUME Inv, NEW r \in Requests, Abandon(r)
    PROVE  Inv' /\ GoodStep
<1> DEFINE w == Log(r, "expired")
<1>1. /\ ticket[r].state = "retrying" /\ up /\ up' /\ r \notin gaveUp
      /\ Logged => row[r] = "retrying"
      /\ ~Logged => w = row[r]
      /\ Logged => w = "expired"
  BY InvOfOne DEF Abandon, OpenStates, Log
<1>2. row' = [row EXCEPT ![r] = w]
  BY <1>1 DEF Abandon
<1>3. w \in OpenStates \cup ClosedRows \cup {"absent", "deleted"}
  BY LogType DEF ClosedRows, FinalStates
<1> HIDE DEF w
<1>4. Alike(r, Blank, w, queued', running, "ended", gaveUp')
  BY <1>1, InvOfOne, BlankType DEF Abandon, Alike, OpenStates
<1>5. GoesOn(r, Blank)
  BY BlankType DEF GoesOn, OpenStates
<1>6. row[r] \in ClosedRows => w \in {row[r], "deleted"}
  BY <1>1 DEF ClosedRows, FinalStates
<1> QED BY <1>1, <1>2, <1>3, <1>4, <1>5, <1>6, BlankType, Unchanged, QuietRequest
        DEF Abandon, CallStates

LEMMA CancelStep ==
    ASSUME Inv, NEW r \in Requests, Cancel(r)
    PROVE  Inv' /\ GoodStep
<1> DEFINE t == Becomes(ticket[r], "cancelled", Refused(ticket[r].future))
           w == Log(r, "cancelled")
<1>1. /\ ticket[r].state = "queued" /\ ticket[r] \in Tickets /\ up /\ up'
      /\ caller[r] = "waiting" /\ r \in queued
      /\ ticket[r].future \in {"pending", "cancelled"}
      /\ Logged => row[r] = "queued"
      /\ ~Logged => w = row[r]
      /\ Logged => w = "cancelled"
  BY InvOfOne DEF Cancel, OpenStates, Log
<1>2. /\ t \in Tickets /\ t.state = "cancelled" /\ t.future \in {"refused", "cancelled"}
      /\ t.seq = ticket[r].seq
  BY <1>1, BecomesFields, BecomesType DEF Refused, TicketStates
<1>3. w \in OpenStates \cup ClosedRows \cup {"absent", "deleted"}
  BY LogType DEF ClosedRows, FinalStates
<1>4. Dispatch([ticket EXCEPT ![r] = t], [row EXCEPT ![r] = w], queued \ {r}, running)
  BY DEF Cancel
<1> HIDE DEF t, w
<1>5. Alike(r, t, w, queued \ {r}, running, "waiting", gaveUp')
  BY <1>1, <1>2, InvOfOne DEF Cancel, Alike, OpenStates
<1>6. GoesOn(r, t)
  BY <1>1, <1>2 DEF GoesOn, OpenStates
<1>7. row[r] \in ClosedRows => w = row[r]
  BY <1>1 DEF ClosedRows, FinalStates
<1>8. (queued \ {r}) \cap running = {}
  BY InvOfOne, Unchanged
<1>9. /\ gaveUp' \in SUBSET Requests /\ (queued \ {r}) \cap gaveUp \subseteq gaveUp'
      /\ queued \ {r} \in SUBSET Requests /\ running \in SUBSET running
      /\ "waiting" \in CallStates \ {"idle"}
      /\ UNCHANGED <<settings, nextSeq, enabled>>
      /\ caller' = [caller EXCEPT ![r] = "waiting"]
  BY <1>1, Unchanged DEF Cancel, CallStates, Inv, TypeOK
<1> QED BY <1>1, <1>2, <1>3, <1>4, <1>5, <1>6, <1>7, <1>8, <1>9, DispatchingRequest

LEMMA ChangeSettingsStep ==
    ASSUME Inv, ChangeSettings
    PROVE  Inv' /\ GoodStep
<1>1. Consistent(ticket, row, queued, running, caller', gaveUp', nextSeq')
  BY InvIsConsistent DEF ChangeSettings
<1>2. TypeOK
  BY DEF Inv
<1>3. queued \cap running = {}
  BY InvOfOne DEF Inv, TypeOK
<1>4. \A r \in Requests : caller'[r] = "idle" => row[r] = "absent"
  BY DEF Inv, ChangeSettings
<1>5. TakesPlaces(ticket, queued, running)
  BY <1>2, <1>3, InvOfOne DEF TakesPlaces, TypeOK, OpenStates
<1>6. Handled(ticket, row, queued, running)
  BY <1>1, <1>2, <1>4, <1>5 DEF Handled, ChangeSettings, TypeOK
<1> QED BY <1>6, DispatchingStep DEF ChangeSettings

\* A step that leaves the tickets and the queue alone.
LEMMA NothingStarts ==
    ASSUME Inv, UNCHANGED <<ticket, queued, running>>, ClosedRowsStay
    PROVE  GoodStep
<1>1. TakesPlaces(ticket, queued, running)
  BY InvOfOne DEF TakesPlaces, Inv, TypeOK, OpenStates
<1> QED BY <1>1
        DEF GoodStep, StartIsWithinLimits, StartIsInOrder, PlacesAreTaken, OfPriority

\* A step that leaves the log alone, too.
LEMMA IdleStep ==
    ASSUME Inv, enabled' \in BOOLEAN, row' = row,
           UNCHANGED <<settings, up, nextSeq, ticket, queued, running, caller, gaveUp>>
    PROVE  Inv' /\ GoodStep
<1>1. Inv'
  BY DEF Inv, TypeOK, NoStartableWaiting, BackgroundRunning, OfPriority
<1>2. GoodStep
  BY NothingStarts DEF ClosedRowsStay
<1> QED BY <1>1, <1>2

LEMMA ChangeEnabledStep ==
    ASSUME Inv, ChangeEnabled
    PROVE  Inv' /\ GoodStep
BY IdleStep DEF ChangeEnabled, Inv, TypeOK

LEMMA DeleteOldRowStep ==
    ASSUME Inv, NEW r \in Requests, DeleteOldRow(r)
    PROVE  Inv' /\ GoodStep
<1>1. /\ up /\ row[r] \in ClosedRows /\ row' = [row EXCEPT ![r] = "deleted"]
      /\ UNCHANGED <<settings, up, nextSeq, ticket, queued, running, caller, gaveUp, enabled>>
  BY DEF DeleteOldRow
<1>2. row \in [Requests -> OpenStates \cup ClosedRows \cup {"absent", "deleted"}]
  BY DEF Inv, TypeOK
<1>3. caller[r] # "idle"
  BY <1>1 DEF Inv, ClosedRows, FinalStates
<1>4. Logged => ticket[r].state \notin OpenStates
  BY <1>1, InvOfOne DEF OpenStates, ClosedRows, FinalStates
<1>5. Logged => RowsMatch(ticket, row')
  BY <1>1, <1>2, <1>4 DEF Inv, RowsMatch, OpenStates
<1>6. NoStartableWaiting'
  BY <1>1 DEF Inv, NoStartableWaiting, BackgroundRunning, OfPriority
<1>7. TypeOK'
  BY <1>1, <1>2 DEF Inv, TypeOK
<1>8. Inv'
  BY <1>1, <1>2, <1>3, <1>5, <1>6, <1>7 DEF Inv
<1>9. GoodStep
  BY <1>1, <1>2, NothingStarts DEF ClosedRowsStay
<1> QED BY <1>8, <1>9

\* A state with no request under way, in a process that runs or does not.
LEMMA NothingUnderWay ==
    ASSUME settings \in SettingsChoices, up \in BOOLEAN, nextSeq = 1,
           ticket = [r \in Requests |-> Blank], queued = {}, running = {}, gaveUp = {},
           caller \in [Requests -> {"idle", "ended"}], enabled \in BOOLEAN,
           row \in [Requests -> OpenStates \cup ClosedRows \cup {"absent", "deleted"}],
           \A r \in Requests : caller[r] = "idle" => row[r] = "absent",
           up /\ Logged => \A r \in Requests : row[r] \notin OpenStates
    PROVE  Inv
<1>1. \A r \in Requests : ticket[r] = Blank
  OBVIOUS
<1>2. TypeOK
  BY <1>1, BlankType DEF TypeOK, Tickets
<1>3. /\ CallsMatch(ticket, caller)
      /\ FuturesMatch(ticket, caller, gaveUp)
      /\ QueueMatches(ticket, queued, running)
      /\ PlacesMatch(ticket, nextSeq)
      /\ up /\ Logged => RowsMatch(ticket, row)
  BY <1>1, BlankType
  DEF CallsMatch, FuturesMatch, QueueMatches, PlacesMatch, RowsMatch, OpenStates
<1>4. NoStartableWaiting
  BY DEF NoStartableWaiting, OfPriority
<1> QED BY <1>2, <1>3, <1>4 DEF Inv

LEMMA InitIsGood == Init => Inv
BY NothingUnderWay DEF Init, OpenStates

LEMMA CrashStep ==
    ASSUME Inv, Crash
    PROVE  Inv' /\ GoodStep
<1>1. /\ up' = FALSE /\ nextSeq' = 1 /\ ticket' = [r \in Requests |-> Blank]
      /\ queued' = {} /\ running' = {} /\ gaveUp' = {}
      /\ caller' \in [Requests -> {"idle", "ended"}]
      /\ \A r \in Requests : caller'[r] = "idle" => caller[r] = "idle"
      /\ UNCHANGED <<settings, enabled, row>>
  BY DEF Crash
<1>2. /\ settings' \in SettingsChoices /\ enabled' \in BOOLEAN
      /\ row' \in [Requests -> OpenStates \cup ClosedRows \cup {"absent", "deleted"}]
  BY <1>1 DEF Inv, TypeOK
<1>3. \A r \in Requests : ticket'[r] = Blank
  BY <1>1
<1>4. TypeOK'
  <2>1. ticket' \in [Requests -> Tickets]
    BY <1>1, BlankType
  <2>2. caller' \in [Requests -> {"idle", "waiting", "calling", "sleeping", "ended"}]
    BY <1>1
  <2>3. /\ up' \in BOOLEAN /\ nextSeq' \in Nat
        /\ queued' \subseteq Requests /\ running' \subseteq Requests /\ gaveUp' \subseteq Requests
    BY <1>1
  <2> QED BY <1>2, <2>1, <2>2, <2>3 DEF TypeOK, Tickets
<1>5. /\ CallsMatch(ticket', caller')
      /\ FuturesMatch(ticket', caller', gaveUp')
      /\ QueueMatches(ticket', queued', running')
      /\ PlacesMatch(ticket', nextSeq')
  BY <1>1, <1>3, BlankType
  DEF CallsMatch, FuturesMatch, QueueMatches, PlacesMatch, OpenStates
<1>6. NoStartableWaiting'
  BY <1>1 DEF NoStartableWaiting, OfPriority
<1>7. \A r \in Requests : caller'[r] = "idle" => row'[r] = "absent"
  BY <1>1 DEF Inv
<1>8. Inv'
  BY <1>1, <1>4, <1>5, <1>6, <1>7 DEF Inv
<1>9. GoodStep
  <2>1. \A r \in Requests : ticket'[r].state \notin OpenStates /\ ticket'[r].seq = 0
    BY <1>3, BlankType DEF OpenStates
  <2> QED BY <1>1, <2>1
          DEF GoodStep, StartIsWithinLimits, StartIsInOrder, ClosedRowsStay, OfPriority,
              PlacesAreTaken, TakesPlaces
<1> QED BY <1>8, <1>9

LEMMA RestartStep ==
    ASSUME Inv, Restart
    PROVE  Inv' /\ GoodStep
<1>1. /\ ~up /\ up' = TRUE
      /\ row' = [r \in Requests |-> IF row[r] \in OpenStates THEN "interrupted" ELSE row[r]]
      /\ UNCHANGED <<settings, nextSeq, ticket, queued, running, caller, gaveUp, enabled>>
  BY DEF Restart
<1>2. row \in [Requests -> OpenStates \cup ClosedRows \cup {"absent", "deleted"}]
  BY DEF Inv, TypeOK
<1>3. /\ row' \in [Requests -> OpenStates \cup ClosedRows \cup {"absent", "deleted"}]
      /\ \A r \in Requests : row'[r] \notin OpenStates
      /\ \A r \in Requests : row[r] \in ClosedRows \cup {"absent"} => row'[r] = row[r]
  BY <1>1, <1>2 DEF OpenStates, ClosedRows, FinalStates
<1>4. \A r \in Requests : ticket[r].state = "none"
  BY <1>1, InvOfOne DEF Inv
<1>5. RowsMatch(ticket', row')
  BY <1>1, <1>3, <1>4 DEF RowsMatch, OpenStates
<1>6. NoStartableWaiting'
  BY <1>1 DEF Inv, NoStartableWaiting, BackgroundRunning, OfPriority
<1>7. TypeOK'
  BY <1>1, <1>3 DEF Inv, TypeOK
<1>8. Inv'
  BY <1>1, <1>3, <1>5, <1>6, <1>7 DEF Inv
<1>9. GoodStep
  BY <1>1, <1>3, NothingStarts DEF ClosedRowsStay
<1> QED BY <1>8, <1>9

-----------------------------------------------------------------------------
(* The theorems *)

\* Every step keeps the invariant and is a good one.
LEMMA NextIsGood ==
    ASSUME Inv, [Next]_vars
    PROVE  Inv' /\ GoodStep
<1>1. CASE UNCHANGED vars
  <2>1. enabled' \in BOOLEAN
    BY <1>1 DEF vars, Inv, TypeOK
  <2> QED BY <1>1, <2>1, IdleStep DEF vars
<1>2. ASSUME NEW r \in Requests, RequestStep(r)
      PROVE  Inv' /\ GoodStep
  <2>1. CASE RefuseBusy(r)
    BY <2>1, RefuseBusyStep
  <2>2. CASE Acquire(r)
    BY <2>2, AcquireStep
  <2>3. CASE Resume(r)
    BY <2>3, ResumeStartedStep, ResumeRefusedStep, ResumeCancelledStep DEF Resume
  <2>4. CASE Answer(r)
    BY <2>4, FinishStep, FailTransientlyStep DEF Answer
  <2>5. CASE WakeUp(r)
    BY <2>5, AcquireRetryStep, RefuseRetryStep DEF WakeUp
  <2>6. CASE GiveUp(r)
    BY <2>6, GiveUpStep
  <2>7. CASE Abandon(r)
    BY <2>7, AbandonStep
  <2>8. CASE Cancel(r)
    BY <2>8, CancelStep
  <2>9. CASE DeleteOldRow(r)
    BY <2>9, DeleteOldRowStep
  <2> QED BY <1>2, <2>1, <2>2, <2>3, <2>4, <2>5, <2>6, <2>7, <2>8, <2>9
          DEF RequestStep, Progress
<1>3. CASE ChangeSettings
  BY <1>3, ChangeSettingsStep
<1>4. CASE ChangeEnabled
  BY <1>4, ChangeEnabledStep
<1>5. CASE Crash
  BY <1>5, CrashStep
<1>6. CASE Restart
  BY <1>6, RestartStep
<1> QED BY <1>1, <1>2, <1>3, <1>4, <1>5, <1>6 DEF Next

\* The inductive invariant holds in every reachable state.
THEOREM Invariance == Spec => []Inv
<1>1. Init => Inv
  BY InitIsGood
<1>2. Inv /\ [Next]_vars => Inv'
  BY NextIsGood
<1> QED BY <1>1, <1>2, PTL DEF Spec

\* The state of the queue, of its tickets and callers and of the log is always
\* of the shape the code gives it.
THEOREM TypeCorrect == Spec => []TypeOK
<1>1. Inv => TypeOK
  BY DEF Inv
<1> QED BY <1>1, Invariance, PTL

\* The queue is work-conserving for every number of calls and all limits: no
\* handler returns with a request waiting that could have started.
THEOREM WorkConserving == Spec => []NoStartableWaiting
<1>1. Inv => NoStartableWaiting
  BY DEF Inv
<1> QED BY <1>1, Invariance, PTL

\* No slot is lost or used twice: the running requests are always those whose
\* caller uses its slot or is about to.
THEOREM NoSlotLeaks == Spec => []SlotsHeldByCallers
<1>1. Inv => SlotsHeldByCallers
  <2> SUFFICES ASSUME Inv, NEW r \in Requests
               PROVE  r \in running <=>
                          \/ caller[r] = "calling"
                          \/ caller[r] = "waiting" /\ ticket[r].future = "started"
    BY DEF SlotsHeldByCallers, Inv, TypeOK
  <2> QED BY InvOfOne DEF Tickets, TicketStates, OpenStates
<1> QED BY <1>1, Invariance, PTL

\* The log of requests agrees with the queue while the process runs, also after
\* restarts that found open rows of the process before.
THEOREM LogIsTrue == Spec => []RowsFollowTickets
<1>1. Inv => RowsFollowTickets
  BY InvOfOne DEF RowsFollowTickets, OpenStates
<1> QED BY <1>1, Invariance, PTL

\* A dispatch never starts more than the limits allow, nor a request nobody
\* waits for, whichever handler it ends.
THEOREM LimitsHold == Spec => StartsWithinLimits
<1>1. Inv /\ [Next]_vars => [StartIsWithinLimits]_vars
  BY NextIsGood DEF GoodStep
<1> QED BY <1>1, Invariance, PTL DEF Spec, StartsWithinLimits

\* Requests of one priority start in the order they first came.
THEOREM OrderHolds == Spec => FirstComeFirstServed
<1>1. Inv /\ [Next]_vars => [StartIsInOrder]_vars
  BY NextIsGood DEF GoodStep
<1> QED BY <1>1, Invariance, PTL DEF Spec, FirstComeFirstServed

\* A closed row of the log is never rewritten.
THEOREM LogIsFinal == Spec => RowsClosedForGood
<1>1. Inv /\ [Next]_vars => [ClosedRowsStay]_vars
  BY NextIsGood DEF GoodStep
<1> QED BY <1>1, Invariance, PTL DEF Spec, RowsClosedForGood

-----------------------------------------------------------------------------
(* The queue implements SlotAdmission *)

\* The request sets of the abstract specification, in the queue's variables.
SetsAgree ==
    /\ Admission!Waiting = queued
    /\ Admission!Holding = running
    /\ Admission!Replies(queued) = OfPriority(queued, "foreground")
    /\ Admission!Work(queued) = OfPriority(queued, "background")
    /\ Admission!Work(running) = OfPriority(running, "background")

LEMMA AbstractSets == Inv => SetsAgree
<1> SUFFICES ASSUME Inv PROVE SetsAgree
  OBVIOUS
<1>1. queued \in SUBSET Requests /\ running \in SUBSET Requests
  BY DEF Inv, TypeOK
<1>2. queued \cap running = {}
  BY <1>1, InvOfOne
<1>3. Admission!Waiting = queued /\ Admission!Holding = running
  BY <1>1, <1>2 DEF Admission!Waiting, Admission!Holding
<1> QED BY <1>1, <1>3 DEF SetsAgree, Admission!Replies, Admission!Work, OfPriority, PriorityOf

\* The Cardinality SlotAdmission counts with is that of ModelQueue.
LEMMA SameCardinality == \A S : Admission!Cardinality(S) = Cardinality(S)
BY DEF Admission!Cardinality, Cardinality

LEMMA StepIsAdmission ==
    ASSUME Inv, Inv', GoodStep
    PROVE  Admission!Next
<1> DEFINE started == running' \ running
<1>1. SetsAgree
  BY AbstractSets
<1>2. (Inv => SetsAgree)'
  BY AbstractSets, PTL
<1>3. /\ Admission!Waiting = queued /\ Admission!Holding = running
      /\ Admission!Waiting' = queued' /\ Admission!Holding' = running'
      /\ Admission!Replies(Admission!Waiting') = OfPriority(queued', "foreground")
      /\ Admission!Work(Admission!Waiting') = OfPriority(queued', "background")
      /\ Admission!Work(Admission!Holding') = OfPriority(running', "background")
  BY <1>1, <1>2 DEF SetsAgree, Admission!Replies, Admission!Work, OfPriority
<1>4. /\ queued \in SUBSET Requests /\ running \in SUBSET Requests
      /\ queued' \in SUBSET Requests /\ running' \in SUBSET Requests
      /\ queued' \cap running' = {}
      /\ \A r \in Requests : ticket[r].seq \in Nat /\ ticket'[r].seq \in Nat
      /\ \A r \in queued' \cup running' : ticket'[r].seq # 0
  BY DEF Inv, TypeOK, QueueMatches, PlacesMatch
<1>5. Total(settings') \in Nat \ {0} /\ EffectiveBackground(settings') \in Nat
  BY LimitsType DEF Inv, TypeOK
<1>6. Admission!Lives
  <2>1. queued' \cap running = {}
    BY DEF GoodStep, PlacesAreTaken, TakesPlaces
  <2> QED BY <1>3, <1>4, <2>1 DEF Admission!Lives
<1>7. Admission!Places
  BY <1>4 DEF Admission!Places, GoodStep, PlacesAreTaken, TakesPlaces
<1>8. Admission!Work(started) = OfPriority(started, "background")
  BY <1>4 DEF Admission!Work, OfPriority, PriorityOf
<1>9. \A r, u \in Requests :
          (r \in Foreground <=> u \in Foreground) => PriorityOf(r) = PriorityOf(u)
  BY DEF PriorityOf
<1>10. NoStartableWaiting' /\ StartIsWithinLimits /\ StartIsInOrder
  BY DEF Inv, GoodStep
<1>11. Admission!Admission
  <2>1. \A s \in started, w \in queued' :
            (s \in Foreground <=> w \in Foreground) => ticket'[s].seq < ticket'[w].seq
    BY <1>4, <1>9, <1>10 DEF StartIsInOrder
  <2>2. \A s \in started, w \in queued' : s \in Requests /\ w \in Requests
    BY <1>4
  <2> QED BY <1>3, <1>4, <1>8, <1>10, <2>1, <2>2, SameCardinality
          DEF Admission!Admission, StartIsWithinLimits, NoStartableWaiting, BackgroundRunning
<1> QED BY <1>5, <1>6, <1>7, <1>11 DEF Admission!Next

\* The queue, whatever its callers do, is an implementation of what its
\* docstring promises.
THEOREM PromiseKept == Spec => KeepsAdmissionPromise
<1>1. Init => Admission!Init
  <2> SUFFICES ASSUME Init PROVE Admission!Init
    OBVIOUS
  <2>1. /\ queued = {} /\ running = {} /\ settings \in SettingsChoices
        /\ \A r \in Requests : ticket[r].seq = 0
    BY BlankType DEF Init
  <2>2. [r \in Requests |-> ticket[r].seq] = [r \in Requests |-> 0]
    BY <2>1
  <2>3. [r \in Requests |-> IF r \in queued THEN "waiting"
                            ELSE IF r \in running THEN "holding" ELSE "away"]
            = [r \in Requests |-> "away"]
    BY <2>1
  <2>4. Total(settings) \in Nat \ {0} /\ EffectiveBackground(settings) \in Nat
    BY <2>1, LimitsType
  <2> QED BY <2>2, <2>3, <2>4 DEF Admission!Init
<1>2. Inv /\ [Next]_vars /\ Inv' => [Admission!Next]_Admission!vars
  <2> SUFFICES ASSUME Inv, [Next]_vars PROVE Admission!Next
    OBVIOUS
  <2> QED BY NextIsGood, StepIsAdmission
<1> QED BY <1>1, <1>2, Invariance, PTL DEF Spec, KeepsAdmissionPromise, Admission!Spec
=============================================================================
