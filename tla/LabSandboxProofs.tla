-------------------------- MODULE LabSandboxProofs --------------------------
(***************************************************************************)
(* Proofs about the sandbox of the prompt lab and the scenarios it plays,  *)
(* for any scenarios, answers and bounds.                                  *)
(*                                                                         *)
(* OutcomeIsTheModels.  The results are of the scenario's turns, one by    *)
(* one, only because parsing numbers all its turns in their order          *)
(* (Numbered), and no result says more than what became of its turn        *)
(* (Judged).                                                               *)
(*                                                                         *)
(* ChatIsTrue.  No message takes the ID of another because parsing gives   *)
(* each an ID of its own from the first on (Placed), the bot's are above   *)
(* all of them, and a conversation goes on above what is stored            *)
(* (IdsAreFree, SavedIsTrue).  A turn is answered at its own time because  *)
(* parsing dates no message after a turn that follows it (Timed) and the   *)
(* clock is behind every turn to come (TimeIsAhead).                       *)
(***************************************************************************)
EXTENDS LabSandbox, FiniteSetTheorems, SequenceTheorems, WellFoundedInduction, TLAPS

\* A set of natural numbers that is not empty has a least element.
LEMMA LeastNat ==
    ASSUME NEW S \in SUBSET Nat, S # {}
    PROVE  \E m \in S : \A n \in S : m <= n
<1>1. PICK m \in S : \A n \in S : <<n, m>> \notin OpToRel(<, Nat)
  BY NatLessThanWellFounded, WFMin
<1>2. \A n \in S : ~(n < m)
  BY <1>1 DEF OpToRel
<1> QED BY <1>2

-----------------------------------------------------------------------------
(* What is parsed *)

\* The turns among the messages are numbered in their order, up to k.
Numbered(made, k) ==
    /\ \A p \in 1 .. Len(made) : made[p].turn \in 0 .. k
    /\ \A p, q \in 1 .. Len(made) :
          p < q /\ made[p].turn # Unset /\ made[q].turn # Unset => made[p].turn < made[q].turn
    /\ \A q \in 1 .. Len(made) :
          made[q].turn > 1 => \E p \in 1 .. q - 1 : made[p].turn = made[q].turn - 1
    /\ k > 0 => \E p \in 1 .. Len(made) : made[p].turn = k

Built(b, k) ==
    \E m, n, o, T : /\ b = [made |-> m, next |-> n, ok |-> o] /\ m \in Seq(T) /\ o \in BOOLEAN
                    /\ o => Numbered(m, k)

\* One more message, a turn or none
LEMMA OneMoreNumbered ==
    ASSUME NEW T, NEW m \in Seq(T), NEW k \in Nat, Numbered(m, k), NEW e, NEW t \in {0, k + 1},
           e.turn = t
    PROVE  /\ Append(m, e) \in Seq(T \cup {e})
           /\ Numbered(Append(m, e), IF t = 0 THEN k ELSE k + 1)
<1>1. PICK l, s, j : l = Len(m) /\ s = Append(m, e) /\ j = IF t = 0 THEN k ELSE k + 1
  OBVIOUS
<1>2. l \in Nat /\ t \in Nat /\ j \in Nat /\ k <= j /\ t <= j /\ (t # 0 => t = k + 1 /\ j = t)
      /\ (t = 0 => j = k)
  BY <1>1
<1>3. s \in Seq(T \cup {e}) /\ Len(s) = l + 1 /\ s[l + 1] = e /\ \A i \in 1 .. l : s[i] = m[i]
  <2>1. PICK V : V = T \cup {e}
    OBVIOUS
  <2>2. m \in Seq(V) /\ e \in V
    BY <2>1
  <2>3. s \in Seq(V) /\ Len(s) = l + 1 /\ s[l + 1] = e /\ \A i \in 1 .. l : s[i] = m[i]
    BY <1>1, <2>2, AppendProperties
  <2> QED BY <2>1, <2>3
<1>4. /\ \A p \in 1 .. l : m[p].turn \in 0 .. k
      /\ \A p, q \in 1 .. l : p < q /\ m[p].turn # 0 /\ m[q].turn # 0 => m[p].turn < m[q].turn
      /\ \A q \in 1 .. l : m[q].turn > 1 => \E p \in 1 .. q - 1 : m[p].turn = m[q].turn - 1
      /\ k > 0 => \E p \in 1 .. l : m[p].turn = k
  BY <1>1 DEF Numbered, Unset
<1>5. ASSUME NEW p \in 1 .. l + 1 PROVE s[p].turn \in 0 .. j
  <2>1. CASE p = l + 1
    BY <1>2, <1>3, <2>1
  <2>2. CASE p # l + 1
    <3>1. p \in 1 .. l
      BY <1>2, <2>2
    <3>2. m[p].turn \in 0 .. k
      BY <1>4, <3>1
    <3> QED BY <1>2, <1>3, <3>1, <3>2
  <2> QED BY <2>1, <2>2
<1>6. ASSUME NEW p \in 1 .. l + 1, NEW q \in 1 .. l + 1, p < q, s[p].turn # 0, s[q].turn # 0
      PROVE  s[p].turn < s[q].turn
  <2>1. p \in 1 .. l /\ s[p] = m[p]
    BY <1>2, <1>3, <1>6
  <2>2. CASE q = l + 1
    <3>1. s[q].turn = k + 1
      BY <1>2, <1>3, <1>6, <2>2
    <3>2. m[p].turn \in 0 .. k
      BY <1>4, <2>1
    <3> QED BY <2>1, <3>1, <3>2
  <2>3. CASE q # l + 1
    <3>1. q \in 1 .. l
      BY <1>2, <2>3
    <3> QED BY <1>3, <1>4, <1>6, <2>1, <3>1
  <2> QED BY <2>2, <2>3
<1>7. ASSUME NEW q \in 1 .. l + 1, s[q].turn > 1
      PROVE  \E p \in 1 .. q - 1 : s[p].turn = s[q].turn - 1
  <2>1. CASE q = l + 1
    <3>1. t = k + 1 /\ s[q].turn = k + 1 /\ k > 0
      BY <1>2, <1>3, <1>7, <2>1
    <3>2. PICK p \in 1 .. l : m[p].turn = k
      BY <1>4, <3>1
    <3>3. p \in 1 .. q - 1 /\ s[p].turn = k
      BY <1>2, <1>3, <2>1, <3>2
    <3> QED BY <3>1, <3>3
  <2>2. CASE q # l + 1
    <3>1. q \in 1 .. l /\ s[q] = m[q]
      BY <1>2, <1>3, <2>2
    <3>2. PICK p \in 1 .. q - 1 : m[p].turn = m[q].turn - 1
      BY <1>4, <1>7, <3>1
    <3>3. p \in 1 .. l
      BY <1>2, <3>1, <3>2
    <3> QED BY <1>3, <3>1, <3>2, <3>3
  <2> QED BY <2>1, <2>2
<1>8. ASSUME j > 0 PROVE \E p \in 1 .. l + 1 : s[p].turn = j
  <2>1. CASE t = 0
    <3>1. PICK p \in 1 .. l : m[p].turn = k
      BY <1>2, <1>4, <1>8, <2>1
    <3>2. p \in 1 .. l + 1 /\ s[p].turn = j
      BY <1>2, <1>3, <2>1, <3>1
    <3> QED BY <3>2
  <2>2. CASE t # 0
    <3>1. l + 1 \in 1 .. l + 1 /\ s[l + 1].turn = j
      BY <1>2, <1>3, <2>2
    <3> QED BY <3>1
  <2> QED BY <2>1, <2>2
<1>9. Numbered(s, j)
  BY <1>3, <1>5, <1>6, <1>7, <1>8 DEF Numbered, Unset
<1> QED BY <1>1, <1>3, <1>9

\* What is refused stays refused.
LEMMA RefusedIsBuilt ==
    ASSUME NEW b, NEW k, Built(b, k), NEW j
    PROVE  /\ Built([b EXCEPT !.ok = FALSE], j)
           /\ b.ok = FALSE => Built(b, j)
           /\ b.ok \in BOOLEAN
<1>1. PICK m, n, o, T : /\ b = [made |-> m, next |-> n, ok |-> o] /\ m \in Seq(T) /\ o \in BOOLEAN
  BY DEF Built
<1>2. PICK c : c = [made |-> m, next |-> n, ok |-> FALSE]
  OBVIOUS
<1>3. Built(c, j)
  BY <1>1, <1>2 DEF Built
<1>4. [b EXCEPT !.ok = FALSE] = c
  <2>1. b = [made |-> m, next |-> n, ok |-> o]
    BY <1>1
  <2>2. PICK no : no = FALSE
    OBVIOUS
  <2>3. [b EXCEPT !.ok = no] = [made |-> m, next |-> n, ok |-> no]
    BY <2>1
  <2> QED BY <1>2, <2>2, <2>3
<1>5. b.ok = o /\ (b.ok = FALSE => b = c)
  BY <1>1, <1>2
<1> QED BY <1>1, <1>3, <1>4, <1>5

LEMMA AddedIsBuilt ==
    ASSUME NEW b, NEW k \in Nat, Built(b, k), NEW msg, NEW default, NEW t \in {0, k + 1}
    PROVE  Built(AddMessage(b, msg, default, t), IF t = 0 THEN k ELSE k + 1)
<1>1. PICK m, n, o, T : /\ b = [made |-> m, next |-> n, ok |-> o] /\ m \in Seq(T) /\ o \in BOOLEAN
                        /\ o => Numbered(m, k)
  BY DEF Built
<1>2. PICK c, j : c = AddMessage(b, msg, default, t) /\ j = IF t = 0 THEN k ELSE k + 1
  OBVIOUS
<1>3. PICK id, date : id = IdFor(b, msg.id) /\ date = Or(Or(msg.date, default), DefaultStart)
  OBVIOUS
<1>4. CASE ~b.ok \/ id \in Ids(b) \/ (msg.to # Unset /\ msg.to \notin Ids(b))
  <2>1. c = [b EXCEPT !.ok = FALSE]
    BY <1>2, <1>3, <1>4 DEF AddMessage
  <2>2. Built([b EXCEPT !.ok = FALSE], j)
    BY RefusedIsBuilt
  <2>3. Built(c, j)
    BY <2>1, <2>2
  <2> QED BY <1>2, <2>3
<1>5. CASE ~(~b.ok \/ id \in Ids(b) \/ (msg.to # Unset /\ msg.to \notin Ids(b)))
  <2>1. PICK e, next : /\ e = [id |-> id, date |-> date, bot |-> msg.bot, to |-> msg.to, turn |-> t]
                       /\ next = IF id >= b.next THEN id + 1 ELSE b.next
    OBVIOUS
  <2>2. c = [b EXCEPT !.made = Append(b.made, e), !.next = next]
    BY <1>2, <1>3, <1>5, <2>1 DEF AddMessage
  <2>3. PICK s : s = Append(m, e)
    OBVIOUS
  <2>4. c = [made |-> s, next |-> next, ok |-> o] /\ o
    BY <1>1, <1>5, <2>2, <2>3
  <2>5. e.turn = t
    BY <2>1
  <2>6. s \in Seq(T \cup {e}) /\ Numbered(s, j)
    BY <1>1, <1>2, <2>3, <2>4, <2>5, OneMoreNumbered
  <2>7. \E V : s \in Seq(V)
    BY <2>6
  <2>8. Built(c, j)
    BY <1>1, <2>4, <2>6, <2>7 DEF Built
  <2> QED BY <1>2, <2>8
<1> QED BY <1>4, <1>5

\* The messages of a dated run, one after the other
RunDate(c, i, n, start, end) ==
    IF start = Unset /\ end # Unset THEN end - (n + 1 - i) * Minute
    ELSE IF i = 1 THEN start ELSE LastDate(c) + Minute
RunSteps(f, b, raws, start, end, n, k) ==
    f = [i \in 0 .. k |->
            IF i = 0 THEN b
            ELSE AddMessage(f[i - 1], raws[i], RunDate(f[i - 1], i, n, start, end), Unset)]

\* Functions of this kind exist, however long: the first length for which
\* there were none would follow one for which there is.
LEMMA RunStepsExist ==
    ASSUME NEW b, NEW raws, NEW start, NEW end, NEW n, NEW k \in Nat
    PROVE  \E f : RunSteps(f, b, raws, start, end, n, k)
<1> DEFINE S == {j \in Nat : ~ \E f : RunSteps(f, b, raws, start, end, n, j)}
<1> SUFFICES S = {}
  OBVIOUS
<1> SUFFICES ASSUME S # {} PROVE FALSE
  OBVIOUS
<1>1. PICK j \in S : \A m \in S : j <= m
  <2>1. S \in SUBSET Nat
    OBVIOUS
  <2> HIDE DEF S
  <2> QED BY <2>1, LeastNat
<1>2. CASE j = 0
  <2> DEFINE f == [i \in 0 .. 0 |-> b]
  <2>1. RunSteps(f, b, raws, start, end, n, 0)
    BY DEF RunSteps
  <2> QED BY <1>1, <1>2, <2>1
<1>3. CASE j > 0
  <2>1. j - 1 \in Nat /\ j - 1 \notin S
    BY <1>1, <1>3
  <2>2. PICK g : RunSteps(g, b, raws, start, end, n, j - 1)
    BY <2>1
  <2> DEFINE x == AddMessage(g[j - 1], raws[j], RunDate(g[j - 1], j, n, start, end), Unset)
             f == [i \in 0 .. j |-> IF i = j THEN x ELSE g[i]]
  <2> HIDE DEF x
  <2>3. \A i \in 0 .. j : f[i] = IF i = j THEN x ELSE g[i]
    OBVIOUS
  <2>4. \A i \in 0 .. (j - 1) :
            g[i] = IF i = 0 THEN b
                   ELSE AddMessage(g[i - 1], raws[i], RunDate(g[i - 1], i, n, start, end), Unset)
    BY <2>2, Zenon DEF RunSteps
  <2>5. ASSUME NEW i \in 0 .. j
        PROVE  f[i] = IF i = 0 THEN b
                      ELSE AddMessage(f[i - 1], raws[i], RunDate(f[i - 1], i, n, start, end), Unset)
    <3>1. CASE i = j
      <4>1. f[i] = x /\ f[i - 1] = g[j - 1] /\ i # 0
        BY <1>1, <1>3, <2>3, <3>1
      <4> QED BY <4>1, <3>1 DEF x
    <3>2. CASE i # j /\ i # 0
      <4>1. /\ i \in 0 .. (j - 1) /\ i - 1 \in 0 .. j /\ i - 1 # j
        BY <1>1, <3>2
      <4>2. f[i] = g[i] /\ f[i - 1] = g[i - 1]
        BY <2>3, <3>2, <4>1
      <4> QED BY <2>4, <3>2, <4>1, <4>2
    <3>3. CASE i # j /\ i = 0
      <4>1. i \in 0 .. (j - 1)
        BY <1>1, <3>3
      <4>2. f[i] = g[i]
        BY <2>3, <3>3
      <4> QED BY <2>4, <3>3, <4>1, <4>2
    <3> QED BY <3>1, <3>2, <3>3
  <2>6. f = [i \in 0 .. j |-> f[i]]
    OBVIOUS
  <2> HIDE DEF f
  <2>7. f = [i \in 0 .. j |->
                IF i = 0 THEN b
                ELSE AddMessage(f[i - 1], raws[i], RunDate(f[i - 1], i, n, start, end), Unset)]
    BY <2>5, <2>6
  <2>8. RunSteps(f, b, raws, start, end, n, j)
    BY <2>7 DEF RunSteps
  <2> QED BY <1>1, <2>8
<1> QED BY <1>1, <1>2, <1>3

LEMMA RunIsSteps ==
    ASSUME NEW b, NEW raws, NEW start, NEW end, NEW k, k = Len(raws), k \in Nat
    PROVE  \E f : /\ RunSteps(f, b, raws, start, end, k, k)
                  /\ DatedRun(b, raws, start, end) = f[k]
<1> DEFINE after[i \in 0 .. k] ==
               IF i = 0 THEN b
               ELSE AddMessage(after[i - 1], raws[i], RunDate(after[i - 1], i, k, start, end), Unset)
<1>1. after = CHOOSE f : f = [i \in 0 .. k |->
                IF i = 0 THEN b
                ELSE AddMessage(f[i - 1], raws[i], RunDate(f[i - 1], i, k, start, end), Unset)]
  BY Zenon
<1>2. DatedRun(b, raws, start, end) = after[k]
  BY Zenon DEF DatedRun, RunDate
<1> HIDE DEF after
<1>3. \E f : f = [i \in 0 .. k |->
                IF i = 0 THEN b
                ELSE AddMessage(f[i - 1], raws[i], RunDate(f[i - 1], i, k, start, end), Unset)]
  <2>1. \E f : RunSteps(f, b, raws, start, end, k, k)
    BY RunStepsExist
  <2> QED BY <2>1, Zenon DEF RunSteps
<1>4. after = [i \in 0 .. k |->
                IF i = 0 THEN b
                ELSE AddMessage(after[i - 1], raws[i], RunDate(after[i - 1], i, k, start, end), Unset)]
  BY <1>1, <1>3, Zenon
<1> QED BY <1>2, <1>4, Zenon DEF RunSteps

\* A dated run has no turns.
LEMMA RunIsBuilt ==
    ASSUME NEW b, NEW j \in Nat, Built(b, j), NEW raws, Len(raws) \in Nat, NEW start, NEW end
    PROVE  Built(DatedRun(b, raws, start, end), j)
<1>1. PICK k : k = Len(raws)
  OBVIOUS
<1>2. k \in Nat
  BY <1>1
<1>3. PICK f : RunSteps(f, b, raws, start, end, k, k) /\ DatedRun(b, raws, start, end) = f[k]
  BY <1>1, <1>2, RunIsSteps
<1>4. \A i \in 0 .. k :
         f[i] = IF i = 0 THEN b
                ELSE AddMessage(f[i - 1], raws[i], RunDate(f[i - 1], i, k, start, end), Unset)
  BY <1>3, Zenon DEF RunSteps
<1> DEFINE S == {i \in 0 .. k : ~Built(f[i], j)}
<1>5. S = {}
  <2> SUFFICES ASSUME S # {} PROVE FALSE
    OBVIOUS
  <2>1. PICK i \in S : \A h \in S : i <= h
    <3>1. S \in SUBSET Nat
      BY <1>2
    <3> HIDE DEF S
    <3> QED BY <3>1, LeastNat
  <2>2. i \in 0 .. k /\ ~Built(f[i], j)
    BY <2>1
  <2>3. i # 0
    <3>1. 0 \in 0 .. k
      BY <1>2
    <3>2. f[0] = b
      BY <1>4, <3>1
    <3> QED BY <2>2, <3>2
  <2>4. i - 1 \in 0 .. k /\ i - 1 \notin S
    BY <1>2, <2>1, <2>2, <2>3
  <2>5. Built(f[i - 1], j)
    BY <2>4
  <2>6. PICK date : f[i] = AddMessage(f[i - 1], raws[i], date, 0)
    BY <1>4, <2>2, <2>3 DEF Unset
  <2>7. Built(AddMessage(f[i - 1], raws[i], date, 0), j)
    BY <2>5, AddedIsBuilt
  <2> QED BY <2>2, <2>6, <2>7
<1>6. k \in 0 .. k
  BY <1>2
<1> QED BY <1>3, <1>5, <1>6

\* The turns of a scenario, one after the other
ParseSteps(f, chat0, s, time, k) ==
    f = [i \in 0 .. k |->
            IF i = 0 THEN chat0
            ELSE IF f[i - 1].ok THEN AddTurn(f[i - 1], s.turns[i], i, time, s.continues)
            ELSE f[i - 1]]

LEMMA ParseStepsExist ==
    ASSUME NEW chat0, NEW s, NEW time, NEW k \in Nat
    PROVE  \E f : ParseSteps(f, chat0, s, time, k)
<1> DEFINE S == {j \in Nat : ~ \E f : ParseSteps(f, chat0, s, time, j)}
<1> SUFFICES S = {}
  OBVIOUS
<1> SUFFICES ASSUME S # {} PROVE FALSE
  OBVIOUS
<1>1. PICK j \in S : \A m \in S : j <= m
  <2>1. S \in SUBSET Nat
    OBVIOUS
  <2> HIDE DEF S
  <2> QED BY <2>1, LeastNat
<1>2. CASE j = 0
  <2> DEFINE f == [i \in 0 .. 0 |-> chat0]
  <2>1. ParseSteps(f, chat0, s, time, 0)
    BY DEF ParseSteps
  <2> QED BY <1>1, <1>2, <2>1
<1>3. CASE j > 0
  <2>1. j - 1 \in Nat /\ j - 1 \notin S
    BY <1>1, <1>3
  <2>2. PICK g : ParseSteps(g, chat0, s, time, j - 1)
    BY <2>1
  <2> DEFINE x == IF g[j - 1].ok THEN AddTurn(g[j - 1], s.turns[j], j, time, s.continues)
                  ELSE g[j - 1]
             f == [i \in 0 .. j |-> IF i = j THEN x ELSE g[i]]
  <2> HIDE DEF x
  <2>3. \A i \in 0 .. j : f[i] = IF i = j THEN x ELSE g[i]
    OBVIOUS
  <2>4. \A i \in 0 .. (j - 1) :
            g[i] = IF i = 0 THEN chat0
                   ELSE IF g[i - 1].ok THEN AddTurn(g[i - 1], s.turns[i], i, time, s.continues)
                   ELSE g[i - 1]
    BY <2>2, Zenon DEF ParseSteps
  <2>5. ASSUME NEW i \in 0 .. j
        PROVE  f[i] = IF i = 0 THEN chat0
                      ELSE IF f[i - 1].ok THEN AddTurn(f[i - 1], s.turns[i], i, time, s.continues)
                      ELSE f[i - 1]
    <3>1. CASE i = j
      <4>1. f[i] = x /\ f[i - 1] = g[j - 1] /\ i # 0
        BY <1>1, <1>3, <2>3, <3>1
      <4> QED BY <4>1, <3>1 DEF x
    <3>2. CASE i # j /\ i # 0
      <4>1. /\ i \in 0 .. (j - 1) /\ i - 1 \in 0 .. j /\ i - 1 # j
        BY <1>1, <3>2
      <4>2. f[i] = g[i] /\ f[i - 1] = g[i - 1]
        BY <2>3, <3>2, <4>1
      <4> QED BY <2>4, <3>2, <4>1, <4>2
    <3>3. CASE i # j /\ i = 0
      <4>1. i \in 0 .. (j - 1)
        BY <1>1, <3>3
      <4>2. f[i] = g[i]
        BY <2>3, <3>3
      <4> QED BY <2>4, <3>3, <4>1, <4>2
    <3> QED BY <3>1, <3>2, <3>3
  <2>6. f = [i \in 0 .. j |-> f[i]]
    OBVIOUS
  <2> HIDE DEF f
  <2>7. f = [i \in 0 .. j |->
                IF i = 0 THEN chat0
                ELSE IF f[i - 1].ok THEN AddTurn(f[i - 1], s.turns[i], i, time, s.continues)
                ELSE f[i - 1]]
    BY <2>5, <2>6
  <2>8. ParseSteps(f, chat0, s, time, j)
    BY <2>7 DEF ParseSteps
  <2> QED BY <1>1, <2>8
<1> QED BY <1>1, <1>2, <1>3

LEMMA ParseIsSteps ==
    ASSUME NEW chat0, NEW s, NEW time, Len(s.turns) \in Nat
    PROVE  \E f : ParseSteps(f, chat0, s, time, Len(s.turns)) /\ AddTurns(chat0, s, time) = f[Len(s.turns)]
<1> DEFINE after[i \in 0 .. Len(s.turns)] ==
               IF i = 0 THEN chat0
               ELSE IF after[i - 1].ok THEN AddTurn(after[i - 1], s.turns[i], i, time, s.continues)
               ELSE after[i - 1]
<1>1. after = CHOOSE f : f = [i \in 0 .. Len(s.turns) |->
               IF i = 0 THEN chat0
               ELSE IF f[i - 1].ok THEN AddTurn(f[i - 1], s.turns[i], i, time, s.continues)
               ELSE f[i - 1]]
  BY Zenon
<1>2. AddTurns(chat0, s, time) = after[Len(s.turns)]
  BY Zenon DEF AddTurns
<1> HIDE DEF after
<1>3. \E f : f = [i \in 0 .. Len(s.turns) |->
               IF i = 0 THEN chat0
               ELSE IF f[i - 1].ok THEN AddTurn(f[i - 1], s.turns[i], i, time, s.continues)
               ELSE f[i - 1]]
  <2>1. \E f : ParseSteps(f, chat0, s, time, Len(s.turns))
    BY ParseStepsExist
  <2> QED BY <2>1, Zenon DEF ParseSteps
<1>4. after = [i \in 0 .. Len(s.turns) |->
               IF i = 0 THEN chat0
               ELSE IF after[i - 1].ok THEN AddTurn(after[i - 1], s.turns[i], i, time, s.continues)
               ELSE after[i - 1]]
  BY <1>1, <1>3, Zenon
<1> QED BY <1>2, <1>4, Zenon DEF ParseSteps

LEMMA TurnIsBuilt ==
    ASSUME NEW b, NEW j \in Nat, Built(b, j), NEW t, Len(t.before) \in Nat, NEW time, NEW continues
    PROVE  Built(AddTurn(b, t, j + 1, time, continues), j + 1)
<1>1. PICK i, turnDate : i = j + 1 /\ turnDate = IF i = 1 THEN Unset ELSE LastDate(b)
  OBVIOUS
<1>2. PICK dates : dates = TurnDates(b, t, time, turnDate)
  OBVIOUS
<1>3. PICK added : added = AddMessage(dates.built, t, dates.when, i)
  OBVIOUS
<1>4. Built(dates.built, j)
  <2>1. dates.built = b \/ \E start, end : dates.built = DatedRun(b, t.before, start, end)
    BY <1>2 DEF TurnDates
  <2> QED BY <2>1, RunIsBuilt
<1>5. Built(added, i)
  <2>1. i \in {0, j + 1} /\ i # 0
    BY <1>1
  <2>2. Built(added, IF i = 0 THEN j ELSE j + 1)
    BY <1>3, <1>4, <2>1, AddedIsBuilt
  <2> QED BY <1>1, <2>1, <2>2
<1>6. \/ AddTurn(b, t, i, time, continues) = added
      \/ AddTurn(b, t, i, time, continues) = [added EXCEPT !.ok = FALSE]
  BY <1>1, <1>2, <1>3 DEF AddTurn
<1>7. Built([added EXCEPT !.ok = FALSE], i)
  BY <1>5, RefusedIsBuilt
<1> QED BY <1>1, <1>5, <1>6, <1>7

\* What is parsed has every turn of the scenario, numbered in order.
LEMMA ParsedIsBuilt ==
    ASSUME NEW s \in RawScenario, NEW firstId, NEW time
    PROVE  LET b == ParseScenario(s, firstId, time)
           IN  b.ok => \E T : b.made \in Seq(T) /\ Numbered(b.made, Len(s.turns))
<1>1. PICK k, chat0 : k = Len(s.turns) /\ chat0 = ChatBefore(s, firstId, time)
  OBVIOUS
<1>2. /\ s.turns \in Seq(RawTurn) /\ k \in Nat /\ Len(s.messages) \in Nat
      /\ \A i \in 1 .. k : Len(s.turns[i].before) \in Nat
  <2>1. s.turns \in Seq(RawTurn) /\ s.messages \in Seq(RawMessage)
    BY DEF RawScenario
  <2>2. \A t \in RawTurn : Len(t.before) \in Nat
    <3>1. \A t \in RawTurn : t.before \in Seq(RawMessage)
      BY DEF RawTurn
    <3> QED BY <3>1
  <2>3. k \in Nat /\ Len(s.messages) \in Nat
    BY <1>1, <2>1
  <2>4. \A i \in 1 .. k : s.turns[i] \in RawTurn
    BY <1>1, <2>1
  <2> QED BY <2>1, <2>2, <2>3, <2>4
<1>3. Built(chat0, 0)
  <2>1. PICK none, yes, b0 : none = << >> /\ yes = TRUE /\ b0 = Builder(firstId)
    OBVIOUS
  <2>2. b0 = [made |-> none, next |-> firstId, ok |-> yes]
    BY <2>1 DEF Builder
  <2>3. none \in Seq({0}) /\ Len(none) = 0
    BY <2>1
  <2>4. Numbered(none, 0)
    BY <2>3 DEF Numbered
  <2>5. Built(b0, 0)
    BY <2>1, <2>2, <2>3, <2>4 DEF Built
  <2>6. \E start, end : chat0 = DatedRun(b0, s.messages, start, end)
    BY <1>1, <2>1 DEF ChatBefore
  <2> QED BY <1>2, <2>5, <2>6, RunIsBuilt
<1>4. PICK f : ParseSteps(f, chat0, s, time, k) /\ AddTurns(chat0, s, time) = f[k]
  <2>1. Len(s.turns) \in Nat
    BY <1>1, <1>2
  <2>2. \E f : ParseSteps(f, chat0, s, time, Len(s.turns))
                  /\ AddTurns(chat0, s, time) = f[Len(s.turns)]
    BY <2>1, ParseIsSteps, Zenon
  <2>3. k = Len(s.turns)
    BY <1>1
  <2> QED BY <2>2, <2>3, Zenon
<1>5. \A i \in 0 .. k :
        f[i] = IF i = 0 THEN chat0
               ELSE IF f[i - 1].ok THEN AddTurn(f[i - 1], s.turns[i], i, time, s.continues)
               ELSE f[i - 1]
  BY <1>4, Zenon DEF ParseSteps
<1> DEFINE S == {i \in 0 .. k : ~Built(f[i], i)}
<1>6. S = {}
  <2> SUFFICES ASSUME S # {} PROVE FALSE
    OBVIOUS
  <2>1. PICK i \in S : \A h \in S : i <= h
    <3>1. S \in SUBSET Nat
      BY <1>2
    <3> HIDE DEF S
    <3> QED BY <3>1, LeastNat
  <2>2. i \in 0 .. k /\ ~Built(f[i], i)
    BY <2>1
  <2>3. i # 0
    <3>1. 0 \in 0 .. k
      BY <1>2
    <3>2. f[0] = chat0
      BY <1>5, <3>1
    <3> QED BY <1>3, <2>2, <3>2
  <2>4. i - 1 \in 0 .. k /\ i - 1 \notin S
    BY <1>2, <2>1, <2>2, <2>3
  <2>5. Built(f[i - 1], i - 1)
    BY <2>4
  <2>6. PICK j, g : j = i - 1 /\ g = f[i - 1]
    OBVIOUS
  <2>7. j \in Nat /\ j + 1 = i /\ Built(g, j) /\ g.ok \in BOOLEAN
    <3>1. j \in Nat /\ j + 1 = i
      BY <1>2, <2>2, <2>3, <2>6
    <3>2. Built(g, j)
      BY <2>5, <2>6
    <3>3. g.ok \in BOOLEAN
      BY <3>2, RefusedIsBuilt
    <3> QED BY <3>1, <3>2, <3>3
  <2>8. CASE g.ok
    <3>1. f[i] = AddTurn(g, s.turns[i], j + 1, time, s.continues)
      BY <1>5, <2>2, <2>3, <2>6, <2>7, <2>8
    <3>2. Len(s.turns[i].before) \in Nat
      BY <1>2, <2>2, <2>3
    <3>3. Built(AddTurn(g, s.turns[i], j + 1, time, s.continues), j + 1)
      BY <2>7, <3>2, TurnIsBuilt
    <3> QED BY <2>2, <2>7, <3>1, <3>3
  <2>9. CASE ~g.ok
    <3>1. f[i] = g
      BY <1>5, <2>2, <2>3, <2>6, <2>9
    <3>2. g.ok = FALSE
      BY <2>7, <2>9
    <3>3. Built(g, i)
      BY <2>7, <3>2, RefusedIsBuilt
    <3> QED BY <2>2, <3>1, <3>3
  <2> QED BY <2>8, <2>9
<1>7. PICK b : b = f[k]
  OBVIOUS
<1>8. Built(b, k)
  <2>1. k \in 0 .. k
    BY <1>2
  <2> QED BY <1>6, <1>7, <2>1
<1>9. PICK m, n, o, T : /\ b = [made |-> m, next |-> n, ok |-> o] /\ m \in Seq(T) /\ o \in BOOLEAN
                        /\ o => Numbered(m, k)
  BY <1>8 DEF Built
<1>10. PICK p, yes : yes = (b.ok /\ (s.continues => s.reminders = {})) /\ p = [b EXCEPT !.ok = yes]
  OBVIOUS
<1>11. p.made = m /\ p.ok = yes /\ (yes => o)
  <2>1. b = [made |-> m, next |-> n, ok |-> o]
    BY <1>9
  <2>2. p = [made |-> m, next |-> n, ok |-> yes]
    BY <1>10, <2>1
  <2> QED BY <1>10, <2>1, <2>2
<1>12. ParseScenario(s, firstId, time) = p
  BY <1>1, <1>4, <1>7, <1>10 DEF ParseScenario
<1> QED BY <1>1, <1>9, <1>11, <1>12

-----------------------------------------------------------------------------
(* What a turn and an attempt are judged *)

LEMMA CombineSays ==
    ASSUME NEW S \in SUBSET AttemptOutcomes, S # {}
    PROVE  /\ Combine(S) = "pass" => S \subseteq {"pass", "unjudged"} /\ "pass" \in S
           /\ Combine(S) \in {"fail", "action_failed"} => "error" \notin S
           /\ Combine(S) \in AttemptOutcomes
<1>1. PICK P, checked : /\ P = <<"error", "action_failed", "fail", "skipped", "unjudged", "pass">>
                        /\ checked = IF S = {"unjudged"} THEN S ELSE S \ {"unjudged"}
  OBVIOUS
<1>2. PICK D : D = {i \in DOMAIN P : P[i] \in checked}
  OBVIOUS
<1>3. /\ DOMAIN P = 1 .. 6 /\ P[1] = "error" /\ P[2] = "action_failed" /\ P[3] = "fail"
      /\ P[4] = "skipped" /\ P[5] = "unjudged" /\ P[6] = "pass"
  BY <1>1
<1>4. checked # {} /\ checked \subseteq S
  BY <1>1
<1>5. D # {} /\ D \in SUBSET Nat
  <2>1. PICK x \in checked : TRUE
    BY <1>4
  <2>2. x \in AttemptOutcomes
    BY <1>4, <2>1
  <2>3. \E i \in 1 .. 6 : P[i] = x
    BY <1>3, <2>2 DEF AttemptOutcomes
  <2> QED BY <1>2, <1>3, <2>1, <2>3
<1>6. PICK m : m = Min(D)
  OBVIOUS
<1>7. m \in D /\ \A i \in D : m <= i
  <2>1. \E x \in D : \A y \in D : x <= y
    BY <1>5, LeastNat
  <2> QED BY <1>6, <2>1 DEF Min
<1>8. m \in 1 .. 6 /\ P[m] \in checked /\ \A i \in 1 .. 6 : P[i] \in checked => m <= i
  BY <1>2, <1>3, <1>7
<1>9. Combine(S) = P[m]
  BY <1>1, <1>2, <1>6 DEF Combine
<1>10. ASSUME P[m] = "pass" PROVE S \subseteq {"pass", "unjudged"} /\ "pass" \in S
  <2>1. m = 6
    BY <1>3, <1>8, <1>10
  <2>2. P[1] \notin checked /\ P[2] \notin checked /\ P[3] \notin checked /\ P[4] \notin checked
        /\ P[5] \notin checked
    BY <1>8, <2>1
  <2>3. \A x \in checked : x = "pass"
    BY <1>3, <1>4, <2>2 DEF AttemptOutcomes
  <2>4. "pass" \in S
    BY <1>4, <1>8, <1>10
  <2>5. \A x \in S : x = "pass" \/ x = "unjudged"
    BY <1>1, <2>3
  <2> QED BY <2>4, <2>5
<1>11. ASSUME P[m] \in {"fail", "action_failed"} PROVE "error" \notin S
  <2>1. m # 1
    BY <1>3, <1>11
  <2>2. P[1] \notin checked
    BY <1>8, <2>1
  <2>3. "error" \notin checked
    BY <1>3, <2>2
  <2> QED BY <1>1, <2>3
<1>12. P[m] \in AttemptOutcomes
  BY <1>4, <1>8
<1> QED BY <1>9, <1>10, <1>11, <1>12

\* What the verdict says of a turn
Judged(r, expect) ==
    /\ r.outcome \in AttemptOutcomes
    /\ r.outcome # "error" => r.how \notin {"infra", "notrun", "raised"}
    /\ r.outcome \in {"pass", "unjudged"} =>
          /\ r.how # "stuck"
          /\ "tool" \in expect => r.needed = "done"
          /\ "text" \in expect => r.fits
    /\ r.outcome = "pass" => expect # {}

LEMMA VerdictSays ==
    ASSUME NEW expect, NEW r, NEW pending, NEW v, v = Verdict(expect, r, pending)
    PROVE  /\ v \in AttemptOutcomes
           /\ v # "error" => r.how \notin {"infra", "notrun", "raised"}
           /\ v \in {"pass", "unjudged"} =>
                 /\ r.how # "stuck"
                 /\ "tool" \in expect => r.needed = "done"
                 /\ "text" \in expect => r.fits
           /\ v = "pass" => expect # {}
<1>1. PICK checks : checks = Checks(expect, r, pending)
  OBVIOUS
<1>2. \/ r.how \in {"raised", "infra", "notrun"} /\ v = "error"
      \/ r.how \notin {"raised", "infra", "notrun"} /\ (v = "skipped" \/ v = TurnOutcome(checks))
  BY <1>1 DEF Verdict
<1>3. TurnOutcome(checks) \in {"action_failed", "fail", "pass", "unjudged"}
  BY DEF TurnOutcome
<1>4. TurnOutcome(checks) \in {"pass", "unjudged"} => "action" \notin checks /\ "wrong" \notin checks
  BY DEF TurnOutcome
<1>5. TurnOutcome(checks) = "pass" => "right" \in checks
  BY DEF TurnOutcome
<1>6. "tool" \in expect => ToolCheck(r) \in checks
  BY <1>1 DEF Checks
<1>7. "text" \in expect => TextCheck(r) \in checks
  BY <1>1 DEF Checks
<1>8. r.how = "stuck" => "wrong" \in checks
  BY <1>1 DEF Checks
<1>9. expect = {} => checks \subseteq {"wrong"}
  BY <1>1 DEF Checks
<1>10. v \in {"pass", "unjudged"} => v = TurnOutcome(checks)
  BY <1>2
<1>11. ASSUME v \in {"pass", "unjudged"}, "tool" \in expect PROVE r.needed = "done"
  <2>1. ToolCheck(r) \in checks /\ "action" \notin checks /\ "wrong" \notin checks
    BY <1>4, <1>6, <1>10, <1>11
  <2> QED BY <2>1 DEF ToolCheck, CheckOf
<1>12. ASSUME v \in {"pass", "unjudged"}, "text" \in expect PROVE r.fits
  <2>1. TextCheck(r) \in checks /\ "wrong" \notin checks
    BY <1>4, <1>7, <1>10, <1>12
  <2> QED BY <2>1 DEF TextCheck, CheckOf
<1>13. v \in {"pass", "unjudged"} => r.how # "stuck"
  BY <1>4, <1>8, <1>10
<1>14. v = "pass" => expect # {}
  BY <1>5, <1>9, <1>10
<1>15. v \in AttemptOutcomes /\ (v # "error" => r.how \notin {"infra", "notrun", "raised"})
  BY <1>2, <1>3 DEF AttemptOutcomes
<1> QED BY <1>11, <1>12, <1>13, <1>14, <1>15

-----------------------------------------------------------------------------
(* Its invariant *)

\* The results so far are of the scenario's turns, one by one.
TurnsAreTrue ==
    /\ raw \in RawScenario /\ turns \in Seq(TurnResult) /\ Len(turns) <= Len(raw.turns)
    /\ \A i \in 1 .. Len(turns) : Judged(turns[i], raw.turns[i].expect)

\* They are of the turns among the messages played so far.
ScriptIsTrue ==
    /\ \E T : script \in Seq(T)
    /\ Numbered(script, Len(raw.turns)) /\ pos \in Nat \ {0}
    /\ \A p \in 1 .. Len(script) : p < pos => script[p].turn <= Len(turns)
    /\ Len(turns) > 0 => \E p \in 1 .. Len(script) : p < pos /\ script[p].turn = Len(turns)

SandboxInv ==
    /\ stage \in Stages
    /\ stage \in {"playing", "asking", "ending"} => TurnsAreTrue
    /\ stage \in {"playing", "asking"} => ScriptIsTrue
    /\ stage = "asking" => pos \in 1 .. Len(script) /\ script[pos].turn # Unset
    /\ stage = "over" => outcome = "skipped" \/ (TurnsAreTrue /\ outcome = AttemptOutcome)

\* The next turn of the conversation is the next of the scenario.
LEMMA NextTurnIs ==
    ASSUME TurnsAreTrue, ScriptIsTrue, pos \in 1 .. Len(script), script[pos].turn # Unset
    PROVE  /\ Len(turns) \in Nat /\ Len(raw.turns) \in Nat
           /\ script[pos].turn = Len(turns) + 1 /\ Len(turns) + 1 <= Len(raw.turns)
<1>1. PICK n, l, k, j : n = Len(turns) /\ l = Len(script) /\ k = Len(raw.turns) /\ j = script[pos].turn
  OBVIOUS
<1>2. n \in Nat /\ l \in Nat /\ k \in Nat
  <2>1. raw.turns \in Seq(RawTurn) /\ turns \in Seq(TurnResult)
    BY DEF TurnsAreTrue, RawScenario
  <2>2. PICK T : script \in Seq(T)
    BY DEF ScriptIsTrue
  <2> QED BY <1>1, <2>1, <2>2
<1>3. /\ \A p \in 1 .. l : script[p].turn \in 0 .. k
      /\ \A p, q \in 1 .. l : p < q /\ script[p].turn # 0 /\ script[q].turn # 0
                                => script[p].turn < script[q].turn
      /\ \A q \in 1 .. l :
            script[q].turn > 1 => \E p \in 1 .. q - 1 : script[p].turn = script[q].turn - 1
      /\ \A p \in 1 .. l : p < pos => script[p].turn <= n
      /\ n > 0 => \E p \in 1 .. l : p < pos /\ script[p].turn = n
  BY <1>1 DEF ScriptIsTrue, Numbered, Unset
<1>4. pos \in 1 .. l /\ j \in 1 .. k
  <2>1. pos \in 1 .. l
    BY <1>1
  <2>2. j \in 0 .. k /\ j # 0
    BY <1>1, <1>3, <2>1 DEF Unset
  <2> QED BY <1>2, <2>1, <2>2
<1>5. j > n
  <2>1. CASE n > 0
    <3>1. PICK p \in 1 .. l : p < pos /\ script[p].turn = n
      BY <1>3, <2>1
    <3>2. script[p].turn < script[pos].turn
      BY <1>1, <1>3, <1>4, <2>1, <3>1 DEF Unset
    <3> QED BY <1>1, <3>1, <3>2
  <2>2. CASE n = 0
    BY <1>4, <2>2
  <2> QED BY <1>2, <2>1, <2>2
<1>6. j <= n + 1
  <2>1. CASE j > 1
    <3>1. PICK p \in 1 .. pos - 1 : script[p].turn = j - 1
      BY <1>1, <1>3, <1>4, <2>1
    <3>2. p \in 1 .. l /\ p < pos
      BY <1>2, <1>4, <3>1
    <3>3. j - 1 <= n
      BY <1>3, <3>1, <3>2
    <3> QED BY <1>2, <1>4, <3>3
  <2>2. CASE ~(j > 1)
    BY <1>2, <1>4, <2>2
  <2> QED BY <2>1, <2>2
<1> QED BY <1>1, <1>2, <1>4, <1>5, <1>6

\* A scenario is begun: nothing is played yet.
LEMMA OpensKeeps ==
    ASSUME NEW s \in RawScenario, NEW made, NEW T, made \in Seq(T), Numbered(made, Len(s.turns)),
           Opens(s, made)
    PROVE  SandboxInv'
<1>1. /\ raw' = s /\ script' = made /\ pos' = 1 /\ turns' = << >>
      /\ \/ stage' = "over" /\ outcome' = "skipped"
         \/ stage' = "playing"
  BY DEF Opens
<1>2. CASE stage' = "over" /\ outcome' = "skipped"
  BY <1>2 DEF SandboxInv, Stages
<1>3. CASE stage' = "playing"
  <2>1. turns' \in Seq(TurnResult) /\ Len(turns') = 0
    BY <1>1
  <2>2. Len(s.turns) \in Nat
    <3>1. s.turns \in Seq(RawTurn)
      BY DEF RawScenario
    <3> QED BY <3>1
  <2>3. TurnsAreTrue'
    <3>1. Len(turns') <= Len(raw'.turns)
      BY <1>1, <2>1, <2>2
    <3> QED BY <1>1, <2>1, <3>1 DEF TurnsAreTrue
  <2>4. \A p \in 1 .. Len(made) : ~(p < 1)
    OBVIOUS
  <2>5. ScriptIsTrue'
    <3>1. (\E V : script' \in Seq(V)) /\ Numbered(script', Len(raw'.turns)) /\ pos' \in Nat \ {0}
      BY <1>1
    <3>2. \A p \in 1 .. Len(script') : p < pos' => script'[p].turn <= Len(turns')
      BY <1>1, <2>4
    <3>3. ~(Len(turns') > 0)
      BY <2>1
    <3> QED BY <3>1, <3>2, <3>3 DEF ScriptIsTrue, Numbered
  <2> QED BY <1>3, <2>3, <2>5 DEF SandboxInv, Stages
<1> QED BY <1>1, <1>2, <1>3

LEMMA StartsKeep ==
    ASSUME (\E s \in Played : Begin(s)) \/ (\E s \in Continuations : Continue(s))
    PROVE  SandboxInv'
<1>1. PICK s, firstId, time : s \in Played \cup Continuations /\
         LET b == ParseScenario(s, firstId, time) IN IF b.ok THEN Opens(s, b.made) ELSE Refused(s)
  BY DEF Begin, Continue
<1>2. s \in RawScenario
  BY <1>1, LabSandboxAssumption
<1>3. PICK b : b = ParseScenario(s, firstId, time)
  OBVIOUS
<1>4. CASE b.ok
  <2>1. Opens(s, b.made)
    BY <1>1, <1>3, <1>4
  <2>2. \E T : b.made \in Seq(T) /\ Numbered(b.made, Len(s.turns))
    BY <1>2, <1>3, <1>4, ParsedIsBuilt
  <2>3. PICK made : made = b.made
    OBVIOUS
  <2>4. PICK T : made \in Seq(T) /\ Numbered(made, Len(s.turns))
    BY <2>2, <2>3
  <2> QED BY <1>2, <2>1, <2>3, <2>4, OpensKeeps
<1>5. CASE ~b.ok
  <2>1. Refused(s)
    BY <1>1, <1>3, <1>5
  <2>2. stage' = "over" /\ outcome' = "skipped"
    BY <2>1 DEF Refused
  <2> QED BY <2>2 DEF SandboxInv, Stages
<1> QED BY <1>4, <1>5

\* What changes neither the scenario nor the results
LEMMA SameTurns ==
    ASSUME UNCHANGED raw, UNCHANGED turns
    PROVE  (TurnsAreTrue => TurnsAreTrue') /\ (AttemptOutcome' = AttemptOutcome)
<1>1. TurnsAreTrue => TurnsAreTrue'
  BY DEF TurnsAreTrue
<1>2. AttemptOutcome' = AttemptOutcome
  BY DEF AttemptOutcome
<1> QED BY <1>1, <1>2

LEMMA QuietSteps ==
    ASSUME SandboxInv, DeliverReminders \/ Ask \/ UNCHANGED sandboxVars
    PROVE  SandboxInv'
<1>1. UNCHANGED raw /\ UNCHANGED script /\ UNCHANGED pos /\ UNCHANGED turns /\ UNCHANGED outcome
  BY DEF DeliverReminders, Ask, sandboxVars
<1>2. AttemptOutcome' = AttemptOutcome /\ (TurnsAreTrue => TurnsAreTrue')
  BY <1>1, SameTurns
<1>3. ScriptIsTrue => ScriptIsTrue'
  BY <1>1 DEF ScriptIsTrue, Numbered
<1>4. CASE UNCHANGED stage
  BY <1>1, <1>2, <1>3, <1>4 DEF SandboxInv
<1>5. CASE Ask
  <2>1. stage = "playing" /\ stage' = "asking" /\ pos <= Len(script) /\ script[pos].turn # Unset
    BY <1>5 DEF Ask, Coming
  <2>2. TurnsAreTrue' /\ ScriptIsTrue'
    BY <1>2, <1>3, <2>1 DEF SandboxInv
  <2>3. pos \in 1 .. Len(script)
    <3>1. ScriptIsTrue
      BY <2>1 DEF SandboxInv
    <3>2. PICK T : script \in Seq(T)
      BY <3>1 DEF ScriptIsTrue
    <3>3. Len(script) \in Nat
      BY <3>2
    <3>4. pos \in Nat \ {0}
      BY <3>1 DEF ScriptIsTrue
    <3> QED BY <2>1, <3>3, <3>4
  <2> QED BY <1>1, <2>1, <2>2, <2>3 DEF SandboxInv, Stages
<1> QED BY <1>4, <1>5 DEF DeliverReminders, sandboxVars

LEMMA ReceiveKeeps ==
    ASSUME SandboxInv, Receive
    PROVE  SandboxInv'
<1>1. /\ stage = "playing" /\ stage' = "playing" /\ pos' = pos + 1 /\ pos <= Len(script)
      /\ script[pos].turn = 0
      /\ UNCHANGED raw /\ UNCHANGED script /\ UNCHANGED turns
  BY DEF Receive, Coming, Unset
<1>2. TurnsAreTrue /\ ScriptIsTrue
  BY <1>1 DEF SandboxInv
<1>3. TurnsAreTrue'
  BY <1>1, <1>2, SameTurns
<1>4. pos \in Nat \ {0} /\ pos' \in Nat \ {0}
  BY <1>1, <1>2 DEF ScriptIsTrue
<1>5. Len(turns) \in Nat
  BY <1>2 DEF TurnsAreTrue
<1>6. ASSUME NEW p \in 1 .. Len(script), p < pos' PROVE script[p].turn <= Len(turns)
  <2>1. CASE p = pos
    BY <1>1, <1>5, <2>1
  <2>2. CASE p # pos
    <3>1. p < pos
      BY <1>1, <1>4, <1>6, <2>2
    <3> QED BY <1>2, <3>1 DEF ScriptIsTrue
  <2> QED BY <2>1, <2>2
<1>7. ASSUME Len(turns) > 0
      PROVE  \E p \in 1 .. Len(script) : p < pos' /\ script[p].turn = Len(turns)
  <2>1. PICK p \in 1 .. Len(script) : p < pos /\ script[p].turn = Len(turns)
    BY <1>2, <1>7 DEF ScriptIsTrue
  <2>2. p < pos'
    BY <1>1, <1>4, <2>1
  <2> QED BY <2>1, <2>2
<1>8. (\E T : script \in Seq(T)) /\ Numbered(script, Len(raw.turns))
  BY <1>2 DEF ScriptIsTrue
<1>9. ScriptIsTrue'
  BY <1>1, <1>4, <1>6, <1>7, <1>8 DEF ScriptIsTrue, Numbered
<1> QED BY <1>1, <1>3, <1>9 DEF SandboxInv, Stages

\* What a turn comes to is a result of the model's answer.
LEMMA AnsweredIs ==
    ASSUME NEW t, NEW a \in TurnAnswer, NEW v \in AttemptOutcomes
    PROVE  /\ [Answered(t, a) EXCEPT !.outcome = v] \in TurnResult
           /\ [Answered(t, a) EXCEPT !.outcome = v].outcome = v
           /\ [Answered(t, a) EXCEPT !.outcome = v].how = Answered(t, a).how
           /\ [Answered(t, a) EXCEPT !.outcome = v].needed = Answered(t, a).needed
           /\ [Answered(t, a) EXCEPT !.outcome = v].fits = Answered(t, a).fits
<1>1. PICK how, sent, r : /\ r = Answered(t, a)
                          /\ how \in Hows \cup {"usage", "not addressed"} /\ sent \in BOOLEAN
                          /\ r = [how |-> how, fits |-> a.fits, needed |-> a.needed,
                                  blind |-> a.blind, lacking |-> a.lacking, sent |-> sent,
                                  outcome |-> "unjudged"]
  <2>1. a.how \in Hows
    BY DEF TurnAnswer
  <2>2. PICK h, w : /\ h = Answered(t, a).how
                    /\ w = (h \in {"answer", "infra", "stuck", "usage"})
    OBVIOUS
  <2>3. h \in Hows \cup {"usage", "not addressed"}
    BY <2>1, <2>2 DEF Answered, Hows
  <2>4. Answered(t, a).sent \in BOOLEAN
    BY DEF Answered
  <2>5. Answered(t, a) = [how |-> Answered(t, a).how, fits |-> a.fits, needed |-> a.needed,
                          blind |-> a.blind, lacking |-> a.lacking,
                          sent |-> Answered(t, a).sent, outcome |-> "unjudged"]
    BY DEF Answered
  <2> QED BY <2>2, <2>3, <2>4, <2>5
<1>2. /\ a.fits \in BOOLEAN /\ a.needed \in {"done", "failed", "not called"}
      /\ a.blind \in BOOLEAN /\ a.lacking \in BOOLEAN
  BY DEF TurnAnswer
<1>3. [r EXCEPT !.outcome = v] = [how |-> how, fits |-> a.fits, needed |-> a.needed,
                                  blind |-> a.blind, lacking |-> a.lacking, sent |-> sent,
                                  outcome |-> v]
  <2>1. PICK fits, needed, blind, lacking, none :
           /\ fits = a.fits /\ needed = a.needed /\ blind = a.blind /\ lacking = a.lacking
           /\ none = "unjudged"
    OBVIOUS
  <2>2. r = [how |-> how, fits |-> fits, needed |-> needed, blind |-> blind,
             lacking |-> lacking, sent |-> sent, outcome |-> none]
    BY <1>1, <2>1
  <2>3. [r EXCEPT !.outcome = v] = [how |-> how, fits |-> fits, needed |-> needed,
                                    blind |-> blind, lacking |-> lacking, sent |-> sent,
                                    outcome |-> v]
    BY <2>2
  <2> QED BY <2>1, <2>3
<1>4. [r EXCEPT !.outcome = v] \in TurnResult
  BY <1>1, <1>2, <1>3 DEF TurnResult
<1> QED BY <1>1, <1>3, <1>4

\* One more turn is judged.
LEMMA OneMoreJudged ==
    ASSUME TurnsAreTrue, ScriptIsTrue, pos \in 1 .. Len(script), script[pos].turn # Unset,
           NEW result \in TurnResult, Judged(result, RawTurnAt(Coming).expect),
           turns' = Append(turns, result), UNCHANGED raw, UNCHANGED script, pos' = pos + 1
    PROVE  TurnsAreTrue' /\ ScriptIsTrue'
<1>1. PICK n : n = Len(turns)
  OBVIOUS
<1>2. n \in Nat /\ Len(raw.turns) \in Nat /\ script[pos].turn = n + 1 /\ n + 1 <= Len(raw.turns)
  BY <1>1, NextTurnIs
<1>3. turns \in Seq(TurnResult)
  BY DEF TurnsAreTrue
<1>4. /\ turns' \in Seq(TurnResult) /\ Len(turns') = n + 1 /\ turns'[n + 1] = result
      /\ \A i \in 1 .. n : turns'[i] = turns[i]
  BY <1>1, <1>3, AppendProperties
<1>5. Judged(result, raw.turns[n + 1].expect)
  BY <1>2 DEF RawTurnAt, Coming
<1>6. ASSUME NEW i \in 1 .. n + 1 PROVE Judged(turns'[i], raw.turns[i].expect)
  <2>1. CASE i = n + 1
    BY <1>4, <1>5, <2>1
  <2>2. CASE i # n + 1
    <3>1. i \in 1 .. n
      BY <1>2, <2>2
    <3>2. Judged(turns[i], raw.turns[i].expect)
      BY <1>1, <3>1 DEF TurnsAreTrue
    <3> QED BY <1>4, <3>1, <3>2
  <2> QED BY <2>1, <2>2
<1>7. TurnsAreTrue'
  <2>1. raw' = raw /\ raw' \in RawScenario
    BY DEF TurnsAreTrue
  <2>2. Len(turns') <= Len(raw'.turns)
    BY <1>2, <1>4, <2>1
  <2>3. \A i \in 1 .. Len(turns') : Judged(turns'[i], raw'.turns[i].expect)
    BY <1>4, <1>6, <2>1
  <2> QED BY <1>4, <2>1, <2>2, <2>3 DEF TurnsAreTrue, Judged
<1>8. pos \in Nat \ {0} /\ pos' \in Nat \ {0} /\ pos < pos'
  BY DEF ScriptIsTrue
<1>9. ASSUME NEW p \in 1 .. Len(script), p < pos' PROVE script[p].turn <= n + 1
  <2>1. CASE p = pos
    BY <1>2, <2>1
  <2>2. CASE p # pos
    <3>1. p < pos
      BY <1>8, <1>9, <2>2
    <3>2. script[p].turn <= n
      BY <1>1, <3>1 DEF ScriptIsTrue
    <3>3. script[p].turn \in Nat
      BY <1>2 DEF ScriptIsTrue, Numbered
    <3> QED BY <1>2, <3>2, <3>3
  <2> QED BY <2>1, <2>2
<1>10. \E p \in 1 .. Len(script) : p < pos' /\ script[p].turn = n + 1
  BY <1>2, <1>8
<1>11. (\E T : script \in Seq(T)) /\ Numbered(script, Len(raw.turns))
  BY DEF ScriptIsTrue
<1>12. ScriptIsTrue'
  BY <1>4, <1>8, <1>9, <1>10, <1>11 DEF ScriptIsTrue, Numbered
<1> QED BY <1>7, <1>12

LEMMA JudgedKeeps ==
    ASSUME SandboxInv, NEW a \in Answers, AnswerTurn(a)
    PROVE  SandboxInv'
<1>1. PICK t, r, pending, v :
         /\ t = RawTurnAt(Coming) /\ r = Answered(t, a) /\ v = Verdict(t.expect, r, pending)
         /\ turns' = Append(turns, [r EXCEPT !.outcome = v])
         /\ stage' \in {"ending", "playing"}
  BY DEF AnswerTurn
<1>2. /\ stage = "asking" /\ pos' = pos + 1
      /\ UNCHANGED raw /\ UNCHANGED script
  BY DEF AnswerTurn
<1>3. TurnsAreTrue /\ ScriptIsTrue /\ pos \in 1 .. Len(script) /\ script[pos].turn # Unset
  BY <1>2 DEF SandboxInv
<1>4. a \in TurnAnswer
  BY LabSandboxAssumption
<1>5. /\ v \in AttemptOutcomes
      /\ v # "error" => r.how \notin {"infra", "notrun", "raised"}
      /\ v \in {"pass", "unjudged"} =>
            /\ r.how # "stuck"
            /\ "tool" \in t.expect => r.needed = "done"
            /\ "text" \in t.expect => r.fits
      /\ v = "pass" => t.expect # {}
  BY <1>1, VerdictSays
<1>6. PICK result : result = [r EXCEPT !.outcome = v]
  OBVIOUS
<1>7. /\ result \in TurnResult /\ result.outcome = v /\ result.how = r.how
      /\ result.needed = r.needed /\ result.fits = r.fits
  BY <1>1, <1>4, <1>5, <1>6, AnsweredIs
<1>8. Judged(result, RawTurnAt(Coming).expect)
  BY <1>1, <1>5, <1>7 DEF Judged
<1>9. turns' = Append(turns, result)
  BY <1>1, <1>6
<1>10. TurnsAreTrue' /\ ScriptIsTrue'
  BY <1>2, <1>3, <1>7, <1>8, <1>9, OneMoreJudged
<1> QED BY <1>1, <1>10 DEF SandboxInv, Stages

LEMMA SandboxSteps ==
    ASSUME SandboxInv, [SandboxNext]_sandboxVars
    PROVE  SandboxInv'
<1>1. CASE (\E s \in Played : Begin(s)) \/ (\E s \in Continuations : Continue(s))
  BY <1>1, StartsKeep
<1>2. CASE DeliverReminders \/ Ask \/ UNCHANGED sandboxVars
  BY <1>2, QuietSteps
<1>3. CASE Receive
  BY <1>3, ReceiveKeeps
<1>4. CASE \E a \in Answers : AnswerTurn(a)
  BY <1>4, JudgedKeeps
<1>5. CASE Finish
  <2>1. /\ stage = "ending" /\ stage' = "over" /\ outcome' = AttemptOutcome
        /\ UNCHANGED raw /\ UNCHANGED turns
    BY <1>5 DEF Finish
  <2>2. TurnsAreTrue' /\ AttemptOutcome' = AttemptOutcome
    BY <2>1, SameTurns DEF SandboxInv
  <2> QED BY <2>1, <2>2 DEF SandboxInv, Stages
<1> QED BY <1>1, <1>2, <1>3, <1>4, <1>5 DEF SandboxNext

LEMMA SandboxIsSound == SandboxSpec => []SandboxInv
<1>1. SandboxInit => SandboxInv
  BY DEF SandboxInit, SandboxInv, Stages
<1>2. SandboxInv /\ [SandboxNext]_sandboxVars => SandboxInv'
  BY SandboxSteps
<1> QED BY <1>1, <1>2, PTL DEF SandboxSpec

\* What an attempt is said to be follows from what each of its turns was.
LEMMA OutcomeFollows ==
    ASSUME SandboxInv
    PROVE  OutcomeIsTheModels
<1> SUFFICES ASSUME stage = "over", turns # << >>, outcome # "skipped"
             PROVE  OutcomeIsTheModels
  BY DEF OutcomeIsTheModels
<1>1. TurnsAreTrue /\ outcome = AttemptOutcome
  BY DEF SandboxInv
<1>2. PICK n, k, S : /\ n = Len(turns) /\ k = Len(raw.turns)
                     /\ S = {turns[i].outcome : i \in DOMAIN turns}
                            \cup IF Len(turns) < Len(raw.turns) THEN {"error"} ELSE {}
  OBVIOUS
<1>3. turns \in Seq(TurnResult) /\ raw.turns \in Seq(RawTurn)
  BY <1>1 DEF TurnsAreTrue, RawScenario
<1>4. n \in Nat \ {0} /\ k \in Nat /\ n <= k /\ DOMAIN turns = 1 .. n
  <2>1. n \in Nat /\ k \in Nat /\ DOMAIN turns = 1 .. n /\ n # 0
    BY <1>2, <1>3
  <2> QED BY <1>1, <1>2, <2>1 DEF TurnsAreTrue
<1>5. \A i \in 1 .. n : turns[i] \in TurnResult /\ Judged(turns[i], raw.turns[i].expect)
  BY <1>1, <1>2, <1>3, <1>4 DEF TurnsAreTrue
<1>6. S \in SUBSET AttemptOutcomes /\ S # {} /\ \A i \in 1 .. n : turns[i].outcome \in S
  <2>1. \A i \in 1 .. n : turns[i].outcome \in S
    BY <1>2, <1>4
  <2>2. \A i \in 1 .. n : turns[i].outcome \in AttemptOutcomes
    BY <1>5 DEF Judged
  <2>3. "error" \in AttemptOutcomes
    BY DEF AttemptOutcomes
  <2>4. 1 \in 1 .. n
    BY <1>4
  <2> QED BY <1>2, <1>4, <2>1, <2>2, <2>3, <2>4
<1>7. outcome = Combine(S)
  BY <1>1, <1>2 DEF AttemptOutcome
<1>8. /\ outcome = "pass" => S \subseteq {"pass", "unjudged"} /\ "pass" \in S
      /\ outcome \in {"fail", "action_failed"} => "error" \notin S
  BY <1>6, <1>7, CombineSays
<1>9. ASSUME outcome = "pass"
      PROVE  /\ Len(turns) = Len(raw.turns)
             /\ \A i \in DOMAIN turns :
                   /\ turns[i].how \in {"answer", "silent", "usage", "not addressed"}
                   /\ "tool" \in raw.turns[i].expect => turns[i].needed = "done"
                   /\ "text" \in raw.turns[i].expect => turns[i].fits
             /\ \E i \in DOMAIN turns : raw.turns[i].expect # {}
  <2>1. "error" \notin S
    BY <1>8, <1>9
  <2>2. n = k
    <3>1. ~(n < k)
      BY <1>2, <2>1
    <3> QED BY <1>4, <3>1
  <2>3. ASSUME NEW i \in 1 .. n
        PROVE  /\ turns[i].how \in {"answer", "silent", "usage", "not addressed"}
               /\ "tool" \in raw.turns[i].expect => turns[i].needed = "done"
               /\ "text" \in raw.turns[i].expect => turns[i].fits
    <3>1. turns[i].outcome \in {"pass", "unjudged"}
      BY <1>6, <1>8, <1>9
    <3>2. /\ turns[i].how \notin {"infra", "notrun", "raised", "stuck"}
          /\ "tool" \in raw.turns[i].expect => turns[i].needed = "done"
          /\ "text" \in raw.turns[i].expect => turns[i].fits
      BY <1>5, <3>1 DEF Judged
    <3>3. turns[i].how \in Hows \cup {"usage", "not addressed"}
      BY <1>5 DEF TurnResult
    <3> QED BY <3>2, <3>3 DEF Hows
  <2>4. \E i \in 1 .. n : raw.turns[i].expect # {}
    <3>1. "pass" \in S
      BY <1>8, <1>9
    <3>2. PICK i \in 1 .. n : turns[i].outcome = "pass"
      BY <1>2, <1>4, <2>1, <3>1
    <3> QED BY <1>5, <3>2 DEF Judged
  <2> QED BY <1>2, <1>4, <2>2, <2>3, <2>4
<1>10. ASSUME outcome \in {"fail", "action_failed"}, NEW i \in DOMAIN turns
       PROVE  turns[i].how \notin {"infra", "notrun", "raised"}
  <2>1. turns[i].outcome # "error"
    BY <1>4, <1>6, <1>8, <1>10
  <2> QED BY <1>4, <1>5, <2>1 DEF Judged
<1>11. ASSUME NEW i \in DOMAIN turns, turns[i].outcome \in {"fail", "action_failed"}
       PROVE  outcome # "pass"
  BY <1>4, <1>6, <1>8, <1>11
<1> QED BY <1>9, <1>10, <1>11 DEF OutcomeIsTheModels

\* An attempt passes only when every turn of its scenario was played to an end
\* of its own, did what was expected of it and one of them was checked at all;
\* it fails by the model's answers alone, and no turn that failed is lost in
\* its outcome: for every scenario, any answers and any number of attempts
\* (sandbox.py run(), checks.py combine()).
THEOREM OutcomesAreTheModels == SandboxSpec => []OutcomeIsTheModels
<1>1. SandboxInv => OutcomeIsTheModels
  BY OutcomeFollows
<1> QED BY <1>1, SandboxIsSound, PTL

-----------------------------------------------------------------------------
(* The chat *)

\* The messages of the script not yet said begin here.
Ahead == IF stage = "asking" THEN pos + 1 ELSE pos

ChatTyped ==
    /\ stage \in Stages /\ clock \in Int /\ heard \in Nat /\ nextBot \in Nat
    /\ script \in Seq(Parsed) /\ pos \in Nat \ {0}
    /\ IsFiniteSet(DOMAIN chat)
    /\ \A id \in DOMAIN chat : id \in Nat \ {0} /\ id < nextBot /\ chat[id].date \in Int
    /\ lastAnswer \in DOMAIN chat \cup {Unset}
    /\ IsFiniteSet(reminders) /\ reminders \subseteq Reminder
    /\ turns \in Seq(TurnResult) /\ outcome \in AttemptOutcomes \cup {""}
    /\ played \in 0 .. MaxPlayed /\ dated \in BOOLEAN /\ named \in BOOLEAN

NothingYet ==
    stage = "idle" => DOMAIN chat = {} /\ reminders = {} /\ saved = NotStarted /\ played = 0

\* What is still to be said has IDs of its own, below those of the bot.
IdsAreFree ==
    stage \in {"playing", "asking"} =>
        /\ \A p \in 1 .. Len(script) : script[p].id # Unset /\ script[p].id < nextBot
        /\ ~named =>
              /\ \A p, q \in 1 .. Len(script) : p < q => script[p].id # script[q].id
              /\ \A p \in 1 .. Len(script) : p >= Ahead => script[p].id \notin DOMAIN chat

\* The clock is behind every turn to come, and a turn behind no message
\* before it.
TimeIsAhead ==
    ~dated =>
        /\ stage = "ending" => clock >= DefaultStart
        /\ stage \in {"playing", "asking"} =>
              /\ \A p, q \in 1 .. Len(script) :
                    p < q /\ script[q].turn # Unset => script[p].date <= script[q].date
              /\ \A q \in 1 .. Len(script) :
                    script[q].turn # Unset =>
                        DefaultStart <= script[q].date /\ (q >= pos => clock <= script[q].date)

\* What is kept for a continuation is where this attempt ended.
SavedIsTrue ==
    stage = "over" /\ saved # NotStarted =>
        /\ saved.maxId \in Nat /\ saved.nextBot \in Nat /\ saved.clock \in Int
        /\ \A id \in DOMAIN chat : id <= saved.maxId /\ id < saved.nextBot
        /\ ~dated => saved.clock >= DefaultStart

\* A scenario's state has so many reminders.
RemindersEnd == stage \in {"playing", "asking"} => IsFiniteSet(raw.reminders)

ChatInv ==
    /\ RemindersEnd /\ ChatTyped /\ NothingYet /\ IdsAreFree /\ TimeIsAhead /\ SavedIsTrue
    /\ NothingIsOverwritten /\ AnsweredInItsTime
    /\ stage = "ending" => turns # << >>

\* What is made so far: IDs of their own, below the next one; from the first on if
\* none is given.
Placed(b, from, anon) ==
    \E m, n, o :
        /\ b = [made |-> m, next |-> n, ok |-> o] /\ m \in Seq(Parsed) /\ n \in Nat
        /\ o \in BOOLEAN /\ from \in Nat \ {0} /\ from <= n
        /\ \A p \in 1 .. Len(m) : m[p].id \in Nat \ {0} /\ m[p].id < n
        /\ \A p, q \in 1 .. Len(m) : p < q => m[p].id # m[q].id
        /\ anon => \A p \in 1 .. Len(m) : m[p].id >= from

LEMMA PlacedIs ==
    ASSUME NEW b, NEW from, NEW anon, Placed(b, from, anon)
    PROVE  /\ b = [made |-> b.made, next |-> b.next, ok |-> b.ok]
           /\ b.made \in Seq(Parsed) /\ b.next \in Nat /\ b.ok \in BOOLEAN
           /\ from \in Nat \ {0} /\ from <= b.next
           /\ \A p \in 1 .. Len(b.made) : b.made[p].id \in Nat \ {0} /\ b.made[p].id < b.next
           /\ \A p, q \in 1 .. Len(b.made) : p < q => b.made[p].id # b.made[q].id
           /\ anon => \A p \in 1 .. Len(b.made) : b.made[p].id >= from
<1>1. PICK m, n, o :
        /\ b = [made |-> m, next |-> n, ok |-> o] /\ m \in Seq(Parsed) /\ n \in Nat
        /\ o \in BOOLEAN /\ from \in Nat \ {0} /\ from <= n
        /\ \A p \in 1 .. Len(m) : m[p].id \in Nat \ {0} /\ m[p].id < n
        /\ \A p, q \in 1 .. Len(m) : p < q => m[p].id # m[q].id
        /\ anon => \A p \in 1 .. Len(m) : m[p].id >= from
  BY DEF Placed
<1>2. b.made = m /\ b.next = n /\ b.ok = o
  BY <1>1
<1> QED BY <1>1, <1>2

LEMMA LastDateIs ==
    ASSUME NEW b, NEW from, NEW anon, Placed(b, from, anon)
    PROVE  /\ Len(b.made) \in Nat /\ LastDate(b) \in Int
           /\ b.made # << >> => Len(b.made) > 0 /\ LastDate(b) = b.made[Len(b.made)].date
<1>1. PICK m : m = b.made /\ m \in Seq(Parsed)
  BY PlacedIs
<1>2. Len(m) \in Nat /\ (m # << >> => Len(m) > 0 /\ m[Len(m)] \in Parsed)
  BY <1>1
<1>3. m # << >> => LastDate(b) = m[Len(m)].date
  BY <1>1 DEF LastDate, Last
<1>4. m = << >> => LastDate(b) = 0
  BY <1>1 DEF LastDate, Unset
<1>5. m # << >> => m[Len(m)].date \in Int
  BY <1>2 DEF Parsed
<1> QED BY <1>1, <1>2, <1>3, <1>4, <1>5

\* Where no ID is given the next one is free.
LEMMA NextIsFree ==
    ASSUME NEW b, NEW from, NEW anon, Placed(b, from, anon), NEW given \in Nat
    PROVE  IdFor(b, given) = IF given = 0 THEN b.next ELSE given
<1>1. CASE given # 0
  BY <1>1 DEF IdFor, Or, Unset
<1>2. CASE given = 0
  <2>1. PICK n, k : n = b.next /\ k = Len(b.made) /\ n \in Nat /\ k \in Nat
    BY PlacedIs, LastDateIs
  <2>2. n \notin Ids(b)
    <3>1. DOMAIN b.made = 1 .. Len(b.made)
      BY PlacedIs
    <3>2. \A p \in 1 .. Len(b.made) : b.made[p].id < b.next
      BY PlacedIs
    <3> QED BY <2>1, <3>1, <3>2 DEF Ids
  <2>3. n \in n .. n + k /\ \A other \in n .. n - 1 : other \in Ids(b)
    BY <2>1
  <2>4. ASSUME NEW id \in n .. n + k, \A other \in n .. id - 1 : other \in Ids(b) PROVE id = n
    <3>1. ~(n < id)
      BY <2>1, <2>2, <2>4
    <3> QED BY <2>1, <2>4, <3>1
  <2>5. (CHOOSE id \in n .. n + k : /\ id \notin Ids(b)
                                    /\ \A other \in n .. id - 1 : other \in Ids(b)) = n
    BY <2>2, <2>3, <2>4
  <2>6. IdFor(b, given) = CHOOSE id \in n .. n + k :
                              /\ id \notin Ids(b) /\ \A other \in n .. id - 1 : other \in Ids(b)
    BY <1>2, <2>1 DEF IdFor, Or, Unset
  <2> QED BY <1>2, <2>1, <2>5, <2>6
<1> QED BY <1>1, <1>2

\* The message is refused, or it is the last of what is made.
NoMore(b, c) == c.ok = FALSE /\ c = [made |-> b.made, next |-> b.next, ok |-> FALSE]
OneMore(b, c, msg, default, t, e, next) ==
    /\ b.ok /\ e \in Parsed /\ e.turn = t
    /\ e.id = (IF msg.id = 0 THEN b.next ELSE msg.id) /\ e.id \notin Ids(b)
    /\ e.date = Or(Or(msg.date, default), DefaultStart)
    /\ next = (IF e.id >= b.next THEN e.id + 1 ELSE b.next)
    /\ c = [made |-> Append(b.made, e), next |-> next, ok |-> TRUE]

LEMMA AddedIs ==
    ASSUME NEW b, NEW from, NEW anon, Placed(b, from, anon),
           NEW msg, msg.id \in Nat, msg.date \in Nat, msg.bot \in BOOLEAN, msg.to \in Nat,
           NEW default \in Int, NEW t \in Nat
    PROVE  LET c == AddMessage(b, msg, default, t)
           IN  NoMore(b, c) \/ \E e, next : OneMore(b, c, msg, default, t, e, next)
<1>1. PICK c, m, n, o, id, date :
         /\ c = AddMessage(b, msg, default, t) /\ m = b.made /\ n = b.next /\ o = b.ok
         /\ id = IdFor(b, msg.id) /\ date = Or(Or(msg.date, default), DefaultStart)
  OBVIOUS
<1>2. b = [made |-> m, next |-> n, ok |-> o] /\ n \in Nat /\ o \in BOOLEAN
  BY <1>1, PlacedIs
<1>3. id = (IF msg.id = 0 THEN n ELSE msg.id) /\ id \in Nat
  <2>1. id = (IF msg.id = 0 THEN n ELSE msg.id)
    BY <1>1, NextIsFree
  <2> QED BY <1>2, <2>1
<1>4. date \in Int
  BY <1>1, LabScenarioAssumption DEF Or
<1>5. CASE ~b.ok \/ id \in Ids(b) \/ (msg.to # Unset /\ msg.to \notin Ids(b))
  <2>1. PICK no : no = FALSE
    OBVIOUS
  <2>2. c = [b EXCEPT !.ok = no]
    BY <1>1, <1>5, <2>1 DEF AddMessage
  <2>3. c = [made |-> m, next |-> n, ok |-> no]
    BY <1>2, <2>2
  <2>4. c.ok = FALSE
    BY <2>1, <2>3
  <2>5. NoMore(b, c)
    BY <1>1, <2>1, <2>3, <2>4 DEF NoMore
  <2> QED BY <1>1, <2>5
<1>6. CASE ~(~b.ok \/ id \in Ids(b) \/ (msg.to # Unset /\ msg.to \notin Ids(b)))
  <2>1. PICK e, next, s :
            /\ e = [id |-> id, date |-> date, bot |-> msg.bot, to |-> msg.to, turn |-> t]
            /\ next = (IF id >= n THEN id + 1 ELSE n) /\ s = Append(m, e)
    OBVIOUS
  <2>2. c = [b EXCEPT !.made = s, !.next = next]
    BY <1>1, <1>6, <2>1 DEF AddMessage
  <2>3. c = [made |-> s, next |-> next, ok |-> o] /\ o = TRUE
    BY <1>1, <1>2, <1>6, <2>2
  <2>4. e \in Parsed /\ e.id = id /\ e.date = date /\ e.turn = t
    BY <1>3, <1>4, <2>1 DEF Parsed
  <2>5. c = [made |-> s, next |-> next, ok |-> TRUE]
    BY <2>3
  <2>6. OneMore(b, c, msg, default, t, e, next)
    BY <1>1, <1>3, <1>6, <2>1, <2>4, <2>5 DEF OneMore
  <2> QED BY <1>1, <2>6
<1> QED BY <1>5, <1>6

LEMMA AddedIsPlaced ==
    ASSUME NEW b, NEW from, NEW anon, Placed(b, from, anon),
           NEW msg, msg.id \in Nat, msg.date \in Nat, msg.bot \in BOOLEAN, msg.to \in Nat,
           anon => msg.id = 0, NEW default \in Int, NEW t \in Nat
    PROVE  Placed(AddMessage(b, msg, default, t), from, anon)
<1>1. PICK c, m, n, l : /\ c = AddMessage(b, msg, default, t) /\ m = b.made /\ n = b.next
                        /\ l = Len(m)
  OBVIOUS
<1>2. /\ m \in Seq(Parsed) /\ n \in Nat /\ from \in Nat \ {0} /\ from <= n
      /\ \A p \in 1 .. Len(m) : m[p].id \in Nat \ {0} /\ m[p].id < n
      /\ \A p, q \in 1 .. Len(m) : p < q => m[p].id # m[q].id
      /\ anon => \A p \in 1 .. Len(m) : m[p].id >= from
  BY <1>1, PlacedIs
<1>3. CASE NoMore(b, c)
  <2>1. PICK no : no = FALSE
    OBVIOUS
  <2>2. c = [made |-> m, next |-> n, ok |-> no] /\ no \in BOOLEAN
    BY <1>1, <1>3, <2>1 DEF NoMore
  <2>3. Placed(c, from, anon)
    BY <1>2, <2>2 DEF Placed
  <2> QED BY <1>1, <2>3
<1>4. ASSUME NEW e, NEW next, OneMore(b, c, msg, default, t, e, next)
      PROVE  Placed(c, from, anon)
  <2>1. PICK s, yes : s = Append(m, e) /\ yes = TRUE
    OBVIOUS
  <2>2. c = [made |-> s, next |-> next, ok |-> yes] /\ yes \in BOOLEAN
    BY <1>1, <1>4, <2>1 DEF OneMore
  <2>3. l \in Nat /\ s \in Seq(Parsed) /\ Len(s) = l + 1 /\ s[l + 1] = e
        /\ \A p \in 1 .. l : s[p] = m[p]
    BY <1>1, <1>2, <1>4, <2>1, AppendProperties DEF OneMore
  <2>4. e.id \in Nat \ {0} /\ e.id < next /\ next \in Nat /\ n <= next /\ (anon => e.id = n)
    BY <1>1, <1>2, <1>4 DEF OneMore
  <2>5. \A p \in 1 .. l : m[p].id # e.id
    <3>1. DOMAIN b.made = 1 .. l
      BY <1>1, <1>2
    <3> QED BY <1>1, <1>4, <3>1 DEF Ids, OneMore
  <2>6. ASSUME NEW p \in 1 .. l + 1
        PROVE  s[p].id \in Nat \ {0} /\ s[p].id < next /\ (anon => s[p].id >= from)
    <3>1. CASE p = l + 1
      BY <1>2, <2>3, <2>4, <3>1
    <3>2. CASE p # l + 1
      <4>1. p \in 1 .. l /\ s[p] = m[p]
        BY <2>3, <3>2
      <4>2. m[p].id \in Nat \ {0} /\ m[p].id < n /\ (anon => m[p].id >= from)
        BY <1>1, <1>2, <4>1
      <4> QED BY <1>2, <2>4, <4>1, <4>2
    <3> QED BY <3>1, <3>2
  <2>7. ASSUME NEW p \in 1 .. l + 1, NEW q \in 1 .. l + 1, p < q PROVE s[p].id # s[q].id
    <3>1. p \in 1 .. l /\ s[p] = m[p]
      BY <2>3, <2>7
    <3>2. CASE q = l + 1
      BY <2>3, <2>5, <3>1, <3>2
    <3>3. CASE q # l + 1
      <4>1. q \in 1 .. l /\ s[q] = m[q]
        BY <2>3, <3>3
      <4> QED BY <1>1, <1>2, <2>7, <3>1, <4>1
    <3> QED BY <3>2, <3>3
  <2>8. from <= next
    BY <1>2, <2>4
  <2>9. /\ \A p \in 1 .. Len(s) : s[p].id \in Nat \ {0} /\ s[p].id < next
        /\ \A p, q \in 1 .. Len(s) : p < q => s[p].id # s[q].id
        /\ anon => \A p \in 1 .. Len(s) : s[p].id >= from
    BY <2>3, <2>6, <2>7
  <2> QED BY <1>2, <2>2, <2>3, <2>4, <2>8, <2>9 DEF Placed
<1> QED BY <1>1, <1>3, <1>4, AddedIs

LEMMA RunStaysPlaced ==
    ASSUME NEW b, NEW from, NEW anon, Placed(b, from, anon), NEW raws \in Seq(RawMessage),
           anon => \A i \in 1 .. Len(raws) : raws[i].id = 0,
           NEW start \in Int, NEW end \in Int,
           NEW f, RunSteps(f, b, raws, start, end, Len(raws), Len(raws))
    PROVE  \A i \in 0 .. Len(raws) : Placed(f[i], from, anon)
<1>1. PICK k : k = Len(raws)
  OBVIOUS
<1>2. k \in Nat /\ \A i \in 1 .. k : raws[i] \in RawMessage
  BY <1>1
<1>3. \A i \in 0 .. k :
         f[i] = IF i = 0 THEN b
                ELSE AddMessage(f[i - 1], raws[i], RunDate(f[i - 1], i, k, start, end), Unset)
  BY <1>1, Zenon DEF RunSteps
<1> DEFINE S == {i \in 0 .. k : ~Placed(f[i], from, anon)}
<1>4. S = {}
  <2> SUFFICES ASSUME S # {} PROVE FALSE
    OBVIOUS
  <2>1. PICK i \in S : \A h \in S : i <= h
    <3>1. S \in SUBSET Nat
      BY <1>2
    <3> HIDE DEF S
    <3> QED BY <3>1, LeastNat
  <2>2. i \in 0 .. k /\ ~Placed(f[i], from, anon)
    BY <2>1
  <2>3. i # 0
    <3>1. 0 \in 0 .. k
      BY <1>2
    <3>2. f[0] = b
      BY <1>3, <3>1
    <3> QED BY <2>2, <3>2
  <2>4. i - 1 \in 0 .. k /\ i - 1 \notin S /\ i \in 1 .. k
    BY <1>2, <2>1, <2>2, <2>3
  <2>5. PICK g, msg, date : /\ g = f[i - 1] /\ msg = raws[i]
                            /\ date = RunDate(g, i, k, start, end)
    OBVIOUS
  <2>6. Placed(g, from, anon)
    BY <2>4, <2>5
  <2>7. f[i] = AddMessage(g, msg, date, 0)
    BY <1>3, <2>2, <2>3, <2>5 DEF Unset
  <2>8. msg.id \in Nat /\ msg.date \in Nat /\ msg.bot \in BOOLEAN /\ msg.to \in Nat
    BY <1>2, <2>4, <2>5 DEF RawMessage
  <2>9. anon => msg.id = 0
    BY <1>1, <2>4, <2>5
  <2>10. date \in Int
    <3>1. LastDate(g) \in Int
      BY <2>6, LastDateIs
    <3>2. Minute \in Int /\ (k + 1 - i) * Minute \in Int
      BY <1>2, <2>4, LabScenarioAssumption
    <3> QED BY <2>5, <3>1, <3>2 DEF RunDate
  <2>11. Placed(AddMessage(g, msg, date, 0), from, anon)
    BY <2>6, <2>8, <2>9, <2>10, AddedIsPlaced
  <2> QED BY <2>2, <2>7, <2>11
<1> QED BY <1>1, <1>4

LEMMA RunIsPlaced ==
    ASSUME NEW b, NEW from, NEW anon, Placed(b, from, anon), NEW raws \in Seq(RawMessage),
           anon => \A i \in 1 .. Len(raws) : raws[i].id = 0,
           NEW start \in Int, NEW end \in Int
    PROVE  Placed(DatedRun(b, raws, start, end), from, anon)
<1>1. PICK k : k = Len(raws)
  OBVIOUS
<1>2. k \in Nat
  BY <1>1
<1>3. PICK f : RunSteps(f, b, raws, start, end, k, k) /\ DatedRun(b, raws, start, end) = f[k]
  BY <1>1, <1>2, RunIsSteps
<1>4. RunSteps(f, b, raws, start, end, Len(raws), Len(raws))
  BY <1>1, <1>3, Zenon
<1>5. \A i \in 0 .. Len(raws) : Placed(f[i], from, anon)
  BY <1>4, RunStaysPlaced
<1>6. k \in 0 .. Len(raws)
  BY <1>1, <1>2
<1> QED BY <1>3, <1>5, <1>6

LEMMA TurnDatesAre ==
    ASSUME NEW b, NEW from, NEW anon, Placed(b, from, anon), NEW t \in RawTurn,
           anon => \A i \in 1 .. Len(t.before) : t.before[i].id = 0,
           NEW time \in Int, NEW turnDate \in Int
    PROVE  /\ Placed(TurnDates(b, t, time, turnDate).built, from, anon)
           /\ TurnDates(b, t, time, turnDate).when \in Int
<1>1. /\ t.date \in Nat /\ t.after \in Nat /\ t.before \in Seq(RawMessage)
      /\ Minute \in Int /\ DefaultStart \in Int
  <2>1. t.date \in Nat /\ t.after \in Nat
    BY DEF RawTurn
  <2>2. t.before \in Seq(RawMessage)
    BY DEF RawTurn
  <2> QED BY <2>1, <2>2, LabScenarioAssumption
<1>2. PICK explicit, start, ran :
        /\ explicit = IF t.date # Unset THEN t.date
                      ELSE IF t.after # Unset THEN turnDate + t.after ELSE Unset
        /\ start = IF explicit = Unset THEN turnDate + Minute ELSE Unset
        /\ ran = DatedRun(b, t.before, start, explicit)
  OBVIOUS
<1>3. explicit \in Int /\ start \in Int
  BY <1>1, <1>2 DEF Unset
<1>4. Placed(ran, from, anon)
  BY <1>1, <1>2, <1>3, RunIsPlaced
<1>5. LastDate(ran) \in Int /\ LastDate(b) \in Int
  BY <1>4, LastDateIs
<1>6. TurnDates(b, t, time, turnDate) =
        IF turnDate = Unset
        THEN [built |-> b,
              when |-> Or(Or(t.date, time),
                          IF b.made # << >> THEN LastDate(b) + Minute ELSE DefaultStart)]
        ELSE [built |-> ran,
              when |-> Or(explicit, Minute + IF t.before # << >> THEN LastDate(ran) ELSE turnDate)]
  BY <1>2 DEF TurnDates
<1>7. \A x, y \in Int : Or(x, y) \in Int
  BY DEF Or
<1>8. CASE turnDate = Unset
  <2>1. PICK w : w = Or(Or(t.date, time), IF b.made # << >> THEN LastDate(b) + Minute ELSE DefaultStart)
    OBVIOUS
  <2>2. w \in Int
    <3>1. Or(t.date, time) \in Int
      BY <1>1 DEF Or
    <3>2. (IF b.made # << >> THEN LastDate(b) + Minute ELSE DefaultStart) \in Int
      BY <1>1, <1>5
    <3> QED BY <1>7, <2>1, <3>1, <3>2
  <2>3. TurnDates(b, t, time, turnDate) = [built |-> b, when |-> w]
    BY <1>6, <1>8, <2>1
  <2> QED BY <2>2, <2>3
<1>9. CASE turnDate # Unset
  <2>1. PICK w : w = Or(explicit, Minute + IF t.before # << >> THEN LastDate(ran) ELSE turnDate)
    OBVIOUS
  <2>2. w \in Int
    <3>1. Minute + (IF t.before # << >> THEN LastDate(ran) ELSE turnDate) \in Int
      BY <1>1, <1>5
    <3> QED BY <1>3, <1>7, <2>1, <3>1
  <2>3. TurnDates(b, t, time, turnDate) = [built |-> ran, when |-> w]
    BY <1>6, <1>9, <2>1
  <2> QED BY <1>4, <2>2, <2>3
<1> QED BY <1>8, <1>9

\* What a turn adds, or that it is refused
LEMMA TurnIs ==
    ASSUME NEW b, NEW from, NEW anon, Placed(b, from, anon), NEW t \in RawTurn,
           anon => t.id = 0 /\ \A i \in 1 .. Len(t.before) : t.before[i].id = 0,
           NEW time \in Int, NEW i \in Nat, NEW continues
    PROVE  LET turnDate == IF i = 1 THEN Unset ELSE LastDate(b)
               dates == TurnDates(b, t, time, turnDate)
               added == AddMessage(dates.built, t, dates.when, i)
               c == AddTurn(b, t, i, time, continues)
           IN  /\ Placed(dates.built, from, anon) /\ dates.when \in Int /\ turnDate \in Int
               /\ Placed(added, from, anon) /\ Placed(c, from, anon)
               /\ c.ok => c = added /\ dates.when >= turnDate
<1>1. PICK turnDate : turnDate = IF i = 1 THEN Unset ELSE LastDate(b)
  OBVIOUS
<1>2. turnDate \in Int
  <2>1. LastDate(b) \in Int
    BY LastDateIs
  <2> QED BY <1>1, <2>1 DEF Unset
<1>3. PICK built, when : /\ built = TurnDates(b, t, time, turnDate).built
                         /\ when = TurnDates(b, t, time, turnDate).when
  OBVIOUS
<1>4. Placed(built, from, anon) /\ when \in Int
  <2>1. Placed(TurnDates(b, t, time, turnDate).built, from, anon)
    BY <1>2, TurnDatesAre
  <2>2. TurnDates(b, t, time, turnDate).when \in Int
    BY <1>2, TurnDatesAre
  <2> QED BY <1>3, <2>1, <2>2
<1>5. PICK added : added = AddMessage(built, t, when, i)
  OBVIOUS
<1>6. Placed(added, from, anon)
  <2>1. t.id \in Nat /\ t.date \in Nat /\ t.bot \in BOOLEAN /\ t.to \in Nat
    BY DEF RawTurn
  <2>2. Placed(AddMessage(built, t, when, i), from, anon)
    BY <1>4, <2>1, AddedIsPlaced
  <2> QED BY <1>5, <2>2
<1>7. PICK no : no = FALSE
  OBVIOUS
<1>8. [added EXCEPT !.ok = no] = [made |-> added.made, next |-> added.next, ok |-> no]
  <2>1. added = [made |-> added.made, next |-> added.next, ok |-> added.ok]
    BY <1>6, PlacedIs
  <2>2. PICK m, n, o : m = added.made /\ n = added.next /\ o = added.ok
    OBVIOUS
  <2>3. added = [made |-> m, next |-> n, ok |-> o]
    BY <2>1, <2>2
  <2>4. [added EXCEPT !.ok = no] = [made |-> m, next |-> n, ok |-> no]
    BY <2>3
  <2> QED BY <2>2, <2>4
<1>9. PICK refused : refused = [made |-> added.made, next |-> added.next, ok |-> no]
  OBVIOUS
<1>10. Placed(refused, from, anon) /\ refused.ok = FALSE
  <2>1. PICK m, n : m = added.made /\ n = added.next
    OBVIOUS
  <2>2. /\ m \in Seq(Parsed) /\ n \in Nat /\ from \in Nat \ {0} /\ from <= n
        /\ \A p \in 1 .. Len(m) : m[p].id \in Nat \ {0} /\ m[p].id < n
        /\ \A p, q \in 1 .. Len(m) : p < q => m[p].id # m[q].id
        /\ anon => \A p \in 1 .. Len(m) : m[p].id >= from
    BY <1>6, <2>1, PlacedIs
  <2>3. refused = [made |-> m, next |-> n, ok |-> no] /\ no \in BOOLEAN
    BY <1>7, <1>9, <2>1
  <2>4. refused.ok = FALSE
    BY <1>7, <2>3
  <2> QED BY <2>2, <2>3, <2>4 DEF Placed
<1>11. PICK c : c = AddTurn(b, t, i, time, continues)
  OBVIOUS
<1>12. \/ c = added /\ when >= turnDate
       \/ c = refused
  BY <1>1, <1>3, <1>5, <1>7, <1>8, <1>9, <1>11 DEF AddTurn
<1>13. Placed(c, from, anon) /\ (c.ok => c = added /\ when >= turnDate)
  BY <1>6, <1>10, <1>12
<1> QED BY <1>1, <1>2, <1>3, <1>4, <1>5, <1>6, <1>11, <1>13

LEMMA ParseStaysPlaced ==
    ASSUME NEW chat0, NEW from, NEW anon, Placed(chat0, from, anon), NEW s \in RawScenario,
           anon => ~OwnIds(s), NEW time \in Int,
           NEW f, ParseSteps(f, chat0, s, time, Len(s.turns))
    PROVE  \A i \in 0 .. Len(s.turns) : Placed(f[i], from, anon)
<1>1. PICK k : k = Len(s.turns)
  OBVIOUS
<1>2. k \in Nat /\ \A i \in 1 .. k : s.turns[i] \in RawTurn /\ i \in DOMAIN s.turns
  <2>1. s.turns \in Seq(RawTurn)
    BY DEF RawScenario
  <2> QED BY <1>1, <2>1
<1>3. \A i \in 0 .. k :
        f[i] = IF i = 0 THEN chat0
               ELSE IF f[i - 1].ok THEN AddTurn(f[i - 1], s.turns[i], i, time, s.continues)
               ELSE f[i - 1]
  BY <1>1, Zenon DEF ParseSteps
<1> DEFINE S == {i \in 0 .. k : ~Placed(f[i], from, anon)}
<1>4. S = {}
  <2> SUFFICES ASSUME S # {} PROVE FALSE
    OBVIOUS
  <2>1. PICK i \in S : \A h \in S : i <= h
    <3>1. S \in SUBSET Nat
      BY <1>2
    <3> HIDE DEF S
    <3> QED BY <3>1, LeastNat
  <2>2. i \in 0 .. k /\ ~Placed(f[i], from, anon)
    BY <2>1
  <2>3. i # 0
    <3>1. 0 \in 0 .. k
      BY <1>2
    <3>2. f[0] = chat0
      BY <1>3, <3>1
    <3> QED BY <2>2, <3>2
  <2>4. i - 1 \in 0 .. k /\ i - 1 \notin S /\ i \in 1 .. k /\ i \in Nat
    BY <1>2, <2>1, <2>2, <2>3
  <2>5. PICK g, t : g = f[i - 1] /\ t = s.turns[i]
    OBVIOUS
  <2>6. Placed(g, from, anon) /\ t \in RawTurn
    BY <1>2, <2>4, <2>5
  <2>7. f[i] = g \/ f[i] = AddTurn(g, t, i, time, s.continues)
    BY <1>3, <2>2, <2>3, <2>5
  <2>8. anon => t.id = 0 /\ \A h \in 1 .. Len(t.before) : t.before[h].id = 0
    <3>1. t.before \in Seq(RawMessage)
      BY <2>6 DEF RawTurn
    <3>2. DOMAIN t.before = 1 .. Len(t.before)
      BY <3>1
    <3> QED BY <1>2, <2>4, <2>5, <3>2 DEF OwnIds, Unset
  <2>9. Placed(AddTurn(g, t, i, time, s.continues), from, anon)
    BY <2>4, <2>6, <2>8, TurnIs
  <2> QED BY <2>2, <2>6, <2>7, <2>9
<1> QED BY <1>1, <1>4

LEMMA ChatIsPlaced ==
    ASSUME NEW s \in RawScenario, s.turns # << >>, NEW from \in Nat \ {0}, NEW time \in Int
    PROVE  Placed(ChatBefore(s, from, time), from, ~OwnIds(s))
<1>1. PICK none, yes, b0 : none = << >> /\ yes = TRUE /\ b0 = Builder(from)
  OBVIOUS
<1>2. b0 = [made |-> none, next |-> from, ok |-> yes] /\ yes \in BOOLEAN
  BY <1>1 DEF Builder
<1>3. none \in Seq(Parsed) /\ \A p \in 1 .. Len(none) : FALSE
  BY <1>1
<1>4. from <= from
  OBVIOUS
<1>5. Placed(b0, from, ~OwnIds(s))
  BY <1>2, <1>3, <1>4 DEF Placed
<1>6. s.messages \in Seq(RawMessage) /\ s.turns \in Seq(RawTurn)
  BY DEF RawScenario
<1>7. ~OwnIds(s) => \A i \in 1 .. Len(s.messages) : s.messages[i].id = 0
  <2>1. DOMAIN s.messages = 1 .. Len(s.messages)
    BY <1>6
  <2> QED BY <2>1 DEF OwnIds, Unset
<1>8. s.turns[1].date \in Nat
  <2>1. s.turns[1] \in RawTurn
    BY <1>6
  <2> QED BY <2>1 DEF RawTurn
<1>9. PICK anchor : anchor = Or(s.turns[1].date, time)
  OBVIOUS
<1>10. anchor \in Int /\ Unset \in Int /\ DefaultStart \in Int
  BY <1>8, <1>9, LabScenarioAssumption DEF Or, Unset
<1>11. \E start, end \in Int : ChatBefore(s, from, time) = DatedRun(b0, s.messages, start, end)
  BY <1>1, <1>9, <1>10 DEF ChatBefore
<1>12. PICK start \in Int, end \in Int :
          ChatBefore(s, from, time) = DatedRun(b0, s.messages, start, end)
  BY <1>11
<1>13. PICK anon, raws : anon = ~OwnIds(s) /\ raws = s.messages
  OBVIOUS
<1>14. Placed(b0, from, anon) /\ raws \in Seq(RawMessage)
       /\ (anon => \A i \in 1 .. Len(raws) : raws[i].id = 0)
  BY <1>5, <1>6, <1>7, <1>13
<1>15. Placed(DatedRun(b0, raws, start, end), from, anon)
  BY <1>14, RunIsPlaced
<1> QED BY <1>12, <1>13, <1>15

\* Every message has an ID of its own; an automatic one is not below the first.
LEMMA ParsedIsPlaced ==
    ASSUME NEW s \in RawScenario, s.turns # << >>, NEW from \in Nat \ {0}, NEW time \in Int
    PROVE  LET c == ParseScenario(s, from, time)
           IN  /\ c.made \in Seq(Parsed)
               /\ \A p \in 1 .. Len(c.made) : c.made[p].id \in Nat \ {0}
               /\ \A p, q \in 1 .. Len(c.made) : p < q => c.made[p].id # c.made[q].id
               /\ ~OwnIds(s) => \A p \in 1 .. Len(c.made) : c.made[p].id >= from
<1>1. PICK chat0, anon : chat0 = ChatBefore(s, from, time) /\ anon = ~OwnIds(s)
  OBVIOUS
<1>2. Placed(chat0, from, anon)
  BY <1>1, ChatIsPlaced
<1>3. Len(s.turns) \in Nat
  BY DEF RawScenario
<1>4. \E f : ParseSteps(f, chat0, s, time, Len(s.turns))
                  /\ AddTurns(chat0, s, time) = f[Len(s.turns)]
  BY <1>3, ParseIsSteps, Zenon
<1>5. PICK f : ParseSteps(f, chat0, s, time, Len(s.turns))
                  /\ AddTurns(chat0, s, time) = f[Len(s.turns)]
  BY <1>4, Zenon
<1>6. PICK g : g = f[Len(s.turns)]
  OBVIOUS
<1>7. Placed(g, from, anon)
  <2>1. \A i \in 0 .. Len(s.turns) : Placed(f[i], from, anon)
    <3>1. anon => ~OwnIds(s)
      BY <1>1
    <3> QED BY <1>2, <1>5, <3>1, ParseStaysPlaced
  <2> QED BY <1>3, <1>6, <2>1
<1>8. PICK c, ok : /\ c = ParseScenario(s, from, time)
                   /\ ok = (g.ok /\ (s.continues => s.reminders = {}))
  OBVIOUS
<1>9. c = [g EXCEPT !.ok = ok]
  <2>1. AddTurns(ChatBefore(s, from, time), s, time) = g
    BY <1>1, <1>5, <1>6
  <2> QED BY <1>8, <2>1 DEF ParseScenario
<1>10. c.made = g.made
  <2>1. PICK m, n, o : m = g.made /\ g = [made |-> m, next |-> n, ok |-> o]
    BY <1>7, PlacedIs
  <2> QED BY <1>9, <2>1
<1>11. PICK m : m = g.made
  OBVIOUS
<1>12. /\ m \in Seq(Parsed)
       /\ \A p \in 1 .. Len(m) : m[p].id \in Nat \ {0}
       /\ \A p, q \in 1 .. Len(m) : p < q => m[p].id # m[q].id
       /\ anon => \A p \in 1 .. Len(m) : m[p].id >= from
  BY <1>7, <1>11, PlacedIs
<1> QED BY <1>1, <1>8, <1>10, <1>11, <1>12

\* No message is dated after top, no turn before low, and no message after a
\* turn that follows it.
Timed(m, low, top) ==
    /\ \A p \in 1 .. Len(m) : m[p].date <= top
    /\ \A p, q \in 1 .. Len(m) : p < q /\ m[q].turn # 0 => m[p].date <= m[q].date
    /\ \A q \in 1 .. Len(m) : m[q].turn # 0 => low <= m[q].date

LEMMA MoreTimed ==
    ASSUME NEW m \in Seq(Parsed), NEW low \in Int, NEW top \in Int, Timed(m, low, top),
           NEW e \in Parsed, NEW later \in Int, top <= later, e.date <= later,
           e.turn # 0 => top <= e.date /\ low <= e.date
    PROVE  /\ Timed(Append(m, e), low, later)
           /\ Len(Append(m, e)) > 0 /\ Append(m, e)[Len(Append(m, e))] = e
<1>1. PICK l, s : l = Len(m) /\ s = Append(m, e)
  OBVIOUS
<1>2. l \in Nat /\ Len(s) = l + 1 /\ s[l + 1] = e /\ \A p \in 1 .. l : s[p] = m[p]
  BY <1>1, AppendProperties
<1>3. e.date \in Int /\ \A p \in 1 .. l : m[p].date \in Int
  <2>1. \A p \in 1 .. l : m[p] \in Parsed
    BY <1>1
  <2> QED BY <2>1 DEF Parsed
<1>4. /\ \A p \in 1 .. l : m[p].date <= top
      /\ \A p, q \in 1 .. l : p < q /\ m[q].turn # 0 => m[p].date <= m[q].date
      /\ \A q \in 1 .. l : m[q].turn # 0 => low <= m[q].date
  BY <1>1 DEF Timed
<1>5. ASSUME NEW p \in 1 .. l + 1
      PROVE  s[p].date <= later /\ (s[p].turn # 0 => low <= s[p].date)
  <2>1. CASE p = l + 1
    BY <1>2, <2>1
  <2>2. CASE p # l + 1
    <3>1. p \in 1 .. l /\ s[p] = m[p]
      BY <1>2, <2>2
    <3>2. m[p].date <= top /\ m[p].date \in Int
      BY <1>3, <1>4, <3>1
    <3> QED BY <1>4, <3>1, <3>2
  <2> QED BY <2>1, <2>2
<1>6. ASSUME NEW p \in 1 .. l + 1, NEW q \in 1 .. l + 1, p < q, s[q].turn # 0
      PROVE  s[p].date <= s[q].date
  <2>1. p \in 1 .. l /\ s[p] = m[p]
    BY <1>2, <1>6
  <2>2. m[p].date <= top /\ m[p].date \in Int
    BY <1>3, <1>4, <2>1
  <2>3. CASE q = l + 1
    BY <1>2, <1>3, <1>6, <2>1, <2>2, <2>3
  <2>4. CASE q # l + 1
    <3>1. q \in 1 .. l /\ s[q] = m[q]
      BY <1>2, <2>4
    <3> QED BY <1>4, <1>6, <2>1, <3>1
  <2> QED BY <2>3, <2>4
<1>7. Timed(s, low, later)
  BY <1>2, <1>5, <1>6 DEF Timed
<1> QED BY <1>1, <1>2, <1>7

\* The message added is the last.
LEMMA LastAdded ==
    ASSUME NEW b, NEW from, NEW anon, Placed(b, from, anon),
           NEW msg, msg.id \in Nat, msg.date \in Nat, msg.bot \in BOOLEAN, msg.to \in Nat,
           NEW default \in Int, NEW t \in Nat, AddMessage(b, msg, default, t).ok,
           NEW low \in Int, NEW top \in Int, NEW later \in Int, Timed(b.made, low, top),
           top <= later, Or(Or(msg.date, default), DefaultStart) <= later,
           t # 0 => /\ top <= Or(Or(msg.date, default), DefaultStart)
                    /\ low <= Or(Or(msg.date, default), DefaultStart)
    PROVE  /\ b.ok
           /\ Timed(AddMessage(b, msg, default, t).made, low, later)
           /\ AddMessage(b, msg, default, t).made # << >>
           /\ LastDate(AddMessage(b, msg, default, t)) = Or(Or(msg.date, default), DefaultStart)
<1>1. PICK c, m, date : /\ c = AddMessage(b, msg, default, t) /\ m = b.made
                        /\ date = Or(Or(msg.date, default), DefaultStart)
  OBVIOUS
<1>2. ~NoMore(b, c)
  BY <1>1 DEF NoMore
<1>3. PICK e, next : OneMore(b, c, msg, default, t, e, next)
  BY <1>1, <1>2, AddedIs
<1>4. PICK s : s = Append(m, e)
  OBVIOUS
<1>5. /\ b.ok /\ e \in Parsed /\ e.turn = t /\ e.date = date
      /\ c.made = s
  BY <1>1, <1>3, <1>4 DEF OneMore
<1>6. m \in Seq(Parsed)
  BY <1>1, PlacedIs
<1>7. Timed(s, low, later) /\ Len(s) > 0 /\ s[Len(s)] = e
  BY <1>1, <1>4, <1>5, <1>6, MoreTimed
<1>8. s # << >>
  BY <1>7
<1>9. LastDate(c) = date
  BY <1>5, <1>7, <1>8 DEF LastDate, Last
<1> QED BY <1>1, <1>5, <1>7, <1>8, <1>9

\* A run forwards: each message after the one before
LEMMA ForwardIsTimed ==
    ASSUME NEW b, NEW from, NEW anon, Placed(b, from, anon), NEW raws \in Seq(RawMessage),
           anon => \A i \in 1 .. Len(raws) : raws[i].id = 0,
           \A i \in 1 .. Len(raws) : raws[i].date = 0,
           NEW start \in Int, start > 0, NEW low \in Int, Timed(b.made, low, start),
           DatedRun(b, raws, start, Unset).ok
    PROVE  LET c == DatedRun(b, raws, start, Unset)
               top == IF raws = << >> THEN start ELSE LastDate(c)
           IN  /\ b.ok /\ top \in Int /\ start <= top /\ Timed(c.made, low, top)
               /\ IF raws = << >> THEN c = b ELSE c.made # << >>
<1>1. PICK k : k = Len(raws)
  OBVIOUS
<1>2. k \in Nat /\ (\A i \in 1 .. k : raws[i] \in RawMessage /\ raws[i].date = 0)
      /\ (raws = << >> <=> k = 0)
  BY <1>1
<1>3. PICK f : RunSteps(f, b, raws, start, Unset, k, k) /\ DatedRun(b, raws, start, Unset) = f[k]
  <2>1. k \in Nat
    BY <1>2
  <2> QED BY <1>1, <2>1, RunIsSteps
<1>4. \A i \in 0 .. k : Placed(f[i], from, anon)
  <2>1. RunSteps(f, b, raws, start, Unset, Len(raws), Len(raws))
    BY <1>1, <1>3, Zenon
  <2>2. Unset \in Int
    BY DEF Unset
  <2> QED BY <1>1, <2>1, <2>2, RunStaysPlaced
<1>5. \A i \in 0 .. k :
         f[i] = IF i = 0 THEN b
                ELSE AddMessage(f[i - 1], raws[i], RunDate(f[i - 1], i, k, start, Unset), Unset)
  BY <1>3, Zenon DEF RunSteps
<1> DEFINE Top(i) == IF i = 0 THEN start ELSE LastDate(f[i])
           Fine(i) == f[i].ok => /\ b.ok /\ Top(i) \in Int /\ start <= Top(i)
                                 /\ Timed(f[i].made, low, Top(i))
                                 /\ (i # 0 => f[i].made # << >>)
           S == {i \in 0 .. k : ~Fine(i)}
<1>6. S = {}
  <2> SUFFICES ASSUME S # {} PROVE FALSE
    OBVIOUS
  <2>1. PICK i \in S : \A h \in S : i <= h
    <3>1. S \in SUBSET Nat
      BY <1>2
    <3> HIDE DEF S
    <3> QED BY <3>1, LeastNat
  <2>2. i \in 0 .. k /\ ~Fine(i)
    BY <2>1
  <2>3. i # 0
    <3>1. 0 \in 0 .. k
      BY <1>2
    <3>2. f[0] = b
      BY <1>5, <3>1
    <3>3. Fine(0)
      BY <3>2
    <3> QED BY <2>2, <3>3
  <2>4. i - 1 \in 0 .. k /\ i - 1 \notin S /\ i \in 1 .. k
    BY <1>2, <2>1, <2>2, <2>3
  <2>5. PICK g, msg, date, top :
           /\ g = f[i - 1] /\ msg = raws[i] /\ date = RunDate(g, i, k, start, Unset)
           /\ top = Top(i - 1)
    OBVIOUS
  <2>6. Placed(g, from, anon) /\ Fine(i - 1)
    BY <1>4, <2>4, <2>5
  <2>7. f[i] = AddMessage(g, msg, date, 0)
    BY <1>5, <2>2, <2>3, <2>5 DEF Unset
  <2>8. msg.id \in Nat /\ msg.date = 0 /\ msg.bot \in BOOLEAN /\ msg.to \in Nat
    BY <1>2, <2>4, <2>5 DEF RawMessage
  <2>9. date = IF i = 1 THEN start ELSE top + Minute
    <3>1. date = IF i = 1 THEN start ELSE LastDate(g) + Minute
      BY <2>5 DEF RunDate
    <3>2. i # 1 => top = LastDate(g)
      BY <2>4, <2>5
    <3> QED BY <3>1, <3>2
  <2>10. date \in Int
    <3>1. LastDate(g) \in Int
      BY <2>6, LastDateIs
    <3> QED BY <2>5, <3>1, LabScenarioAssumption DEF RunDate
  <2>11. ASSUME f[i].ok PROVE Fine(i)
    <3>1. AddMessage(g, msg, date, 0).ok
      BY <2>7, <2>11
    <3>2. g.ok
      <4>1. ~NoMore(g, AddMessage(g, msg, date, 0))
        BY <3>1 DEF NoMore
      <4>2. msg.date \in Nat /\ 0 \in Nat
        BY <2>8
      <4>3. \E e, next : OneMore(g, AddMessage(g, msg, date, 0), msg, date, 0, e, next)
        BY <2>6, <2>8, <2>10, <4>1, <4>2, AddedIs
      <4> QED BY <4>3 DEF OneMore
    <3>3. b.ok /\ top \in Int /\ start <= top /\ Timed(g.made, low, top)
      BY <2>5, <2>6, <3>2
    <3>4. date >= top /\ date > 0
      <4>1. i = 1 => top = start
        BY <2>5
      <4> QED BY <2>9, <3>3, <4>1, LabScenarioAssumption
    <3>5. Or(Or(msg.date, date), DefaultStart) = date
      BY <2>8, <3>4 DEF Or, Unset
    <3>6. /\ Timed(AddMessage(g, msg, date, 0).made, low, date)
          /\ AddMessage(g, msg, date, 0).made # << >>
          /\ LastDate(AddMessage(g, msg, date, 0)) = date
      <4>1. msg.date \in Nat /\ 0 \in Nat /\ date <= date
        BY <2>8, <2>10
      <4> QED BY <2>6, <2>8, <2>10, <3>1, <3>3, <3>4, <3>5, <4>1, LastAdded
    <3>7. Top(i) = date /\ Timed(f[i].made, low, date) /\ f[i].made # << >>
      BY <2>3, <2>7, <3>6
    <3>8. start <= date
      BY <2>10, <3>3, <3>4
    <3> QED BY <2>10, <3>3, <3>7, <3>8
  <2> QED BY <2>2, <2>11
<1>7. Fine(k)
  <2>1. k \in 0 .. k
    BY <1>2
  <2> QED BY <1>6, <2>1
<1>8. k = 0 => f[k] = b
  <2>1. 0 \in 0 .. k
    BY <1>2
  <2> QED BY <1>5, <2>1
<1> QED BY <1>2, <1>3, <1>7, <1>8

\* A run backwards: each message at the end or before
LEMMA BackwardIsTimed ==
    ASSUME NEW b, NEW from, NEW anon, Placed(b, from, anon), NEW raws \in Seq(RawMessage),
           anon => \A i \in 1 .. Len(raws) : raws[i].id = 0,
           \A i \in 1 .. Len(raws) : raws[i].date = 0,
           NEW end \in Int, DefaultStart <= end, NEW low \in Int, Timed(b.made, low, end),
           DatedRun(b, raws, Unset, end).ok
    PROVE  b.ok /\ Timed(DatedRun(b, raws, Unset, end).made, low, end)
<1>1. PICK k : k = Len(raws)
  OBVIOUS
<1>2. k \in Nat /\ \A i \in 1 .. k : raws[i] \in RawMessage /\ raws[i].date = 0
  BY <1>1
<1>3. PICK f : RunSteps(f, b, raws, Unset, end, k, k) /\ DatedRun(b, raws, Unset, end) = f[k]
  BY <1>1, <1>2, RunIsSteps
<1>4. \A i \in 0 .. k : Placed(f[i], from, anon)
  <2>1. RunSteps(f, b, raws, Unset, end, Len(raws), Len(raws))
    BY <1>1, <1>3, Zenon
  <2>2. Unset \in Int
    BY DEF Unset
  <2> QED BY <1>1, <2>1, <2>2, RunStaysPlaced
<1>5. \A i \in 0 .. k :
         f[i] = IF i = 0 THEN b
                ELSE AddMessage(f[i - 1], raws[i], RunDate(f[i - 1], i, k, Unset, end), Unset)
  BY <1>3, Zenon DEF RunSteps
<1>6. DefaultStart \in Int /\ DefaultStart > 0 /\ Minute \in Nat /\ end # Unset
  BY LabScenarioAssumption DEF Unset
<1> DEFINE Fine(i) == f[i].ok => b.ok /\ Timed(f[i].made, low, end)
           S == {i \in 0 .. k : ~Fine(i)}
<1>7. S = {}
  <2> SUFFICES ASSUME S # {} PROVE FALSE
    OBVIOUS
  <2>1. PICK i \in S : \A h \in S : i <= h
    <3>1. S \in SUBSET Nat
      BY <1>2
    <3> HIDE DEF S
    <3> QED BY <3>1, LeastNat
  <2>2. i \in 0 .. k /\ ~Fine(i)
    BY <2>1
  <2>3. i # 0
    <3>1. 0 \in 0 .. k
      BY <1>2
    <3>2. f[0] = b
      BY <1>5, <3>1
    <3>3. Fine(0)
      BY <3>2
    <3> QED BY <2>2, <3>3
  <2>4. i - 1 \in 0 .. k /\ i - 1 \notin S /\ i \in 1 .. k
    BY <1>2, <2>1, <2>2, <2>3
  <2>5. PICK g, msg, date :
           g = f[i - 1] /\ msg = raws[i] /\ date = RunDate(g, i, k, Unset, end)
    OBVIOUS
  <2>6. Placed(g, from, anon) /\ Fine(i - 1)
    BY <1>4, <2>4, <2>5
  <2>7. f[i] = AddMessage(g, msg, date, 0)
    BY <1>5, <2>2, <2>3, <2>5 DEF Unset
  <2>8. msg.id \in Nat /\ msg.date = 0 /\ msg.bot \in BOOLEAN /\ msg.to \in Nat
    BY <1>2, <2>4, <2>5 DEF RawMessage
  <2>9. date \in Int /\ date <= end
    <3>1. PICK x, y : x = k + 1 - i /\ y = x * Minute
      OBVIOUS
    <3>2. x \in Nat
      BY <1>2, <2>4, <3>1
    <3>3. y \in Nat
      BY <1>6, <3>1, <3>2
    <3>4. date = end - y
      BY <1>6, <2>5, <3>1 DEF RunDate
    <3> QED BY <3>3, <3>4
  <2>10. ASSUME f[i].ok PROVE Fine(i)
    <3>1. AddMessage(g, msg, date, 0).ok
      BY <2>7, <2>10
    <3>2. g.ok
      <4>1. ~NoMore(g, AddMessage(g, msg, date, 0))
        BY <3>1 DEF NoMore
      <4>2. msg.date \in Nat /\ 0 \in Nat
        BY <2>8
      <4>3. \E e, next : OneMore(g, AddMessage(g, msg, date, 0), msg, date, 0, e, next)
        BY <2>6, <2>8, <2>9, <4>1, <4>2, AddedIs
      <4> QED BY <4>3 DEF OneMore
    <3>3. b.ok /\ Timed(g.made, low, end)
      BY <2>5, <2>6, <3>2
    <3>4. Or(Or(msg.date, date), DefaultStart) <= end
      BY <1>6, <2>8, <2>9 DEF Or, Unset
    <3>5. Timed(AddMessage(g, msg, date, 0).made, low, end)
      <4>1. msg.date \in Nat /\ 0 \in Nat /\ end <= end
        BY <2>8
      <4> QED BY <2>6, <2>8, <2>9, <3>1, <3>3, <3>4, <4>1, LastAdded
    <3> QED BY <2>7, <3>3, <3>5
  <2> QED BY <2>2, <2>10
<1>8. Fine(k)
  <2>1. k \in 0 .. k
    BY <1>2
  <2> QED BY <1>7, <2>1
<1> QED BY <1>3, <1>8

\* The messages and turns so far are in order; the last of them is a turn.
InTime(b, low) ==
    b.made # << >> /\ low <= LastDate(b) /\ Timed(b.made, low, LastDate(b))

LEMMA FirstTurnIsTimed ==
    ASSUME NEW b, NEW from, NEW anon, Placed(b, from, anon), NEW t \in RawTurn,
           anon => t.id = 0 /\ \A i \in 1 .. Len(t.before) : t.before[i].id = 0, t.date = 0,
           NEW time \in Int, NEW continues, NEW low \in Int, DefaultStart <= low,
           NEW top \in Int, Timed(b.made, low, top), low <= top,
           IF time # 0 THEN top = time
           ELSE IF b.made # << >> THEN top = LastDate(b) ELSE top = DefaultStart,
           AddTurn(b, t, 1, time, continues).ok
    PROVE  InTime(AddTurn(b, t, 1, time, continues), low)
<1>1. PICK dates, c, when : /\ dates = TurnDates(b, t, time, Unset)
                            /\ c = AddTurn(b, t, 1, time, continues) /\ when = dates.when
  OBVIOUS
<1>2. dates.built = b /\ when = Or(Or(t.date, time), IF b.made # << >> THEN LastDate(b) + Minute
                                                     ELSE DefaultStart)
  BY <1>1 DEF TurnDates
<1>3. c = AddMessage(dates.built, t, when, 1) /\ when \in Int
  BY <1>1, TurnIs
<1>4. /\ DefaultStart \in Int /\ DefaultStart > 0 /\ Minute \in Nat
      /\ LastDate(b) \in Int /\ top > 0
  BY LabScenarioAssumption, LastDateIs
<1>5. top <= when
  <2>1. CASE time # 0
    BY <1>2, <1>4, <2>1 DEF Or, Unset
  <2>2. CASE time = 0
    BY <1>2, <1>4, <2>2 DEF Or, Unset
  <2> QED BY <2>1, <2>2
<1>6. Or(Or(t.date, when), DefaultStart) = when
  BY <1>3, <1>4, <1>5 DEF Or, Unset
<1>7. c = AddMessage(b, t, when, 1) /\ AddMessage(b, t, when, 1).ok
  BY <1>1, <1>2, <1>3
<1>8. /\ Timed(AddMessage(b, t, when, 1).made, low, when)
      /\ AddMessage(b, t, when, 1).made # << >>
      /\ LastDate(AddMessage(b, t, when, 1)) = when
  <2>1. t.id \in Nat /\ t.date \in Nat /\ t.bot \in BOOLEAN /\ t.to \in Nat
    BY DEF RawTurn
  <2>2. when <= when /\ low <= when
    BY <1>3, <1>5
  <2>3. 1 \in Nat
    OBVIOUS
  <2> QED BY <1>3, <1>5, <1>6, <1>7, <2>1, <2>2, <2>3, LastAdded
<1>9. low <= when
  BY <1>3, <1>5
<1> QED BY <1>1, <1>7, <1>8, <1>9 DEF InTime

LEMMA NextTurnIsTimed ==
    ASSUME NEW b, NEW from, NEW anon, Placed(b, from, anon), NEW t \in RawTurn,
           anon => t.id = 0 /\ \A i \in 1 .. Len(t.before) : t.before[i].id = 0, t.date = 0,
           \A i \in 1 .. Len(t.before) : t.before[i].date = 0,
           NEW time \in Int, NEW j \in Nat, j > 1, NEW continues,
           NEW low \in Int, DefaultStart <= low, InTime(b, low),
           AddTurn(b, t, j, time, continues).ok
    PROVE  InTime(AddTurn(b, t, j, time, continues), low)
<1>1. PICK dates, c, when, built, turnDate :
         /\ turnDate = LastDate(b) /\ dates = TurnDates(b, t, time, turnDate)
         /\ c = AddTurn(b, t, j, time, continues) /\ when = dates.when /\ built = dates.built
  OBVIOUS
<1>2. /\ c = AddMessage(built, t, when, j) /\ when \in Int /\ turnDate <= when
      /\ Placed(built, from, anon) /\ turnDate \in Int
  BY <1>1, TurnIs
<1>3. DefaultStart \in Int /\ DefaultStart > 0 /\ Minute \in Nat /\ low <= turnDate /\ turnDate > 0
  BY <1>1, <1>2, LabScenarioAssumption DEF InTime
<1>4. PICK explicit, start, ran, raws :
        /\ explicit = IF t.after # 0 THEN turnDate + t.after ELSE 0
        /\ start = IF explicit = 0 THEN turnDate + Minute ELSE 0
        /\ raws = t.before /\ ran = DatedRun(b, raws, start, explicit)
  OBVIOUS
<1>5. t.after \in Nat /\ t.id \in Nat /\ t.date \in Nat /\ t.bot \in BOOLEAN /\ t.to \in Nat
  BY DEF RawTurn
<1>6. raws \in Seq(RawMessage)
  BY <1>4 DEF RawTurn
<1>7. /\ built = ran
      /\ when = Or(explicit, Minute + IF raws # << >> THEN LastDate(ran) ELSE turnDate)
  BY <1>1, <1>3, <1>4 DEF TurnDates, Unset
<1>8. /\ explicit \in Int /\ start \in Int
      /\ explicit # 0 => turnDate <= explicit /\ start = 0
      /\ explicit = 0 => start = turnDate + Minute /\ start > 0
  BY <1>2, <1>3, <1>4, <1>5
<1>9. /\ anon => \A i \in 1 .. Len(raws) : raws[i].id = 0
      /\ \A i \in 1 .. Len(raws) : raws[i].date = 0
  BY <1>4
<1>10. AddMessage(built, t, when, j).ok
  BY <1>1, <1>2
<1>11. built.ok
  <2>1. ~NoMore(built, AddMessage(built, t, when, j))
    BY <1>10 DEF NoMore
  <2>2. \E e, next : OneMore(built, AddMessage(built, t, when, j), t, when, j, e, next)
    BY <1>2, <1>5, <2>1, AddedIs
  <2> QED BY <2>2 DEF OneMore
<1>12. Timed(b.made, low, turnDate)
  BY <1>1 DEF InTime
<1>13. \A top2 \in Int : turnDate <= top2 => Timed(b.made, low, top2)
  <2> TAKE top2 \in Int
  <2> HAVE turnDate <= top2
  <2>1. \A p \in 1 .. Len(b.made) : b.made[p].date <= turnDate /\ b.made[p].date \in Int
    <3>1. b.made \in Seq(Parsed)
      BY PlacedIs
    <3>2. \A p \in 1 .. Len(b.made) : b.made[p] \in Parsed
      BY <3>1
    <3> QED BY <1>12, <3>2 DEF Timed, Parsed
  <2>2. \A p \in 1 .. Len(b.made) : b.made[p].date <= top2
    BY <1>2, <2>1
  <2> QED BY <1>12, <2>2 DEF Timed
<1>14. PICK top : top = IF explicit # 0 THEN explicit
                        ELSE IF raws = << >> THEN start ELSE LastDate(ran)
  OBVIOUS
<1>15. top \in Int /\ turnDate <= top /\ top <= when /\ when > 0 /\ Timed(built.made, low, top)
  <2>1. CASE explicit # 0
    <3>1. top = explicit /\ when = explicit /\ start = 0
      BY <1>7, <1>8, <1>14, <2>1 DEF Or, Unset
    <3>2. Timed(b.made, low, explicit) /\ DefaultStart <= explicit
      BY <1>2, <1>3, <1>8, <1>13, <2>1
    <3>3. ran = DatedRun(b, raws, Unset, explicit) /\ ran.ok
      BY <1>4, <1>7, <1>11, <3>1 DEF Unset
    <3>4. DatedRun(b, raws, Unset, explicit).ok
      BY <3>3
    <3>5. Timed(DatedRun(b, raws, Unset, explicit).made, low, explicit)
      BY <1>6, <1>8, <1>9, <3>2, <3>4, BackwardIsTimed
    <3>6. Timed(built.made, low, top)
      BY <1>7, <3>1, <3>3, <3>5
    <3> QED BY <1>2, <1>3, <1>8, <2>1, <3>1, <3>6
  <2>2. CASE explicit = 0
    <3>1. start > 0 /\ turnDate <= start /\ Timed(b.made, low, start)
      BY <1>2, <1>3, <1>8, <1>13, <2>2
    <3>2. ran = DatedRun(b, raws, start, Unset) /\ ran.ok
      BY <1>4, <1>7, <1>11, <2>2 DEF Unset
    <3>3. DatedRun(b, raws, start, Unset).ok
      BY <3>2
    <3>4. LET r == DatedRun(b, raws, start, Unset)
              end == IF raws = << >> THEN start ELSE LastDate(r)
          IN  end \in Int /\ start <= end /\ Timed(r.made, low, end)
      BY <1>6, <1>8, <1>9, <3>1, <3>3, ForwardIsTimed
    <3>5. top = IF raws = << >> THEN start ELSE LastDate(ran)
      BY <1>14, <2>2
    <3>6. top \in Int /\ start <= top /\ Timed(built.made, low, top)
      BY <1>7, <3>2, <3>4, <3>5
    <3>7. when = Minute + IF raws # << >> THEN LastDate(ran) ELSE turnDate
      BY <1>7, <2>2 DEF Or, Unset
    <3>8. top <= when
      <4>1. CASE raws = << >>
        BY <1>2, <1>3, <1>8, <2>2, <3>5, <3>7, <4>1
      <4>2. CASE raws # << >>
        BY <1>3, <3>5, <3>6, <3>7, <4>2
      <4> QED BY <4>1, <4>2
    <3> QED BY <1>2, <1>3, <1>8, <3>1, <3>6, <3>8
  <2> QED BY <2>1, <2>2
<1>16. Or(Or(t.date, when), DefaultStart) = when
  BY <1>2, <1>15 DEF Or, Unset
<1>17. low <= when /\ when <= when
  BY <1>2, <1>3, <1>15
<1>18. /\ Timed(AddMessage(built, t, when, j).made, low, when)
       /\ AddMessage(built, t, when, j).made # << >>
       /\ LastDate(AddMessage(built, t, when, j)) = when
  BY <1>2, <1>5, <1>10, <1>15, <1>16, <1>17, LastAdded
<1> QED BY <1>1, <1>2, <1>17, <1>18 DEF InTime

\* Where nobody gives a date, what is parsed is in order.
LEMMA ParsedIsTimed ==
    ASSUME NEW s \in RawScenario, s.turns # << >>, ~OwnDates(s), NEW from \in Nat \ {0},
           NEW time \in Int, NEW low, low = Or(time, DefaultStart), DefaultStart <= low,
           ParseScenario(s, from, time).ok
    PROVE  LET m == ParseScenario(s, from, time).made
           IN  /\ \A p, q \in 1 .. Len(m) : p < q /\ m[q].turn # 0 => m[p].date <= m[q].date
               /\ \A q \in 1 .. Len(m) : m[q].turn # 0 => low <= m[q].date
<1>1. PICK k, chat0, anon : /\ k = Len(s.turns) /\ chat0 = ChatBefore(s, from, time)
                            /\ anon = ~OwnIds(s)
  OBVIOUS
<1>2. /\ k \in Nat \ {0} /\ DefaultStart \in Int /\ DefaultStart > 0 /\ low \in Int
      /\ \A i \in 1 .. k : s.turns[i] \in RawTurn /\ i \in DOMAIN s.turns
  <2>1. s.turns \in Seq(RawTurn)
    BY DEF RawScenario
  <2>2. DefaultStart \in Int /\ DefaultStart > 0
    BY LabScenarioAssumption
  <2>3. low \in Int
    BY <2>2 DEF Or
  <2>4. k \in Nat \ {0} /\ \A i \in 1 .. k : s.turns[i] \in RawTurn /\ i \in DOMAIN s.turns
    BY <1>1, <2>1
  <2> QED BY <2>2, <2>3, <2>4
<1>3. Placed(chat0, from, anon)
  BY <1>1, ChatIsPlaced
<1>4. \A i \in 1 .. k :
         /\ s.turns[i].date = 0
         /\ \A h \in 1 .. Len(s.turns[i].before) : s.turns[i].before[h].date = 0
         /\ anon => /\ s.turns[i].id = 0
                    /\ \A h \in 1 .. Len(s.turns[i].before) : s.turns[i].before[h].id = 0
  <2> TAKE i \in 1 .. k
  <2>1. PICK t : t = s.turns[i]
    OBVIOUS
  <2>2. t \in RawTurn /\ i \in DOMAIN s.turns
    BY <1>2, <2>1
  <2>3. t.before \in Seq(RawMessage)
    BY <2>2 DEF RawTurn
  <2>4. DOMAIN t.before = 1 .. Len(t.before)
    BY <2>3
  <2>5. t.date = 0 /\ \A h \in 1 .. Len(t.before) : t.before[h].date = 0
    BY <2>1, <2>2, <2>4 DEF OwnDates, Unset
  <2>6. anon => t.id = 0 /\ \A h \in 1 .. Len(t.before) : t.before[h].id = 0
    BY <1>1, <2>1, <2>2, <2>4 DEF OwnIds, Unset
  <2> QED BY <2>1, <2>5, <2>6
<1>5. PICK f : ParseSteps(f, chat0, s, time, k) /\ AddTurns(chat0, s, time) = f[k]
  <2>1. Len(s.turns) \in Nat
    BY <1>1, <1>2
  <2>2. \E f : ParseSteps(f, chat0, s, time, Len(s.turns))
                  /\ AddTurns(chat0, s, time) = f[Len(s.turns)]
    BY <2>1, ParseIsSteps, Zenon
  <2>3. k = Len(s.turns)
    BY <1>1
  <2> QED BY <2>2, <2>3, Zenon
<1>6. \A i \in 0 .. k : Placed(f[i], from, anon)
  <2>1. ParseSteps(f, chat0, s, time, Len(s.turns))
    BY <1>1, <1>5, Zenon
  <2>2. anon => ~OwnIds(s)
    BY <1>1
  <2> QED BY <1>1, <1>3, <2>1, <2>2, ParseStaysPlaced
<1>7. \A i \in 0 .. k :
        f[i] = IF i = 0 THEN chat0
               ELSE IF f[i - 1].ok THEN AddTurn(f[i - 1], s.turns[i], i, time, s.continues)
               ELSE f[i - 1]
  BY <1>5, Zenon DEF ParseSteps
<1>8. chat0.ok =>
         \E top \in Int :
            /\ Timed(chat0.made, low, top) /\ low <= top
            /\ IF time # 0 THEN top = time
               ELSE IF chat0.made # << >> THEN top = LastDate(chat0) ELSE top = DefaultStart
  <2> SUFFICES ASSUME chat0.ok
               PROVE  \E top \in Int :
                        /\ Timed(chat0.made, low, top) /\ low <= top
                        /\ IF time # 0 THEN top = time
                           ELSE IF chat0.made # << >> THEN top = LastDate(chat0)
                           ELSE top = DefaultStart
    OBVIOUS
  <2>1. PICK b0, raws, none : b0 = Builder(from) /\ raws = s.messages /\ none = << >>
    OBVIOUS
  <2>2. b0.made = none
    BY <2>1 DEF Builder
  <2>3. Placed(b0, from, anon) /\ b0.made = << >>
    <3>1. PICK yes : yes = TRUE
      OBVIOUS
    <3>2. b0 = [made |-> none, next |-> from, ok |-> yes] /\ yes \in BOOLEAN
      BY <2>1, <3>1 DEF Builder
    <3>3. none \in Seq(Parsed) /\ \A p \in 1 .. Len(none) : FALSE
      BY <2>1
    <3>4. from <= from
      OBVIOUS
    <3> QED BY <2>1, <2>2, <3>2, <3>3, <3>4 DEF Placed
  <2>4. raws \in Seq(RawMessage)
    BY <2>1 DEF RawScenario
  <2>5. /\ \A i \in 1 .. Len(raws) : raws[i].date = 0
        /\ anon => \A i \in 1 .. Len(raws) : raws[i].id = 0
    <3>1. DOMAIN raws = 1 .. Len(raws)
      BY <2>4
    <3> QED BY <1>1, <2>1, <3>1 DEF OwnDates, OwnIds, Unset
  <2>6. \A top : Timed(b0.made, low, top)
    <3>1. \A p \in 1 .. Len(b0.made) : FALSE
      BY <2>3
    <3> QED BY <3>1 DEF Timed
  <2>7. s.turns[1].date = 0
    BY <1>2, <1>4
  <2>8. CASE time # 0
    <3>1. chat0 = DatedRun(b0, raws, Unset, time) /\ low = time
      BY <1>1, <2>1, <2>7, <2>8 DEF ChatBefore, Or, Unset
    <3>2. DatedRun(b0, raws, Unset, time).ok
      BY <3>1
    <3>3. Timed(DatedRun(b0, raws, Unset, time).made, low, time)
      BY <1>2, <2>3, <2>4, <2>5, <2>6, <3>1, <3>2, BackwardIsTimed
    <3> QED BY <1>2, <2>8, <3>1, <3>3
  <2>9. CASE time = 0
    <3>1. chat0 = DatedRun(b0, raws, DefaultStart, Unset) /\ low = DefaultStart
      BY <1>1, <2>1, <2>7, <2>9 DEF ChatBefore, Or, Unset
    <3>2. DatedRun(b0, raws, DefaultStart, Unset).ok
      BY <3>1
    <3>3. LET c == DatedRun(b0, raws, DefaultStart, Unset)
              top == IF raws = << >> THEN DefaultStart ELSE LastDate(c)
          IN  /\ top \in Int /\ DefaultStart <= top /\ Timed(c.made, low, top)
              /\ IF raws = << >> THEN c = b0 ELSE c.made # << >>
      BY <1>2, <2>3, <2>4, <2>5, <2>6, <3>2, ForwardIsTimed
    <3>4. PICK top : top = IF raws = << >> THEN DefaultStart ELSE LastDate(chat0)
      OBVIOUS
    <3>5. top \in Int /\ low <= top /\ Timed(chat0.made, low, top)
      BY <3>1, <3>3, <3>4
    <3>6. IF chat0.made # << >> THEN top = LastDate(chat0) ELSE top = DefaultStart
      BY <2>3, <3>1, <3>3, <3>4
    <3> QED BY <2>9, <3>5, <3>6
  <2> QED BY <2>8, <2>9
<1> DEFINE Fine(i) == i # 0 /\ f[i].ok => InTime(f[i], low)
           Bad == {i \in 0 .. k : ~Fine(i)}
<1>9. Bad = {}
  <2> SUFFICES ASSUME Bad # {} PROVE FALSE
    OBVIOUS
  <2>1. PICK i \in Bad : \A h \in Bad : i <= h
    <3>1. Bad \in SUBSET Nat
      BY <1>2
    <3> HIDE DEF Bad
    <3> QED BY <3>1, LeastNat
  <2>2. i \in 0 .. k /\ ~Fine(i)
    BY <2>1
  <2>3. i # 0 /\ f[i].ok /\ ~InTime(f[i], low)
    BY <2>2
  <2>4. i - 1 \in 0 .. k /\ i - 1 \notin Bad /\ i \in 1 .. k /\ i \in Nat
    BY <1>2, <2>1, <2>2, <2>3
  <2>5. PICK g, t, continues : g = f[i - 1] /\ t = s.turns[i] /\ continues = s.continues
    OBVIOUS
  <2>6. Placed(g, from, anon) /\ t \in RawTurn /\ Fine(i - 1)
    BY <1>2, <1>6, <2>4, <2>5
  <2>7. /\ t.date = 0 /\ \A h \in 1 .. Len(t.before) : t.before[h].date = 0
        /\ anon => t.id = 0 /\ \A h \in 1 .. Len(t.before) : t.before[h].id = 0
    BY <1>4, <2>4, <2>5
  <2>8. f[i] = IF g.ok THEN AddTurn(g, t, i, time, continues) ELSE g
    BY <1>7, <2>2, <2>3, <2>5
  <2>9. g.ok /\ f[i] = AddTurn(g, t, i, time, continues)
    BY <2>3, <2>8
  <2>10. AddTurn(g, t, i, time, continues).ok
    BY <2>3, <2>9
  <2>11. CASE i = 1
    <3>1. g = chat0
      <4>1. 0 \in 0 .. k
        BY <1>2
      <4> QED BY <1>7, <2>5, <2>11, <4>1
    <3>2. PICK top \in Int :
            /\ Timed(g.made, low, top) /\ low <= top
            /\ IF time # 0 THEN top = time
               ELSE IF g.made # << >> THEN top = LastDate(g) ELSE top = DefaultStart
      BY <1>8, <2>9, <3>1
    <3>3. AddTurn(g, t, 1, time, continues).ok
      BY <2>10, <2>11
    <3>4. InTime(AddTurn(g, t, 1, time, continues), low)
      BY <1>2, <2>6, <2>7, <3>2, <3>3, FirstTurnIsTimed
    <3> QED BY <2>3, <2>9, <2>11, <3>4
  <2>12. CASE i # 1
    <3>1. InTime(g, low) /\ i > 1
      BY <2>4, <2>5, <2>6, <2>9, <2>12
    <3>2. InTime(AddTurn(g, t, i, time, continues), low)
      BY <1>2, <2>4, <2>6, <2>7, <2>10, <3>1, NextTurnIsTimed
    <3> QED BY <2>3, <2>9, <3>2
  <2> QED BY <2>11, <2>12
<1>10. PICK g, c, ok : /\ g = f[k] /\ c = ParseScenario(s, from, time)
                       /\ ok = (g.ok /\ (s.continues => s.reminders = {}))
  OBVIOUS
<1>11. c = [g EXCEPT !.ok = ok]
  <2>1. AddTurns(ChatBefore(s, from, time), s, time) = g
    BY <1>1, <1>5, <1>10
  <2> QED BY <1>10, <2>1 DEF ParseScenario
<1>12. c.made = g.made /\ g.ok
  <2>1. k \in 0 .. k
    BY <1>2
  <2>2. PICK m, n, o : m = g.made /\ g = [made |-> m, next |-> n, ok |-> o]
    <3>1. Placed(g, from, anon)
      BY <1>6, <1>10, <2>1
    <3>2. g = [made |-> g.made, next |-> g.next, ok |-> g.ok]
      BY <3>1, PlacedIs
    <3> QED BY <3>2
  <2>3. c = [made |-> m, next |-> n, ok |-> ok]
    BY <1>11, <2>2
  <2>4. ok
    <3>1. c.ok
      BY <1>10
    <3>2. c.ok = ok
      BY <2>3
    <3> QED BY <3>1, <3>2
  <2>5. c.made = g.made
    BY <2>2, <2>3
  <2>6. g.ok
    BY <1>10, <2>4, Zenon
  <2> QED BY <2>5, <2>6
<1>13. InTime(g, low)
  <2>1. k \in 0 .. k /\ k # 0
    BY <1>2
  <2> QED BY <1>9, <1>10, <1>12, <2>1
<1>14. PICK m : m = g.made
  OBVIOUS
<1>15. /\ \A p, q \in 1 .. Len(m) : p < q /\ m[q].turn # 0 => m[p].date <= m[q].date
       /\ \A q \in 1 .. Len(m) : m[q].turn # 0 => low <= m[q].date
  BY <1>13, <1>14 DEF InTime, Timed
<1> QED BY <1>10, <1>12, <1>14, <1>15

LEMMA ImageIsFinite ==
    ASSUME NEW S, IsFiniteSet(S), NEW f, DOMAIN f = S
    PROVE  IsFiniteSet({f[x] : x \in S})
<1>1. PICK T : T = {f[x] : x \in S}
  OBVIOUS
<1>2. PICK g : g = [x \in S |-> f[x]]
  OBVIOUS
<1>3. g \in Surjection(S, T)
  BY <1>1, <1>2 DEF Surjection
<1>4. IsFiniteSet(T)
  BY <1>3, FS_Surjection DEF ExistsSurjection
<1> QED BY <1>1, <1>4

LEMMA FiniteEnds ==
    ASSUME NEW S \in SUBSET Int, IsFiniteSet(S), S # {}
    PROVE  /\ Max(S) \in S /\ \A x \in S : x <= Max(S)
           /\ Min(S) \in S /\ \A x \in S : Min(S) <= x
<1> DEFINE Ends(V) == /\ \E x \in V : \A y \in V : x >= y
                      /\ \E x \in V : \A y \in V : x <= y
           Bad == {n \in Nat : \E V \in SUBSET Int : /\ IsFiniteSet(V) /\ Cardinality(V) = n
                                                     /\ V # {} /\ ~Ends(V)}
<1>1. Bad = {}
  <2> SUFFICES ASSUME Bad # {} PROVE FALSE
    OBVIOUS
  <2>1. PICK n \in Bad : \A k \in Bad : n <= k
    <3>1. Bad \in SUBSET Nat
      OBVIOUS
    <3> HIDE DEF Bad
    <3> QED BY <3>1, LeastNat
  <2>2. PICK V \in SUBSET Int : IsFiniteSet(V) /\ Cardinality(V) = n /\ V # {} /\ ~Ends(V)
    BY <2>1
  <2>3. PICK e \in V : TRUE
    BY <2>2
  <2>4. PICK W : W = V \ {e}
    OBVIOUS
  <2>5. W \in SUBSET Int /\ IsFiniteSet(W) /\ Cardinality(W) = n - 1
    BY <2>2, <2>3, <2>4, FS_RemoveElement
  <2>6. n - 1 \in Nat /\ n - 1 \notin Bad
    <3>1. Cardinality(W) \in Nat
      BY <2>5, FS_CardinalityType
    <3> QED BY <2>1, <2>5, <3>1
  <2>7. CASE W = {}
    <3>1. V = {e}
      BY <2>3, <2>4, <2>7
    <3>2. Ends(V)
      BY <2>2, <2>3, <3>1
    <3> QED BY <2>2, <3>2
  <2>8. CASE W # {}
    <3>1. Ends(W)
      BY <2>5, <2>6, <2>8
    <3>2. PICK h \in W, l \in W : (\A y \in W : h >= y) /\ (\A y \in W : l <= y)
      BY <3>1
    <3>3. h \in Int /\ l \in Int /\ e \in Int /\ \A y \in V : y = e \/ y \in W
      BY <2>2, <2>3, <2>4, <3>2
    <3>4. \E x \in V : \A y \in V : x >= y
      <4>1. CASE h >= e
        BY <2>2, <2>4, <3>2, <3>3, <4>1
      <4>2. CASE ~(h >= e)
        <5>1. \A y \in W : e >= y
          BY <2>5, <3>2, <3>3, <4>2
        <5> QED BY <2>3, <3>3, <5>1
      <4> QED BY <4>1, <4>2
    <3>5. \E x \in V : \A y \in V : x <= y
      <4>1. CASE l <= e
        BY <2>2, <2>4, <3>2, <3>3, <4>1
      <4>2. CASE ~(l <= e)
        <5>1. \A y \in W : e <= y
          BY <2>5, <3>2, <3>3, <4>2
        <5> QED BY <2>3, <3>3, <5>1
      <4> QED BY <4>1, <4>2
    <3> QED BY <2>2, <3>4, <3>5
  <2> QED BY <2>7, <2>8
<1>2. Ends(S)
  <2>1. Cardinality(S) \in Nat
    BY FS_CardinalityType
  <2>2. Cardinality(S) \notin Bad
    BY <1>1
  <2> QED BY <2>1, <2>2
<1>3. Max(S) \in S /\ \A x \in S : Max(S) >= x
  BY <1>2 DEF Max
<1>4. Min(S) \in S /\ \A x \in S : Min(S) <= x
  BY <1>2 DEF Min
<1>5. \A x \in S : x <= Max(S)
  <2>1. \A x \in S : x \in Int
    OBVIOUS
  <2>2. Max(S) \in Int
    BY <1>3
  <2> QED BY <1>3, <2>1, <2>2
<1> QED BY <1>3, <1>4, <1>5

LEMMA LaterIs ==
    ASSUME NEW x \in Int, NEW y \in Int
    PROVE  Max({x, y}) = IF x >= y THEN x ELSE y
<1>1. IsFiniteSet({x, y}) /\ {x, y} # {} /\ {x, y} \in SUBSET Int
  <2>1. IsFiniteSet({x})
    BY FS_Singleton
  <2>2. IsFiniteSet({x} \cup {y})
    BY <2>1, FS_AddElement
  <2>3. {x} \cup {y} = {x, y}
    OBVIOUS
  <2> QED BY <2>2, <2>3
<1>2. PICK m, S : S = {x, y} /\ m = Max(S)
  OBVIOUS
<1>3. m \in S /\ \A z \in S : z <= m
  BY <1>1, <1>2, FiniteEnds
<1> QED BY <1>2, <1>3

\* The clock of a conversation that begins
Earliest(made) ==
    LET spoken == {i \in DOMAIN made : made[i].turn = Unset /\ \A j \in 1 .. i : made[j].turn = Unset}
    IN  IF spoken = {} THEN made[1].date ELSE Min({made[i].date : i \in spoken})

LEMMA EarliestIs ==
    ASSUME NEW made \in Seq(Parsed), made # << >>
    PROVE  /\ Earliest(made) \in Int
           /\ (\A p, q \in 1 .. Len(made) :
                  p < q /\ made[q].turn # 0 => made[p].date <= made[q].date) =>
                 \A q \in 1 .. Len(made) : made[q].turn # 0 => Earliest(made) <= made[q].date
<1>1. PICK l, spoken :
        /\ l = Len(made)
        /\ spoken = {i \in DOMAIN made : made[i].turn = Unset /\ \A j \in 1 .. i : made[j].turn = Unset}
  OBVIOUS
<1>2. l \in Nat \ {0} /\ DOMAIN made = 1 .. l /\ \A p \in 1 .. l : made[p] \in Parsed
  BY <1>1
<1>3. \A p \in 1 .. l : made[p].date \in Int
  BY <1>2 DEF Parsed
<1>4. CASE spoken = {}
  <2>1. Earliest(made) = made[1].date
    BY <1>1, <1>4 DEF Earliest
  <2>2. 1 \in 1 .. l /\ \A q \in 1 .. l : q = 1 \/ 1 < q
    BY <1>2
  <2>3. made[1].date \in Int /\ made[1].date <= made[1].date
    BY <1>3, <2>2
  <2> QED BY <1>1, <2>1, <2>2, <2>3
<1>5. CASE spoken # {}
  <2>1. PICK f : f = [i \in spoken |-> made[i].date]
    OBVIOUS
  <2>2. IsFiniteSet(spoken)
    <3>1. IsFiniteSet(1 .. l)
      BY <1>2, FS_Interval
    <3>2. spoken \in SUBSET (1 .. l)
      BY <1>1, <1>2
    <3> QED BY <3>1, <3>2, FS_Subset
  <2>3. PICK D : D = {made[i].date : i \in spoken}
    OBVIOUS
  <2>4. D = {f[i] : i \in spoken} /\ DOMAIN f = spoken
    BY <2>1, <2>3
  <2>5. IsFiniteSet(D)
    <3>1. IsFiniteSet({f[i] : i \in spoken})
      BY <2>2, <2>4, ImageIsFinite
    <3> QED BY <2>4, <3>1
  <2>6. D \in SUBSET Int /\ D # {}
    BY <1>1, <1>2, <1>3, <1>5, <2>3
  <2>7. Min(D) \in D
    BY <2>5, <2>6, FiniteEnds
  <2>8. Earliest(made) = Min(D)
    BY <1>1, <1>5, <2>3 DEF Earliest
  <2>9. PICK i \in spoken : Earliest(made) = made[i].date
    BY <2>3, <2>7, <2>8
  <2>10. i \in 1 .. l /\ \A j \in 1 .. i : made[j].turn = 0
    BY <1>1, <1>2, <2>9 DEF Unset
  <2>11. \A q \in 1 .. l : made[q].turn # 0 => i < q
    BY <1>2, <2>10
  <2> QED BY <1>1, <1>3, <2>9, <2>10, <2>11
<1> QED BY <1>4, <1>5

\* The bot's next message takes an ID above all that are stored or given.
LEMMA FirstBotIdIs ==
    ASSUME NEW made \in Seq(Parsed), NEW kept, kept.maxId \in Nat, kept.nextBot \in Nat
    PROVE  /\ FirstBotId(made, kept) \in Nat \ {0} /\ kept.nextBot <= FirstBotId(made, kept)
           /\ \A p \in 1 .. Len(made) : made[p].id < FirstBotId(made, kept)
<1>1. PICK l, I, top, bots :
        /\ l = Len(made) /\ I = MessageIds(made) \cup {kept.maxId} /\ top = Max(I)
        /\ bots = {BotBase, top + BotGap, kept.nextBot}
  OBVIOUS
<1>2. l \in Nat /\ DOMAIN made = 1 .. l /\ \A p \in 1 .. l : made[p] \in Parsed
  BY <1>1
<1>3. \A p \in 1 .. l : made[p].id \in Nat
  BY <1>2 DEF Parsed
<1>4. IsFiniteSet(I) /\ I \in SUBSET Nat /\ I # {}
  <2>1. PICK f : f = [i \in 1 .. l |-> made[i].id]
    OBVIOUS
  <2>2. MessageIds(made) = {f[i] : i \in 1 .. l} /\ DOMAIN f = 1 .. l
    BY <1>2, <2>1 DEF MessageIds
  <2>3. IsFiniteSet(1 .. l)
    BY <1>2, FS_Interval
  <2>4. IsFiniteSet({f[i] : i \in 1 .. l})
    BY <2>2, <2>3, ImageIsFinite
  <2>5. IsFiniteSet(I)
    BY <1>1, <2>2, <2>4, FS_AddElement
  <2>6. MessageIds(made) \subseteq Nat
    BY <1>2, <1>3 DEF MessageIds
  <2> QED BY <1>1, <2>5, <2>6
<1>5. top \in Nat /\ \A x \in I : x <= top
  <2>1. I \in SUBSET Int
    BY <1>4
  <2>2. Max(I) \in I /\ \A x \in I : x <= Max(I)
    BY <1>4, <2>1, FiniteEnds
  <2> QED BY <1>1, <1>4, <2>2
<1>6. BotBase \in Nat \ {0} /\ BotGap \in Nat \ {0}
  BY LabSandboxAssumption
<1>7. IsFiniteSet(bots) /\ bots \in SUBSET Nat /\ bots # {}
  <2>1. IsFiniteSet({BotBase})
    BY FS_Singleton
  <2>2. IsFiniteSet({BotBase} \cup {top + BotGap})
    BY <2>1, FS_AddElement
  <2>3. IsFiniteSet(({BotBase} \cup {top + BotGap}) \cup {kept.nextBot})
    BY <2>2, FS_AddElement
  <2>4. bots = ({BotBase} \cup {top + BotGap}) \cup {kept.nextBot}
    BY <1>1
  <2>5. top + BotGap \in Nat
    BY <1>5, <1>6
  <2> QED BY <1>1, <1>6, <2>3, <2>4, <2>5
<1>8. PICK n : n = Max(bots)
  OBVIOUS
<1>9. n \in Nat /\ \A x \in bots : x <= n
  <2>1. bots \in SUBSET Int
    BY <1>7
  <2>2. Max(bots) \in bots /\ \A x \in bots : x <= Max(bots)
    BY <1>7, <2>1, FiniteEnds
  <2> QED BY <1>7, <1>8, <2>2
<1>10. BotBase <= n /\ top + BotGap <= n /\ kept.nextBot <= n
  BY <1>1, <1>9
<1>11. \A p \in 1 .. l : made[p].id < n
  <2> TAKE p \in 1 .. l
  <2>1. made[p].id \in I
    BY <1>1, <1>2 DEF MessageIds
  <2>2. made[p].id <= top /\ made[p].id \in Nat
    BY <1>3, <1>5, <2>1
  <2> QED BY <1>5, <1>6, <1>9, <1>10, <2>2
<1>12. FirstBotId(made, kept) = n
  BY <1>1, <1>8 DEF FirstBotId
<1> QED BY <1>1, <1>6, <1>9, <1>10, <1>11, <1>12

\* What is read of a scenario may be played.
Playable(s, made, from, low) ==
    /\ made \in Seq(Parsed) /\ made # << >>
    /\ \A p \in 1 .. Len(made) : made[p].id \in Nat \ {0}
    /\ \A p, q \in 1 .. Len(made) : p < q => made[p].id # made[q].id
    /\ ~OwnIds(s) => \A p \in 1 .. Len(made) : made[p].id >= from
    /\ ~dated /\ ~OwnDates(s) =>
          /\ \A p, q \in 1 .. Len(made) : p < q /\ made[q].turn # 0 => made[p].date <= made[q].date
          /\ \A q \in 1 .. Len(made) : made[q].turn # 0 => low <= made[q].date

LEMMA OpensChat ==
    ASSUME ChatInv, NEW s \in Played \cup Continuations, NEW made, NEW from, NEW low \in Int,
           Playable(s, made, from, low), DefaultStart <= low \/ dated,
           played < MaxPlayed, Opens(s, made),
           \/ stage = "idle"
           \/ stage = "over" /\ saved # NotStarted /\ from = saved.maxId + 1
                             /\ (~dated /\ ~OwnDates(s) => saved.clock <= low)
    PROVE  ChatInv'
<1>1. /\ script' = made /\ pos' = 1 /\ turns' = << >> /\ played' = played + 1
      /\ dated' = (dated \/ OwnDates(s))
      /\ named' = (named \/ (saved # NotStarted /\ OwnIds(s)))
      /\ UNCHANGED chat /\ UNCHANGED heard
  BY DEF Opens
<1>2. ChatTyped /\ NothingYet /\ SavedIsTrue /\ NothingIsOverwritten
  BY DEF ChatInv
<1>3. /\ made \in Seq(Parsed) /\ made # << >>
      /\ \A p \in 1 .. Len(made) : made[p].id \in Nat \ {0}
      /\ \A p, q \in 1 .. Len(made) : p < q => made[p].id # made[q].id
      /\ ~OwnIds(s) => \A p \in 1 .. Len(made) : made[p].id >= from
      /\ ~dated /\ ~OwnDates(s) =>
            /\ \A p, q \in 1 .. Len(made) : p < q /\ made[q].turn # 0 => made[p].date <= made[q].date
            /\ \A q \in 1 .. Len(made) : made[q].turn # 0 => low <= made[q].date
  BY DEF Playable
<1>4. turns' \in Seq(TurnResult) /\ played' \in 0 .. MaxPlayed
      /\ dated' \in BOOLEAN /\ named' \in BOOLEAN
  <2>1. played \in 0 .. MaxPlayed /\ MaxPlayed \in Nat
    BY <1>2, LabSandboxAssumption DEF ChatTyped
  <2>2. played' \in 0 .. MaxPlayed
    BY <1>1, <2>1
  <2>3. turns' \in Seq(TurnResult)
    BY <1>1
  <2> QED BY <1>1, <2>2, <2>3
<1>5. NothingIsOverwritten'
  BY <1>1, <1>2 DEF NothingIsOverwritten
<1>6. CASE "web_search" \in s.requires
  <2>1. /\ stage' = "over" /\ outcome' = "skipped" /\ saved' = NotStarted
        /\ UNCHANGED clock /\ UNCHANGED nextBot /\ UNCHANGED reminders /\ UNCHANGED lastAnswer
    BY <1>6 DEF Opens
  <2>2. ChatTyped'
    <3>1. outcome' \in AttemptOutcomes /\ stage' \in Stages /\ pos' \in Nat \ {0}
      BY <1>1, <2>1 DEF AttemptOutcomes, Stages
    <3> QED BY <1>1, <1>2, <1>3, <1>4, <2>1, <3>1 DEF ChatTyped
  <2>3. NothingYet' /\ IdsAreFree' /\ TimeIsAhead' /\ SavedIsTrue' /\ AnsweredInItsTime'
    BY <2>1 DEF NothingYet, IdsAreFree, TimeIsAhead, SavedIsTrue, AnsweredInItsTime
  <2>4. RemindersEnd'
    BY <2>1 DEF RemindersEnd
  <2> QED BY <1>5, <2>1, <2>2, <2>3, <2>4 DEF ChatInv
<1>7. CASE "web_search" \notin s.requires
  <2>1. PICK kept : kept = Kept
    OBVIOUS
  <2>2. /\ stage' = "playing" /\ outcome' = ""
        /\ reminders' \in {reminders, Seeded(s)}
        /\ clock' = IF saved = NotStarted THEN Earliest(made) ELSE saved.clock
        /\ nextBot' = FirstBotId(made, kept)
        /\ lastAnswer' = IF kept.lastAnswer \in DOMAIN chat THEN kept.lastAnswer ELSE Unset
    BY <1>7, <2>1 DEF Opens, Earliest
  <2>3. /\ kept.maxId \in Nat /\ kept.nextBot \in Nat
        /\ \A id \in DOMAIN chat : id <= kept.maxId /\ id < kept.nextBot
    <3>1. CASE saved = NotStarted
      <4>1. stage = "idle"
        BY <3>1
      <4>2. DOMAIN chat = {}
        BY <1>2, <4>1 DEF NothingYet
      <4> QED BY <2>1, <3>1, <4>2 DEF Kept
    <3>2. CASE saved # NotStarted
      <4>1. stage = "over"
        BY <1>2, <3>2 DEF NothingYet
      <4> QED BY <1>2, <2>1, <3>2, <4>1 DEF SavedIsTrue, Kept
    <3> QED BY <3>1, <3>2
  <2>4. /\ nextBot' \in Nat \ {0} /\ kept.nextBot <= nextBot'
        /\ \A p \in 1 .. Len(made) : made[p].id < nextBot'
    BY <1>3, <2>2, <2>3, FirstBotIdIs
  <2>5. IsFiniteSet(reminders') /\ reminders' \subseteq Reminder
    <3>1. CASE reminders' = reminders
      BY <1>2, <3>1 DEF ChatTyped
    <3>2. CASE reminders' = Seeded(s)
      <4>1. IsFiniteSet(s.reminders) /\ s.reminders \in SUBSET Nat
        BY LabSandboxAssumption DEF RawScenario
      <4>2. PICK f, none : none = 0 /\ f = [due \in s.reminders |-> [due |-> due, next |-> none]]
        OBVIOUS
      <4>3. Seeded(s) = {f[due] : due \in s.reminders} /\ DOMAIN f = s.reminders
        BY <4>2 DEF Seeded
      <4>4. IsFiniteSet({f[due] : due \in s.reminders})
        BY <4>1, <4>3, ImageIsFinite
      <4>5. Seeded(s) \subseteq Reminder
        BY <4>1 DEF Seeded, Reminder
      <4> QED BY <3>2, <4>3, <4>4, <4>5
    <3> QED BY <2>2, <3>1, <3>2
  <2>6. clock' \in Int
    <3>1. CASE saved = NotStarted
      BY <1>3, <2>2, <3>1, EarliestIs
    <3>2. CASE saved # NotStarted
      <4>1. stage = "over"
        BY <1>2, <3>2 DEF NothingYet
      <4> QED BY <1>2, <2>2, <3>2, <4>1 DEF SavedIsTrue
    <3> QED BY <3>1, <3>2
  <2>7. ChatTyped'
    <3>1. stage' \in Stages /\ pos' \in Nat \ {0} /\ outcome' \in AttemptOutcomes \cup {""}
      <4>1. stage' = "playing" /\ outcome' = "" /\ pos' = 1
        BY <1>1, <2>2, Zenon
      <4>2. stage' \in Stages
        BY <4>1 DEF Stages
      <4>3. outcome' \in AttemptOutcomes \cup {""}
        BY <4>1
      <4>4. pos' \in Nat \ {0}
        BY <1>1
      <4> QED BY <4>2, <4>3, <4>4
    <3>2. lastAnswer' \in DOMAIN chat \cup {Unset}
      BY <2>2
    <3>3. \A id \in DOMAIN chat : id \in Nat \ {0} /\ id < nextBot' /\ chat[id].date \in Int
      <4> TAKE id \in DOMAIN chat
      <4>1. id \in Nat \ {0} /\ chat[id].date \in Int
        BY <1>2 DEF ChatTyped
      <4>2. id < nextBot'
        BY <2>3, <2>4, <4>1
      <4> QED BY <4>1, <4>2
    <3> QED BY <1>1, <1>2, <1>3, <1>4, <2>4, <2>5, <2>6, <3>1, <3>2, <3>3 DEF ChatTyped
  <2>8. IdsAreFree'
    <3>1. \A p \in 1 .. Len(made) : made[p].id # 0 /\ made[p].id < nextBot'
      BY <1>3, <2>4
    <3>2. ASSUME ~named', NEW p \in 1 .. Len(made) PROVE made[p].id \notin DOMAIN chat
      <4>1. CASE stage = "idle"
        BY <1>2, <4>1 DEF NothingYet
      <4>2. CASE stage # "idle"
        <5>1. stage = "over" /\ saved # NotStarted /\ from = saved.maxId + 1
          BY <4>2
        <5>2. made[p].id >= saved.maxId + 1
          BY <1>1, <1>3, <3>2, <5>1
        <5>3. saved.maxId \in Nat /\ \A id \in DOMAIN chat : id <= saved.maxId
          BY <1>2, <5>1 DEF SavedIsTrue
        <5>4. made[p].id \in Nat
          BY <1>3
        <5> QED BY <5>2, <5>3, <5>4
      <4> QED BY <4>1, <4>2
    <3> QED BY <1>1, <1>3, <3>1, <3>2 DEF IdsAreFree, Unset
  <2>9. TimeIsAhead'
    <3> SUFFICES ASSUME ~dated' PROVE TimeIsAhead'
      BY DEF TimeIsAhead
    <3>1. ~dated /\ ~OwnDates(s) /\ DefaultStart <= low
      BY <1>1
    <3>2. \A p, q \in 1 .. Len(made) : p < q /\ made[q].turn # 0 => made[p].date <= made[q].date
      BY <1>3, <3>1
    <3>3. \A q \in 1 .. Len(made) : made[q].turn # 0 => low <= made[q].date
      BY <1>3, <3>1
    <3>4. ASSUME NEW q \in 1 .. Len(made), made[q].turn # 0
          PROVE  DefaultStart <= made[q].date /\ clock' <= made[q].date
      <4>1. made[q].date \in Int /\ low <= made[q].date /\ DefaultStart \in Int
        <5>1. made[q] \in Parsed
          BY <1>3
        <5> QED BY <3>3, <3>4, <5>1, LabScenarioAssumption DEF Parsed
      <4>2. CASE saved = NotStarted
        <5>1. Earliest(made) <= made[q].date
          BY <1>3, <3>2, <3>4, EarliestIs
        <5>2. clock' = Earliest(made)
          BY <2>2, <4>2, Zenon
        <5>3. DefaultStart <= made[q].date
          BY <3>1, <4>1
        <5> QED BY <5>1, <5>2, <5>3
      <4>3. CASE saved # NotStarted
        <5>1. stage = "over"
          BY <1>2, <4>3 DEF NothingYet
        <5>2. saved.clock <= low /\ saved.clock \in Int
          BY <1>2, <3>1, <4>3, <5>1 DEF SavedIsTrue
        <5>3. clock' = saved.clock
          BY <2>2, <4>3, Zenon
        <5>4. DefaultStart <= made[q].date /\ saved.clock <= made[q].date
          BY <3>1, <4>1, <5>2
        <5> QED BY <5>3, <5>4
      <4> QED BY <4>2, <4>3
    <3> QED BY <1>1, <2>2, <3>2, <3>4 DEF TimeIsAhead, Unset
  <2>10. NothingYet' /\ SavedIsTrue' /\ AnsweredInItsTime'
    BY <2>2 DEF NothingYet, SavedIsTrue, AnsweredInItsTime
  <2>11. RemindersEnd'
    <3>1. raw' = s
      BY DEF Opens
    <3>2. IsFiniteSet(s.reminders)
      BY LabSandboxAssumption
    <3> QED BY <3>1, <3>2 DEF RemindersEnd
  <2> QED BY <1>5, <2>2, <2>7, <2>8, <2>9, <2>10, <2>11 DEF ChatInv
<1> QED BY <1>6, <1>7

\* What parses may be played, at the times it was given.
LEMMA ParsedIsPlayable ==
    ASSUME NEW s \in Played \cup Continuations, NEW from \in Nat \ {0}, NEW time \in Int, NEW low,
           ParseScenario(s, from, time).ok,
           ~dated /\ ~OwnDates(s) => low = Or(time, DefaultStart) /\ DefaultStart <= low
    PROVE  Playable(s, ParseScenario(s, from, time).made, from, low)
<1>1. s \in RawScenario /\ s.turns # << >>
  BY LabSandboxAssumption
<1>2. PICK b, m : b = ParseScenario(s, from, time) /\ m = b.made
  OBVIOUS
<1>3. /\ m \in Seq(Parsed)
      /\ \A p \in 1 .. Len(m) : m[p].id \in Nat \ {0}
      /\ \A p, q \in 1 .. Len(m) : p < q => m[p].id # m[q].id
      /\ ~OwnIds(s) => \A p \in 1 .. Len(m) : m[p].id >= from
  BY <1>1, <1>2, ParsedIsPlaced
<1>4. m # << >>
  <2>1. b.ok => \E T : b.made \in Seq(T) /\ Numbered(b.made, Len(s.turns))
    BY <1>1, <1>2, ParsedIsBuilt
  <2>2. Numbered(m, Len(s.turns))
    BY <1>2, <2>1
  <2>3. s.turns \in Seq(RawTurn)
    BY <1>1 DEF RawScenario
  <2>4. Len(s.turns) > 0
    BY <1>1, <2>3
  <2>5. \E p \in 1 .. Len(m) : m[p].turn = Len(s.turns)
    BY <2>2, <2>4 DEF Numbered
  <2> QED BY <2>5
<1>5. ~dated /\ ~OwnDates(s) =>
        /\ \A p, q \in 1 .. Len(m) : p < q /\ m[q].turn # 0 => m[p].date <= m[q].date
        /\ \A q \in 1 .. Len(m) : m[q].turn # 0 => low <= m[q].date
  <2> SUFFICES ASSUME ~dated, ~OwnDates(s)
               PROVE  /\ \A p, q \in 1 .. Len(m) : p < q /\ m[q].turn # 0 => m[p].date <= m[q].date
                      /\ \A q \in 1 .. Len(m) : m[q].turn # 0 => low <= m[q].date
    OBVIOUS
  <2>1. low = Or(time, DefaultStart) /\ DefaultStart <= low
    OBVIOUS
  <2>2. LET c == ParseScenario(s, from, time).made
        IN  /\ \A p, q \in 1 .. Len(c) : p < q /\ c[q].turn # 0 => c[p].date <= c[q].date
            /\ \A q \in 1 .. Len(c) : c[q].turn # 0 => low <= c[q].date
    BY <1>1, <2>1, ParsedIsTimed
  <2> QED BY <1>2, <2>2
<1>6. Playable(s, m, from, low)
  BY <1>3, <1>4, <1>5 DEF Playable
<1> QED BY <1>2, <1>6

LEMMA RefusedChat ==
    ASSUME ChatInv, NEW s, Refused(s), played < MaxPlayed
    PROVE  ChatInv'
<1>1. /\ stage' = "over" /\ outcome' = "skipped" /\ played' = played + 1 /\ saved' = NotStarted
      /\ UNCHANGED script /\ UNCHANGED pos /\ UNCHANGED clock /\ UNCHANGED chat
      /\ UNCHANGED heard /\ UNCHANGED reminders /\ UNCHANGED nextBot /\ UNCHANGED lastAnswer
      /\ UNCHANGED turns /\ UNCHANGED dated /\ UNCHANGED named
  BY DEF Refused
<1>2. ChatTyped /\ NothingIsOverwritten
  BY DEF ChatInv
<1>3. played' \in 0 .. MaxPlayed
  <2>1. played \in 0 .. MaxPlayed /\ MaxPlayed \in Nat
    BY <1>2, LabSandboxAssumption DEF ChatTyped
  <2> QED BY <1>1, <2>1
<1>4. ChatTyped'
  <2>1. outcome' \in AttemptOutcomes /\ stage' \in Stages
    BY <1>1 DEF AttemptOutcomes, Stages
  <2> QED BY <1>1, <1>2, <1>3, <2>1 DEF ChatTyped
<1>5. NothingIsOverwritten'
  BY <1>1, <1>2 DEF NothingIsOverwritten
<1>6. /\ NothingYet' /\ IdsAreFree' /\ TimeIsAhead' /\ SavedIsTrue' /\ AnsweredInItsTime'
      /\ RemindersEnd'
  BY <1>1 DEF NothingYet, IdsAreFree, TimeIsAhead, SavedIsTrue, AnsweredInItsTime, RemindersEnd
<1> QED BY <1>1, <1>4, <1>5, <1>6 DEF ChatInv

LEMMA BeginsChat ==
    ASSUME ChatInv, NEW s \in Played, Begin(s)
    PROVE  ChatInv'
<1>1. PICK b, time, low : b = ParseScenario(s, 1, time) /\ time = s.time /\ low = DefaultStart
  OBVIOUS
<1>2. stage = "idle" /\ IF b.ok THEN Opens(s, b.made) ELSE Refused(s)
  BY <1>1 DEF Begin
<1>3. s \in Played \cup Continuations /\ s \in RawScenario
  BY LabSandboxAssumption
<1>4. played < MaxPlayed
  BY <1>2, LabSandboxAssumption DEF ChatInv, NothingYet
<1>5. CASE b.ok
  <2>1. time \in Nat /\ time \in Int
    BY <1>1, <1>3 DEF RawScenario
  <2>2. low \in Int /\ DefaultStart <= low
    BY <1>1, LabScenarioAssumption
  <2>3. ~dated /\ ~OwnDates(s) => low = Or(time, DefaultStart) /\ DefaultStart <= low
    BY <1>1, <2>2 DEF OwnDates, Or, Unset
  <2>4. PICK from : from = 1 /\ from \in Nat \ {0}
    OBVIOUS
  <2>5. b = ParseScenario(s, from, time) /\ ParseScenario(s, from, time).ok
    BY <1>1, <1>5, <2>4
  <2>6. Playable(s, b.made, from, low)
    BY <1>3, <2>1, <2>3, <2>4, <2>5, ParsedIsPlayable
  <2>7. Opens(s, b.made)
    BY <1>2, <1>5
  <2> QED BY <1>2, <1>3, <1>4, <2>2, <2>6, <2>7, OpensChat
<1>6. CASE ~b.ok
  BY <1>2, <1>4, <1>6, RefusedChat
<1> QED BY <1>5, <1>6

LEMMA ContinuesChat ==
    ASSUME ChatInv, NEW s \in Continuations, Continue(s)
    PROVE  ChatInv'
<1>1. PICK b, time, from, low :
        /\ time = IF s.time = Unset /\ s.turns[1].date = Unset
                  THEN saved.clock + 2 * Minute ELSE s.time
        /\ from = saved.maxId + 1 /\ low = saved.clock + 2 * Minute
        /\ b = ParseScenario(s, from, time)
  OBVIOUS
<1>2. /\ stage = "over" /\ saved # NotStarted /\ played < MaxPlayed
      /\ IF b.ok THEN Opens(s, b.made) ELSE Refused(s)
  BY <1>1 DEF Continue, FirstId
<1>3. s \in Played \cup Continuations /\ s \in RawScenario /\ s.turns # << >>
  BY LabSandboxAssumption
<1>4. CASE b.ok
  <2>1. /\ saved.maxId \in Nat /\ saved.clock \in Int
        /\ ~dated => saved.clock >= DefaultStart
    BY <1>2 DEF ChatInv, SavedIsTrue
  <2>2. Minute \in Nat \ {0} /\ DefaultStart \in Nat \ {0}
    BY LabScenarioAssumption
  <2>3. s.time \in Nat
    BY <1>3 DEF RawScenario
  <2>4. time \in Int /\ from \in Nat \ {0} /\ low \in Int /\ saved.clock <= low
    BY <1>1, <2>1, <2>2, <2>3
  <2>5. ~dated => DefaultStart <= low
    BY <1>1, <2>1, <2>2
  <2>6. ~dated /\ ~OwnDates(s) => low = Or(time, DefaultStart) /\ DefaultStart <= low
    <3> SUFFICES ASSUME ~dated, ~OwnDates(s)
                 PROVE  low = Or(time, DefaultStart) /\ DefaultStart <= low
      OBVIOUS
    <3>1. s.time = 0
      BY DEF OwnDates, Unset
    <3>2. s.turns[1].date = 0
      <4>1. s.turns \in Seq(RawTurn)
        BY <1>3 DEF RawScenario
      <4>2. 1 \in DOMAIN s.turns
        BY <1>3, <4>1
      <4> QED BY <4>2 DEF OwnDates, Unset
    <3>3. time = low
      BY <1>1, <3>1, <3>2 DEF Unset
    <3>4. low # 0
      BY <2>2, <2>4, <2>5
    <3> QED BY <2>5, <3>3, <3>4 DEF Or, Unset
  <2>7. ParseScenario(s, from, time).ok
    BY <1>1, <1>4
  <2>8. Playable(s, b.made, from, low)
    BY <1>1, <1>3, <2>4, <2>6, <2>7, ParsedIsPlayable
  <2>9. Opens(s, b.made)
    BY <1>2, <1>4
  <2>10. DefaultStart <= low \/ dated
    BY <2>5
  <2> QED BY <1>1, <1>2, <1>3, <2>4, <2>8, <2>9, <2>10, OpensChat
<1>5. CASE ~b.ok
  BY <1>2, <1>5, RefusedChat
<1> QED BY <1>4, <1>5

\* The bot's messages take the next IDs, which nothing has.
LEMMA SendsIs ==
    ASSUME ChatTyped, nextBot > 0, NEW n \in Nat, NEW at \in Int, SendsMessages(n, at)
    PROVE  /\ DOMAIN chat' = DOMAIN chat \cup nextBot .. nextBot + n - 1
           /\ IsFiniteSet(DOMAIN chat')
           /\ \A id \in DOMAIN chat' : id \in Nat \ {0} /\ id < nextBot' /\ chat'[id].date \in Int
           /\ nextBot' = nextBot + n /\ nextBot' \in Nat /\ nextBot <= nextBot' /\ heard' \in Nat
           /\ Cardinality(DOMAIN chat) = heard => Cardinality(DOMAIN chat') = heard'
<1>1. PICK row, new : /\ row = [date |-> at, bot |-> TRUE] /\ new = nextBot .. nextBot + n - 1
  OBVIOUS
<1>2. /\ chat' = [k \in DOMAIN chat \cup new |->
                     IF k >= nextBot /\ k < nextBot + n THEN row ELSE chat[k]]
      /\ heard' = heard + n /\ nextBot' = nextBot + n
  BY <1>1 DEF SendsMessages
<1>3. /\ heard \in Nat /\ nextBot \in Nat /\ IsFiniteSet(DOMAIN chat)
      /\ \A id \in DOMAIN chat : id \in Nat \ {0} /\ id < nextBot /\ chat[id].date \in Int
  BY DEF ChatTyped
<1>4. DOMAIN chat' = DOMAIN chat \cup new
  BY <1>2
<1>5. IsFiniteSet(new) /\ Cardinality(new) = n
  <2>1. nextBot + n - 1 \in Int /\ nextBot \in Int
    BY <1>3
  <2>2. IsFiniteSet(new)
    BY <1>1, <2>1, FS_Interval
  <2>3. Cardinality(new) = IF nextBot > nextBot + n - 1 THEN 0
                           ELSE nextBot + n - 1 - nextBot + 1
    BY <1>1, <2>1, FS_Interval
  <2>4. Cardinality(new) = n
    BY <1>3, <2>3
  <2> QED BY <2>2, <2>4
<1>6. DOMAIN chat \cap new = {}
  BY <1>1, <1>3
<1>7. /\ IsFiniteSet(DOMAIN chat \cup new)
      /\ Cardinality(DOMAIN chat \cup new) = Cardinality(DOMAIN chat) + n
  <2>1. IsFiniteSet(DOMAIN chat \cup new)
    BY <1>3, <1>5, FS_Union
  <2>2. Cardinality(DOMAIN chat \cup new)
           = Cardinality(DOMAIN chat) + Cardinality(new) - Cardinality(DOMAIN chat \cap new)
    BY <1>3, <1>5, FS_Union
  <2>3. Cardinality(DOMAIN chat \cap new) = 0
    BY <1>6, FS_EmptySet
  <2>4. Cardinality(DOMAIN chat) \in Nat
    BY <1>3, FS_CardinalityType
  <2>5. Cardinality(DOMAIN chat \cup new) = Cardinality(DOMAIN chat) + n
    BY <1>5, <2>2, <2>3, <2>4
  <2> QED BY <2>1, <2>5
<1>8. ASSUME NEW id \in DOMAIN chat'
      PROVE  id \in Nat \ {0} /\ id < nextBot' /\ chat'[id].date \in Int
  <2>1. CASE id \in new
    <3>1. id \in Nat \ {0} /\ id >= nextBot /\ id < nextBot + n
      BY <1>1, <1>3, <2>1
    <3>2. chat'[id] = row
      BY <1>2, <1>4, <3>1
    <3>3. chat'[id].date \in Int
      BY <1>1, <3>2
    <3> QED BY <1>2, <3>1, <3>3
  <2>2. CASE id \in DOMAIN chat
    <3>1. id \in Nat \ {0} /\ id < nextBot /\ chat[id].date \in Int
      BY <1>3, <2>2
    <3>2. chat'[id] = chat[id]
      BY <1>2, <1>3, <1>4, <3>1
    <3>3. id < nextBot'
      BY <1>2, <1>3, <3>1
    <3> QED BY <3>1, <3>2, <3>3
  <2> QED BY <1>4, <2>1, <2>2
<1>9. nextBot' \in Nat /\ nextBot <= nextBot' /\ heard' \in Nat
  BY <1>2, <1>3
<1> QED BY <1>1, <1>2, <1>4, <1>7, <1>8, <1>9

\* A message stored under its ID
LEMMA StoredIs ==
    ASSUME ChatTyped, NEW id \in Nat \ {0}, id < nextBot, NEW date \in Int, NEW bot, NEW c,
           c = Stored(chat, id, date, bot)
    PROVE  /\ DOMAIN c = DOMAIN chat \cup {id}
           /\ IsFiniteSet(DOMAIN c)
           /\ \A k \in DOMAIN c : k \in Nat \ {0} /\ k < nextBot /\ c[k].date \in Int
           /\ heard + 1 \in Nat
           /\ id \notin DOMAIN chat /\ Cardinality(DOMAIN chat) = heard =>
                  Cardinality(DOMAIN c) = heard + 1
<1>1. PICK row : row = [date |-> date, bot |-> bot]
  OBVIOUS
<1>2. c = [k \in DOMAIN chat \cup {id} |-> IF k = id THEN row ELSE chat[k]]
  BY <1>1 DEF Stored
<1>3. /\ heard \in Nat /\ IsFiniteSet(DOMAIN chat)
      /\ \A k \in DOMAIN chat : k \in Nat \ {0} /\ k < nextBot /\ chat[k].date \in Int
  BY DEF ChatTyped
<1>4. DOMAIN c = DOMAIN chat \cup {id}
  BY <1>2
<1>5. IsFiniteSet(DOMAIN c)
  BY <1>3, <1>4, FS_AddElement
<1>6. ASSUME NEW k \in DOMAIN c PROVE k \in Nat \ {0} /\ k < nextBot /\ c[k].date \in Int
  <2>1. CASE k = id
    BY <1>1, <1>2, <1>4, <2>1
  <2>2. CASE k # id
    <3>1. k \in DOMAIN chat /\ c[k] = chat[k]
      BY <1>2, <1>4, <2>2
    <3> QED BY <1>3, <3>1
  <2> QED BY <2>1, <2>2
<1>7. ASSUME id \notin DOMAIN chat, Cardinality(DOMAIN chat) = heard
      PROVE  Cardinality(DOMAIN c) = heard + 1
  <2>1. Cardinality(DOMAIN chat \cup {id}) = Cardinality(DOMAIN chat) + 1
    BY <1>3, <1>7, FS_AddElement
  <2> QED BY <1>4, <1>7, <2>1
<1>8. heard + 1 \in Nat
  BY <1>3
<1> QED BY <1>4, <1>5, <1>6, <1>7, <1>8

LEMMA ComingIs ==
    ASSUME ChatTyped, pos <= Len(script)
    PROVE  /\ pos \in 1 .. Len(script) /\ Len(script) \in Nat /\ Coming \in Parsed
           /\ Coming.date \in Int /\ Coming.id \in Nat
           /\ Later(Coming.date) = IF clock >= Coming.date THEN clock ELSE Coming.date
           /\ Later(Coming.date) \in Int
<1>1. script \in Seq(Parsed) /\ pos \in Nat \ {0} /\ clock \in Int
  BY DEF ChatTyped
<1>2. pos \in 1 .. Len(script) /\ Len(script) \in Nat
  BY <1>1
<1>3. Coming \in Parsed
  BY <1>1, <1>2 DEF Coming
<1>4. Coming.date \in Int /\ Coming.id \in Nat
  BY <1>3 DEF Parsed
<1>5. Later(Coming.date) = IF clock >= Coming.date THEN clock ELSE Coming.date
  BY <1>1, <1>4, LaterIs DEF Later
<1> QED BY <1>1, <1>2, <1>3, <1>4, <1>5

\* What is stored keeps the chat's IDs apart, and those to come free.
LEMMA StoresComing ==
    ASSUME ChatInv, pos <= Len(script), stage = "playing", NEW bot,
           chat' = Stored(chat, Coming.id, Coming.date, bot), heard' = heard + 1,
           UNCHANGED nextBot, UNCHANGED script, UNCHANGED named
    PROVE  /\ IsFiniteSet(DOMAIN chat') /\ heard' \in Nat
           /\ \A id \in DOMAIN chat' : id \in Nat \ {0} /\ id < nextBot' /\ chat'[id].date \in Int
           /\ DOMAIN chat \subseteq DOMAIN chat'
           /\ NothingIsOverwritten'
           /\ ~named => \A p \in 1 .. Len(script) : p >= pos + 1 => script[p].id \notin DOMAIN chat'
<1>1. ChatTyped /\ IdsAreFree /\ NothingIsOverwritten
  BY DEF ChatInv
<1>2. /\ pos \in 1 .. Len(script) /\ Len(script) \in Nat
      /\ Coming.date \in Int /\ Coming.id \in Nat /\ Coming = script[pos]
  BY <1>1, ComingIs DEF Coming
<1>3. Coming.id \in Nat \ {0} /\ Coming.id < nextBot
  BY <1>1, <1>2 DEF IdsAreFree, Unset
<1>4. PICK c, id, date : /\ c = Stored(chat, id, date, bot) /\ id = Coming.id
                         /\ date = Coming.date
  OBVIOUS
<1>5. chat' = c
  BY <1>4
<1>6. /\ DOMAIN c = DOMAIN chat \cup {id}
      /\ IsFiniteSet(DOMAIN c)
      /\ \A k \in DOMAIN c : k \in Nat \ {0} /\ k < nextBot /\ c[k].date \in Int
      /\ heard + 1 \in Nat
      /\ id \notin DOMAIN chat /\ Cardinality(DOMAIN chat) = heard =>
             Cardinality(DOMAIN c) = heard + 1
  <2>1. id \in Nat \ {0} /\ id < nextBot /\ date \in Int
    BY <1>2, <1>3, <1>4
  <2>2. c = Stored(chat, id, date, bot) /\ ChatTyped
    BY <1>1, <1>4
  <2> QED BY <2>1, <2>2, StoredIs
<1>7. ASSUME ~named
      PROVE  /\ id \notin DOMAIN chat
             /\ \A p \in 1 .. Len(script) : p >= pos + 1 => script[p].id \notin DOMAIN chat'
  <2>1. /\ \A p, q \in 1 .. Len(script) : p < q => script[p].id # script[q].id
        /\ \A p \in 1 .. Len(script) : p >= pos => script[p].id \notin DOMAIN chat
    BY <1>1, <1>7 DEF IdsAreFree, Ahead
  <2>2. id \notin DOMAIN chat /\ id = script[pos].id
    BY <1>2, <1>4, <2>1
  <2>3. ASSUME NEW p \in 1 .. Len(script), p >= pos + 1 PROVE script[p].id \notin DOMAIN chat'
    <3>1. script[p].id # id
      BY <1>2, <2>1, <2>2, <2>3
    <3>2. script[p].id \notin DOMAIN chat
      BY <1>2, <2>1, <2>3
    <3> QED BY <1>5, <1>6, <3>1, <3>2
  <2> QED BY <2>2, <2>3
<1>8. NothingIsOverwritten'
  BY <1>1, <1>5, <1>6, <1>7 DEF NothingIsOverwritten
<1> QED BY <1>5, <1>6, <1>7, <1>8

\* The next of the messages, or the asker's turn, is at its own time.
LEMMA ReceivesChat ==
    ASSUME ChatInv, SandboxInv, Receive
    PROVE  ChatInv'
<1>1. /\ stage = "playing" /\ pos <= Len(script) /\ pos' = pos + 1
      /\ clock' = Later(Coming.date)
      /\ chat' = Stored(chat, Coming.id, Coming.date, Coming.bot) /\ heard' = heard + 1
      /\ reminders' = IF SetupEnds /\ played = 1 THEN reminders \cup Seeded(raw) ELSE reminders
      /\ UNCHANGED raw /\ UNCHANGED script /\ UNCHANGED stage /\ UNCHANGED nextBot
      /\ UNCHANGED lastAnswer /\ UNCHANGED turns /\ UNCHANGED outcome /\ UNCHANGED saved
      /\ UNCHANGED played /\ UNCHANGED dated /\ UNCHANGED named
  BY DEF Receive
<1>2. ChatTyped /\ IdsAreFree /\ TimeIsAhead /\ RemindersEnd
  BY DEF ChatInv
<1>3. /\ pos \in 1 .. Len(script) /\ Len(script) \in Nat /\ Coming.date \in Int
      /\ Later(Coming.date) = IF clock >= Coming.date THEN clock ELSE Coming.date
      /\ Later(Coming.date) \in Int /\ Coming = script[pos]
  BY <1>1, <1>2, ComingIs DEF Coming
<1>4. PICK bot : bot = Coming.bot
  OBVIOUS
<1>5. /\ IsFiniteSet(DOMAIN chat') /\ heard' \in Nat
      /\ \A id \in DOMAIN chat' : id \in Nat \ {0} /\ id < nextBot' /\ chat'[id].date \in Int
      /\ DOMAIN chat \subseteq DOMAIN chat'
      /\ NothingIsOverwritten'
      /\ ~named => \A p \in 1 .. Len(script) : p >= pos + 1 => script[p].id \notin DOMAIN chat'
  <2>1. chat' = Stored(chat, Coming.id, Coming.date, bot)
    BY <1>1, <1>4
  <2> QED BY <1>1, <2>1, StoresComing
<1>6. IsFiniteSet(reminders') /\ reminders' \subseteq Reminder
  <2>1. raw.reminders \in SUBSET Nat /\ IsFiniteSet(raw.reminders)
    <3>1. raw \in RawScenario
      BY <1>1 DEF SandboxInv, TurnsAreTrue
    <3> QED BY <1>1, <1>2, <3>1 DEF RawScenario, RemindersEnd
  <2>2. IsFiniteSet(Seeded(raw)) /\ Seeded(raw) \subseteq Reminder
    <3>1. PICK f, none, S : /\ none = 0 /\ S = raw.reminders
                            /\ f = [due \in S |-> [due |-> due, next |-> none]]
      OBVIOUS
    <3>2. Seeded(raw) = {f[due] : due \in S} /\ DOMAIN f = S
      BY <3>1 DEF Seeded
    <3>3. IsFiniteSet({f[due] : due \in S})
      BY <2>1, <3>1, <3>2, ImageIsFinite
    <3>4. Seeded(raw) \subseteq Reminder
      BY <2>1 DEF Seeded, Reminder
    <3> QED BY <3>2, <3>3, <3>4
  <2>3. IsFiniteSet(reminders) /\ reminders \subseteq Reminder
    BY <1>2 DEF ChatTyped
  <2>4. IsFiniteSet(reminders \cup Seeded(raw))
    BY <2>2, <2>3, FS_Union
  <2> QED BY <1>1, <2>2, <2>3, <2>4
<1>7. ChatTyped'
  <2>1. pos' \in Nat \ {0} /\ clock' \in Int
    BY <1>1, <1>3
  <2>2. lastAnswer' \in DOMAIN chat' \cup {Unset}
    BY <1>1, <1>2, <1>5 DEF ChatTyped
  <2> QED BY <1>1, <1>2, <1>5, <1>6, <2>1, <2>2 DEF ChatTyped
<1>8. IdsAreFree'
  <2>1. Ahead' = pos + 1
    BY <1>1 DEF Ahead
  <2>2. \A p \in 1 .. Len(script) : script[p].id # Unset /\ script[p].id < nextBot
    BY <1>1, <1>2 DEF IdsAreFree
  <2>3. ~named => \A p, q \in 1 .. Len(script) : p < q => script[p].id # script[q].id
    BY <1>1, <1>2 DEF IdsAreFree
  <2> QED BY <1>1, <1>5, <2>1, <2>2, <2>3 DEF IdsAreFree
<1>9. TimeIsAhead'
  <2> SUFFICES ASSUME ~dated PROVE TimeIsAhead'
    BY <1>1 DEF TimeIsAhead
  <2>1. /\ \A p, q \in 1 .. Len(script) :
              p < q /\ script[q].turn # Unset => script[p].date <= script[q].date
        /\ \A q \in 1 .. Len(script) :
              script[q].turn # Unset =>
                  DefaultStart <= script[q].date /\ (q >= pos => clock <= script[q].date)
    BY <1>1, <1>2 DEF TimeIsAhead
  <2>2. ASSUME NEW q \in 1 .. Len(script), script[q].turn # Unset, q >= pos + 1
        PROVE  clock' <= script[q].date
    <3>1. q >= pos /\ pos < q
      BY <1>3, <2>2
    <3>2. clock <= script[q].date /\ Coming.date <= script[q].date
      BY <1>3, <2>1, <2>2, <3>1
    <3> QED BY <1>1, <1>3, <3>2
  <2> QED BY <1>1, <2>1, <2>2 DEF TimeIsAhead
<1>10. /\ NothingYet' /\ SavedIsTrue' /\ AnsweredInItsTime' /\ RemindersEnd'
       /\ stage' # "ending"
  BY <1>1, <1>2 DEF NothingYet, SavedIsTrue, AnsweredInItsTime, RemindersEnd
<1> QED BY <1>5, <1>7, <1>8, <1>9, <1>10 DEF ChatInv

LEMMA AsksChat ==
    ASSUME ChatInv, Ask
    PROVE  ChatInv'
<1>1. /\ stage = "playing" /\ pos <= Len(script) /\ Coming.turn # Unset
      /\ Due(Coming.date) = {} /\ clock' = Later(Coming.date) /\ stage' = "asking"
      /\ \/ UNCHANGED chat /\ UNCHANGED heard
         \/ chat' = Stored(chat, Coming.id, Coming.date, FALSE) /\ heard' = heard + 1
      /\ UNCHANGED raw /\ UNCHANGED script /\ UNCHANGED pos /\ UNCHANGED reminders
      /\ UNCHANGED nextBot /\ UNCHANGED lastAnswer /\ UNCHANGED turns /\ UNCHANGED outcome
      /\ UNCHANGED saved /\ UNCHANGED played /\ UNCHANGED dated /\ UNCHANGED named
  BY DEF Ask
<1>2. ChatTyped /\ IdsAreFree /\ TimeIsAhead /\ RemindersEnd /\ NothingIsOverwritten
  BY DEF ChatInv
<1>3. /\ pos \in 1 .. Len(script) /\ Len(script) \in Nat /\ Coming.date \in Int
      /\ Later(Coming.date) = IF clock >= Coming.date THEN clock ELSE Coming.date
      /\ Later(Coming.date) \in Int /\ Coming = script[pos]
  BY <1>1, <1>2, ComingIs DEF Coming
<1>4. /\ IsFiniteSet(DOMAIN chat') /\ heard' \in Nat
      /\ \A id \in DOMAIN chat' : id \in Nat \ {0} /\ id < nextBot' /\ chat'[id].date \in Int
      /\ DOMAIN chat \subseteq DOMAIN chat'
      /\ NothingIsOverwritten'
      /\ ~named => \A p \in 1 .. Len(script) : p >= pos + 1 => script[p].id \notin DOMAIN chat'
  <2>1. CASE UNCHANGED chat /\ UNCHANGED heard
    <3>1. ~named => \A p \in 1 .. Len(script) : p >= pos => script[p].id \notin DOMAIN chat
      BY <1>1, <1>2 DEF IdsAreFree, Ahead
    <3>2. \A p \in 1 .. Len(script) : p >= pos + 1 => p >= pos
      BY <1>3
    <3>3. NothingIsOverwritten'
      BY <1>1, <1>2, <2>1 DEF NothingIsOverwritten
    <3> QED BY <1>1, <1>2, <2>1, <3>1, <3>2, <3>3 DEF ChatTyped
  <2>2. CASE chat' = Stored(chat, Coming.id, Coming.date, FALSE) /\ heard' = heard + 1
    <3>1. PICK bot : bot = FALSE
      OBVIOUS
    <3>2. chat' = Stored(chat, Coming.id, Coming.date, bot)
      BY <2>2, <3>1
    <3> QED BY <1>1, <2>2, <3>2, StoresComing
  <2> QED BY <1>1, <2>1, <2>2
<1>5. clock' \in Int
  BY <1>1, <1>3
<1>6. ChatTyped'
  <2>1. lastAnswer' \in DOMAIN chat' \cup {Unset}
    BY <1>1, <1>2, <1>4 DEF ChatTyped
  <2>2. stage' \in Stages
    BY <1>1 DEF Stages
  <2> QED BY <1>1, <1>2, <1>4, <1>5, <2>1, <2>2 DEF ChatTyped
<1>7. IdsAreFree'
  <2>1. Ahead' = pos + 1
    BY <1>1 DEF Ahead
  <2>2. \A p \in 1 .. Len(script) : script[p].id # Unset /\ script[p].id < nextBot
    BY <1>1, <1>2 DEF IdsAreFree
  <2>3. ~named => \A p, q \in 1 .. Len(script) : p < q => script[p].id # script[q].id
    BY <1>1, <1>2 DEF IdsAreFree
  <2> QED BY <1>1, <1>4, <2>1, <2>2, <2>3 DEF IdsAreFree
<1>8. ASSUME ~dated
      PROVE  /\ clock' = Coming.date
             /\ \A p, q \in 1 .. Len(script) :
                   p < q /\ script[q].turn # Unset => script[p].date <= script[q].date
             /\ \A q \in 1 .. Len(script) :
                   script[q].turn # Unset =>
                       DefaultStart <= script[q].date /\ (q >= pos => clock' <= script[q].date)
  <2>1. /\ \A p, q \in 1 .. Len(script) :
              p < q /\ script[q].turn # Unset => script[p].date <= script[q].date
        /\ \A q \in 1 .. Len(script) :
              script[q].turn # Unset =>
                  DefaultStart <= script[q].date /\ (q >= pos => clock <= script[q].date)
    BY <1>1, <1>2, <1>8 DEF TimeIsAhead
  <2>2. clock <= Coming.date /\ clock \in Int
    <3>1. script[pos].turn # Unset /\ pos >= pos
      BY <1>1, <1>3
    <3>2. clock <= script[pos].date
      BY <1>3, <2>1, <3>1
    <3>3. clock \in Int
      BY <1>2 DEF ChatTyped
    <3> QED BY <1>3, <3>2, <3>3
  <2>3. clock' = Coming.date
    BY <1>1, <1>3, <2>2
  <2>4. ASSUME NEW q \in 1 .. Len(script), script[q].turn # Unset, q >= pos
        PROVE  clock' <= script[q].date
    <3>1. CASE q = pos
      BY <1>3, <2>3, <3>1
    <3>2. CASE q # pos
      <4>1. pos < q
        BY <1>3, <2>4, <3>2
      <4> QED BY <1>3, <2>1, <2>3, <2>4, <4>1
    <3> QED BY <3>1, <3>2
  <2> QED BY <2>1, <2>3, <2>4
<1>9. TimeIsAhead'
  BY <1>1, <1>8 DEF TimeIsAhead
<1>10. AnsweredInItsTime'
  <2> SUFFICES ASSUME ~dated PROVE AnsweredInItsTime'
    BY <1>1 DEF AnsweredInItsTime
  <2>1. clock' = Coming.date /\ Coming' = Coming
    BY <1>1, <1>8 DEF Coming
  <2>2. ASSUME NEW r \in reminders PROVE r.due > Coming.date
    <3>1. ~(r.due <= Coming.date)
      BY <1>1 DEF Due
    <3>2. r.due \in Int
      BY <1>2 DEF ChatTyped, Reminder
    <3> QED BY <1>3, <3>1, <3>2
  <2> QED BY <1>1, <2>1, <2>2 DEF AnsweredInItsTime
<1>11. NothingYet' /\ SavedIsTrue' /\ RemindersEnd' /\ stage' # "ending"
  BY <1>1, <1>2 DEF NothingYet, SavedIsTrue, RemindersEnd
<1> QED BY <1>4, <1>6, <1>7, <1>9, <1>10, <1>11 DEF ChatInv

\* The bot's own IDs are above every one of the script.
LEMMA SendsKeeps ==
    ASSUME ChatInv, stage \in {"playing", "asking"}, pos <= Len(script), NEW n \in Nat,
           NEW at \in Int, SendsMessages(n, at), UNCHANGED script, UNCHANGED named
    PROVE  /\ IsFiniteSet(DOMAIN chat') /\ heard' \in Nat
           /\ nextBot' \in Nat /\ nextBot > 0
           /\ \A id \in DOMAIN chat' : id \in Nat \ {0} /\ id < nextBot' /\ chat'[id].date \in Int
           /\ DOMAIN chat' = DOMAIN chat \cup nextBot .. nextBot + n - 1
           /\ NothingIsOverwritten'
           /\ \A p \in 1 .. Len(script) : script[p].id # Unset /\ script[p].id < nextBot'
           /\ ~named => \A p \in 1 .. Len(script) : p >= Ahead => script[p].id \notin DOMAIN chat'
<1>1. ChatTyped /\ IdsAreFree /\ NothingIsOverwritten
  BY DEF ChatInv
<1>2. pos \in 1 .. Len(script)
  BY <1>1, ComingIs
<1>3. \A p \in 1 .. Len(script) : script[p].id \in Nat
  <2>1. script \in Seq(Parsed)
    BY <1>1 DEF ChatTyped
  <2>2. \A p \in 1 .. Len(script) : script[p] \in Parsed
    BY <2>1
  <2> QED BY <2>2 DEF Parsed
<1>4. \A p \in 1 .. Len(script) : script[p].id # 0 /\ script[p].id < nextBot
  BY <1>1 DEF IdsAreFree, Unset
<1>5. nextBot \in Nat
  BY <1>1 DEF ChatTyped
<1>6. nextBot > 0
  BY <1>2, <1>3, <1>4, <1>5
<1>7. /\ DOMAIN chat' = DOMAIN chat \cup nextBot .. nextBot + n - 1
      /\ IsFiniteSet(DOMAIN chat')
      /\ \A id \in DOMAIN chat' : id \in Nat \ {0} /\ id < nextBot' /\ chat'[id].date \in Int
      /\ nextBot' = nextBot + n /\ nextBot' \in Nat /\ nextBot <= nextBot' /\ heard' \in Nat
      /\ Cardinality(DOMAIN chat) = heard => Cardinality(DOMAIN chat') = heard'
  BY <1>1, <1>6, SendsIs
<1>8. NothingIsOverwritten'
  BY <1>1, <1>7 DEF NothingIsOverwritten
<1>9. \A p \in 1 .. Len(script) : script[p].id # Unset /\ script[p].id < nextBot'
  BY <1>3, <1>4, <1>5, <1>7 DEF Unset
<1>10. ASSUME ~named, NEW p \in 1 .. Len(script), p >= Ahead
       PROVE  script[p].id \notin DOMAIN chat'
  <2>1. script[p].id \notin DOMAIN chat
    BY <1>1, <1>10 DEF IdsAreFree
  <2>2. script[p].id \notin nextBot .. nextBot + n - 1
    BY <1>3, <1>4, <1>5
  <2> QED BY <1>7, <2>1, <2>2
<1> QED BY <1>6, <1>7, <1>8, <1>9, <1>10

LEMMA DeliversChat ==
    ASSUME ChatInv, DeliverReminders
    PROVE  ChatInv'
<1>1. PICK at, sendable :
         /\ at = Later(Min({r.due : r \in Due(Coming.date)})) /\ sendable = Sendable(at)
         /\ stage = "playing" /\ pos <= Len(script) /\ Due(Coming.date) # {}
         /\ clock' = at
         /\ \/ SendsMessages(Cardinality(sendable), at) /\ reminders' = reminders \ sendable
            \/ /\ reminders' = (reminders \ sendable)
                      \cup {[r EXCEPT !.next = at + RetryBase] :
                               r \in {s \in sendable : raw.simulate \in Passing}}
               /\ UNCHANGED chat /\ UNCHANGED heard /\ UNCHANGED nextBot
         /\ UNCHANGED raw /\ UNCHANGED script /\ UNCHANGED pos /\ UNCHANGED stage
         /\ UNCHANGED lastAnswer /\ UNCHANGED turns /\ UNCHANGED outcome
         /\ UNCHANGED saved /\ UNCHANGED played /\ UNCHANGED dated /\ UNCHANGED named
  BY DEF DeliverReminders
<1>2. ChatTyped /\ IdsAreFree /\ TimeIsAhead /\ RemindersEnd /\ NothingIsOverwritten
  BY DEF ChatInv
<1>3. /\ pos \in 1 .. Len(script) /\ Len(script) \in Nat /\ Coming.date \in Int
      /\ Coming = script[pos]
  BY <1>1, <1>2, ComingIs DEF Coming
<1>4. /\ IsFiniteSet(reminders) /\ clock \in Int
      /\ \A r \in reminders : r \in Reminder /\ r.due \in Int
  BY <1>2 DEF ChatTyped, Reminder
<1>5. PICK soon, due : due = Due(Coming.date) /\ soon = Min({r.due : r \in due})
  OBVIOUS
<1>6. soon \in Int /\ soon <= Coming.date
  <2>1. PICK f : f = [r \in due |-> r.due]
    OBVIOUS
  <2>2. due \in SUBSET reminders /\ due # {} /\ \A r \in due : r.due <= Coming.date
    BY <1>1, <1>5 DEF Due
  <2>3. IsFiniteSet(due)
    BY <1>4, <2>2, FS_Subset
  <2>4. PICK D : D = {r.due : r \in due}
    OBVIOUS
  <2>5. D = {f[r] : r \in due} /\ DOMAIN f = due
    BY <2>1, <2>4
  <2>6. IsFiniteSet(D)
    BY <2>3, <2>5, ImageIsFinite
  <2>7. D \in SUBSET Int /\ D # {}
    BY <1>4, <2>2, <2>4
  <2>8. Min(D) \in D
    BY <2>6, <2>7, FiniteEnds
  <2> QED BY <1>5, <2>2, <2>4, <2>7, <2>8
<1>7. at = (IF clock >= soon THEN clock ELSE soon) /\ at \in Int
  <2>1. at = Max({clock, soon})
    BY <1>1, <1>5 DEF Later
  <2>2. Max({clock, soon}) = IF clock >= soon THEN clock ELSE soon
    BY <1>4, <1>6, LaterIs
  <2> QED BY <1>4, <1>6, <2>1, <2>2
<1>8. sendable \in SUBSET reminders /\ IsFiniteSet(sendable) /\ Cardinality(sendable) \in Nat
  <2>1. sendable \in SUBSET reminders
    BY <1>1 DEF Sendable
  <2>2. IsFiniteSet(sendable)
    BY <1>4, <2>1, FS_Subset
  <2> QED BY <2>1, <2>2, FS_CardinalityType
<1>9. IsFiniteSet(reminders') /\ reminders' \subseteq Reminder
  <2>1. IsFiniteSet(reminders \ sendable) /\ reminders \ sendable \subseteq Reminder
    <3>1. reminders \ sendable \in SUBSET reminders
      OBVIOUS
    <3> QED BY <1>4, <3>1, FS_Subset
  <2>2. PICK S, f, later :
           /\ S = {s \in sendable : raw.simulate \in Passing} /\ later = at + RetryBase
           /\ f = [r \in S |-> [r EXCEPT !.next = later]]
    OBVIOUS
  <2>3. IsFiniteSet(S)
    <3>1. S \in SUBSET sendable
      BY <2>2
    <3> QED BY <1>8, <3>1, FS_Subset
  <2>4. PICK again : again = {[r EXCEPT !.next = at + RetryBase] :
                                r \in {s \in sendable : raw.simulate \in Passing}}
    OBVIOUS
  <2>5. again = {f[r] : r \in S} /\ DOMAIN f = S
    BY <2>2, <2>4
  <2>6. IsFiniteSet(again)
    BY <2>3, <2>5, ImageIsFinite
  <2>7. later \in Int
    <3>1. RetryBase \in Nat
      BY LabSandboxAssumption
    <3> QED BY <1>7, <2>2, <3>1
  <2>8. again \subseteq Reminder
    <3>1. ASSUME NEW r \in S PROVE f[r] \in Reminder
      <4>1. r \in Reminder
        BY <1>4, <1>8, <2>2
      <4>2. f[r] = [r EXCEPT !.next = later]
        BY <2>2
      <4> QED BY <2>7, <4>1, <4>2 DEF Reminder
    <3> QED BY <2>5, <3>1
  <2>9. CASE reminders' = reminders \ sendable
    BY <2>1, <2>9
  <2>10. CASE reminders' = (reminders \ sendable) \cup again
    <3>1. IsFiniteSet((reminders \ sendable) \cup again)
      BY <2>1, <2>6, FS_Union
    <3> QED BY <2>1, <2>8, <2>10, <3>1
  <2> QED BY <1>1, <2>4, <2>9, <2>10
<1>10. /\ IsFiniteSet(DOMAIN chat') /\ heard' \in Nat /\ nextBot' \in Nat
       /\ \A id \in DOMAIN chat' : id \in Nat \ {0} /\ id < nextBot' /\ chat'[id].date \in Int
       /\ DOMAIN chat \subseteq DOMAIN chat' /\ NothingIsOverwritten'
       /\ \A p \in 1 .. Len(script) : script[p].id # Unset /\ script[p].id < nextBot'
       /\ ~named => \A p \in 1 .. Len(script) : p >= Ahead => script[p].id \notin DOMAIN chat'
  <2>1. CASE SendsMessages(Cardinality(sendable), at)
    <3>1. PICK n : n = Cardinality(sendable)
      OBVIOUS
    <3>2. n \in Nat /\ SendsMessages(n, at)
      BY <1>8, <2>1, <3>1
    <3> QED BY <1>1, <1>7, <3>2, SendsKeeps
  <2>2. CASE UNCHANGED chat /\ UNCHANGED heard /\ UNCHANGED nextBot
    <3>1. NothingIsOverwritten'
      BY <1>1, <1>2, <2>2 DEF NothingIsOverwritten
    <3>2. /\ \A p \in 1 .. Len(script) : script[p].id # Unset /\ script[p].id < nextBot
          /\ ~named => \A p \in 1 .. Len(script) : p >= Ahead => script[p].id \notin DOMAIN chat
      BY <1>1, <1>2 DEF IdsAreFree
    <3> QED BY <1>2, <2>2, <3>1, <3>2 DEF ChatTyped
  <2> QED BY <1>1, <2>1, <2>2
<1>11. ChatTyped'
  <2>1. lastAnswer' \in DOMAIN chat' \cup {Unset}
    BY <1>1, <1>2, <1>10 DEF ChatTyped
  <2>2. clock' \in Int
    BY <1>1, <1>7
  <2> QED BY <1>1, <1>2, <1>9, <1>10, <2>1, <2>2 DEF ChatTyped
<1>12. IdsAreFree'
  <2>1. Ahead' = Ahead
    BY <1>1 DEF Ahead
  <2>2. ~named => \A p, q \in 1 .. Len(script) : p < q => script[p].id # script[q].id
    BY <1>1, <1>2 DEF IdsAreFree
  <2> QED BY <1>1, <1>10, <2>1, <2>2 DEF IdsAreFree
<1>13. TimeIsAhead'
  <2> SUFFICES ASSUME ~dated PROVE TimeIsAhead'
    BY <1>1 DEF TimeIsAhead
  <2>1. /\ \A p, q \in 1 .. Len(script) :
              p < q /\ script[q].turn # Unset => script[p].date <= script[q].date
        /\ \A q \in 1 .. Len(script) :
              script[q].turn # Unset =>
                  DefaultStart <= script[q].date /\ (q >= pos => clock <= script[q].date)
    BY <1>1, <1>2 DEF TimeIsAhead
  <2>2. ASSUME NEW q \in 1 .. Len(script), script[q].turn # Unset, q >= pos
        PROVE  clock' <= script[q].date
    <3>1. clock <= script[q].date
      BY <2>1, <2>2
    <3>2. Coming.date <= script[q].date
      <4>1. CASE q = pos
        BY <1>3, <4>1
      <4>2. CASE q # pos
        <5>1. pos < q
          BY <1>3, <2>2, <4>2
        <5> QED BY <1>3, <2>1, <2>2, <5>1
      <4> QED BY <4>1, <4>2
    <3>3. script[q].date \in Int
      <4>1. script \in Seq(Parsed)
        BY <1>2 DEF ChatTyped
      <4>2. script[q] \in Parsed
        BY <4>1
      <4> QED BY <4>2 DEF Parsed
    <3> QED BY <1>1, <1>3, <1>4, <1>6, <1>7, <3>1, <3>2, <3>3
  <2> QED BY <1>1, <2>1, <2>2 DEF TimeIsAhead
<1>14. /\ NothingYet' /\ SavedIsTrue' /\ AnsweredInItsTime' /\ RemindersEnd'
       /\ stage' # "ending"
  BY <1>1, <1>2 DEF NothingYet, SavedIsTrue, AnsweredInItsTime, RemindersEnd
<1> QED BY <1>10, <1>11, <1>12, <1>13, <1>14 DEF ChatInv

LEMMA AnswersChat ==
    ASSUME ChatInv, SandboxInv, NEW a \in Answers, AnswerTurn(a)
    PROVE  ChatInv'
<1>1. PICK t, r, v, n, set, pending :
         /\ t = RawTurnAt(Coming) /\ r = Answered(t, a) /\ v = Verdict(t.expect, r, pending)
         /\ turns' = Append(turns, [r EXCEPT !.outcome = v])
         /\ set \in {{}, {[due |-> clock + a.sets, next |-> 0]}} /\ reminders' = reminders \cup set
         /\ n = IF r.sent /\ t.command # "catchup" THEN 1 ELSE 0
         /\ \/ r.how # "usage" /\ SendsMessages(n, clock)
            \/ /\ r.how = "usage" /\ nextBot' = nextBot + 1
               /\ UNCHANGED chat /\ UNCHANGED heard
         /\ lastAnswer' = LastAnswer(t, r)
         /\ stage' \in {"ending", "playing"}
  BY DEF AnswerTurn
<1>2. /\ stage = "asking" /\ pos' = pos + 1
      /\ UNCHANGED raw /\ UNCHANGED script /\ UNCHANGED clock /\ UNCHANGED outcome
      /\ UNCHANGED saved /\ UNCHANGED played /\ UNCHANGED dated /\ UNCHANGED named
  BY DEF AnswerTurn
<1>3. /\ ChatTyped /\ IdsAreFree /\ TimeIsAhead /\ RemindersEnd /\ NothingIsOverwritten
      /\ AnsweredInItsTime
  BY DEF ChatInv
<1>4. pos \in 1 .. Len(script) /\ script[pos].turn # Unset
  BY <1>2 DEF SandboxInv
<1>5. Len(script) \in Nat /\ pos \in Nat \ {0} /\ clock \in Int /\ pos <= Len(script)
  <2>1. script \in Seq(Parsed) /\ pos \in Nat \ {0} /\ clock \in Int
    BY <1>3 DEF ChatTyped
  <2>2. Len(script) \in Nat
    BY <2>1
  <2> QED BY <1>4, <2>1, <2>2
<1>6. a \in TurnAnswer
  BY LabSandboxAssumption
<1>7. n \in {0, 1} /\ n \in Nat
  BY <1>1
<1>8. /\ IsFiniteSet(DOMAIN chat') /\ heard' \in Nat
      /\ nextBot' \in Nat
      /\ \A id \in DOMAIN chat' : id \in Nat \ {0} /\ id < nextBot' /\ chat'[id].date \in Int
      /\ DOMAIN chat \subseteq DOMAIN chat'
      /\ r.how # "usage" => DOMAIN chat' = DOMAIN chat \cup nextBot .. nextBot + n - 1
      /\ NothingIsOverwritten'
      /\ \A p \in 1 .. Len(script) : script[p].id # Unset /\ script[p].id < nextBot'
      /\ ~named => \A p \in 1 .. Len(script) : p >= Ahead => script[p].id \notin DOMAIN chat'
  <2>1. CASE r.how # "usage"
    <3>1. SendsMessages(n, clock)
      BY <1>1, <2>1
    <3> QED BY <1>2, <1>5, <1>7, <3>1, SendsKeeps
  <2>2. CASE r.how = "usage"
    <3>1. nextBot' = nextBot + 1 /\ chat' = chat /\ heard' = heard /\ nextBot \in Nat
      BY <1>1, <1>3, <2>2 DEF ChatTyped
    <3>2. /\ IsFiniteSet(DOMAIN chat) /\ heard \in Nat
          /\ \A id \in DOMAIN chat : id \in Nat \ {0} /\ id < nextBot /\ chat[id].date \in Int
      BY <1>3 DEF ChatTyped
    <3>3. \A id \in DOMAIN chat : id < nextBot + 1
      BY <3>1, <3>2
    <3>4. \A p \in 1 .. Len(script) : script[p].id \in Nat
      <4>1. script \in Seq(Parsed)
        BY <1>3 DEF ChatTyped
      <4>2. \A p \in 1 .. Len(script) : script[p] \in Parsed
        BY <4>1
      <4> QED BY <4>2 DEF Parsed
    <3>5. \A p \in 1 .. Len(script) : script[p].id # Unset /\ script[p].id < nextBot
      BY <1>2, <1>3, <1>5 DEF IdsAreFree
    <3>6. \A p \in 1 .. Len(script) : script[p].id < nextBot + 1
      BY <3>1, <3>4, <3>5
    <3>7. ~named => \A p \in 1 .. Len(script) : p >= Ahead => script[p].id \notin DOMAIN chat
      BY <1>2, <1>3, <1>5 DEF IdsAreFree
    <3>8. NothingIsOverwritten'
      BY <1>2, <1>3, <3>1 DEF NothingIsOverwritten
    <3> QED BY <2>2, <3>1, <3>2, <3>3, <3>5, <3>6, <3>7, <3>8
  <2> QED BY <2>1, <2>2
<1>9. turns' \in Seq(TurnResult) /\ turns' # << >>
  <2>1. v \in AttemptOutcomes
    BY <1>1, VerdictSays
  <2>2. PICK result : result = [r EXCEPT !.outcome = v]
    OBVIOUS
  <2>3. result \in TurnResult
    BY <1>1, <1>6, <2>1, <2>2, AnsweredIs
  <2>4. turns \in Seq(TurnResult)
    BY <1>3 DEF ChatTyped
  <2>5. turns' = Append(turns, result)
    BY <1>1, <2>2
  <2>6. turns' \in Seq(TurnResult) /\ Len(turns') = Len(turns) + 1 /\ Len(turns) \in Nat
    BY <2>3, <2>4, <2>5, AppendProperties
  <2> QED BY <2>6
<1>10. lastAnswer' \in DOMAIN chat' \cup {Unset}
  <2>1. CASE r.sent /\ r.how # "usage" /\ t.command # "catchup"
    <3>1. lastAnswer' = nextBot
      BY <1>1, <2>1 DEF LastAnswer
    <3>2. n = 1
      BY <1>1, <2>1
    <3>3. nextBot \in Nat
      BY <1>3 DEF ChatTyped
    <3>4. nextBot \in nextBot .. nextBot + n - 1
      BY <3>2, <3>3
    <3> QED BY <1>8, <2>1, <3>1, <3>4
  <2>2. CASE ~(r.sent /\ r.how # "usage" /\ t.command # "catchup")
    <3>1. lastAnswer' = lastAnswer
      BY <1>1, <2>2 DEF LastAnswer
    <3>2. lastAnswer \in DOMAIN chat \cup {Unset}
      BY <1>3 DEF ChatTyped
    <3> QED BY <1>8, <3>1, <3>2
  <2> QED BY <2>1, <2>2
<1>11. IsFiniteSet(reminders') /\ reminders' \subseteq Reminder
  <2>1. IsFiniteSet(reminders) /\ reminders \subseteq Reminder
    BY <1>3 DEF ChatTyped
  <2>2. PICK none, due, one : /\ none = 0 /\ due = clock + a.sets
                              /\ one = [due |-> due, next |-> none]
    OBVIOUS
  <2>3. one \in Reminder
    <3>1. a.sets \in Nat
      BY <1>6 DEF TurnAnswer
    <3>2. due \in Int /\ none \in Int
      BY <1>5, <2>2, <3>1
    <3> QED BY <2>2, <3>2 DEF Reminder
  <2>4. IsFiniteSet(reminders \cup {one})
    BY <2>1, FS_AddElement
  <2>5. reminders' = reminders \/ reminders' = reminders \cup {one}
    BY <1>1, <2>2
  <2> QED BY <2>1, <2>3, <2>4, <2>5
<1>12. ChatTyped'
  <2>1. pos' \in Nat \ {0}
    BY <1>2, <1>5
  <2>2. stage' \in Stages
    BY <1>1 DEF Stages
  <2> QED BY <1>2, <1>3, <1>8, <1>9, <1>10, <1>11, <2>1, <2>2 DEF ChatTyped
<1>13. IdsAreFree'
  <2> SUFFICES ASSUME stage' = "playing" PROVE IdsAreFree'
    BY <1>1 DEF IdsAreFree
  <2>1. Ahead' = pos + 1 /\ Ahead = pos + 1
    BY <1>2 DEF Ahead
  <2>2. ~named => \A p, q \in 1 .. Len(script) : p < q => script[p].id # script[q].id
    BY <1>2, <1>3 DEF IdsAreFree
  <2> QED BY <1>2, <1>8, <2>1, <2>2 DEF IdsAreFree
<1>14. TimeIsAhead'
  <2> SUFFICES ASSUME ~dated PROVE TimeIsAhead'
    BY <1>2 DEF TimeIsAhead
  <2>1. /\ \A p, q \in 1 .. Len(script) :
              p < q /\ script[q].turn # Unset => script[p].date <= script[q].date
        /\ \A q \in 1 .. Len(script) :
              script[q].turn # Unset =>
                  DefaultStart <= script[q].date /\ (q >= pos => clock <= script[q].date)
    BY <1>2, <1>3 DEF TimeIsAhead
  <2>2. clock = script[pos].date
    BY <1>2, <1>3 DEF AnsweredInItsTime, Coming
  <2>3. clock >= DefaultStart
    <3>1. DefaultStart <= script[pos].date
      BY <1>4, <2>1
    <3>2. DefaultStart \in Int
      BY LabScenarioAssumption
    <3> QED BY <1>5, <2>2, <3>1, <3>2
  <2>4. \A q \in 1 .. Len(script) : q >= pos + 1 => q >= pos
    BY <1>5
  <2>5. \A q \in 1 .. Len(script) :
            script[q].turn # Unset =>
                DefaultStart <= script[q].date /\ (q >= pos + 1 => clock <= script[q].date)
    BY <2>1, <2>4
  <2> QED BY <1>1, <1>2, <2>1, <2>3, <2>5 DEF TimeIsAhead
<1>15. /\ NothingYet' /\ SavedIsTrue' /\ AnsweredInItsTime' /\ RemindersEnd'
  BY <1>1, <1>2, <1>3 DEF NothingYet, SavedIsTrue, AnsweredInItsTime, RemindersEnd
<1> QED BY <1>8, <1>9, <1>12, <1>13, <1>14, <1>15 DEF ChatInv

LEMMA FinishesChat ==
    ASSUME ChatInv, Finish
    PROVE  ChatInv'
<1>1. /\ stage = "ending" /\ outcome' = AttemptOutcome /\ stage' = "over"
      /\ saved' = [clock |-> clock, maxId |-> Max(DOMAIN chat \cup {0}), nextBot |-> nextBot,
                   lastAnswer |-> lastAnswer]
      /\ UNCHANGED raw /\ UNCHANGED script /\ UNCHANGED pos /\ UNCHANGED clock /\ UNCHANGED chat
      /\ UNCHANGED heard /\ UNCHANGED reminders /\ UNCHANGED nextBot /\ UNCHANGED lastAnswer
      /\ UNCHANGED turns /\ UNCHANGED played /\ UNCHANGED dated /\ UNCHANGED named
  BY DEF Finish
<1>2. ChatTyped /\ TimeIsAhead /\ NothingIsOverwritten /\ turns # << >>
  BY <1>1 DEF ChatInv
<1>3. outcome' \in AttemptOutcomes
  <2>1. PICK S : S = {turns[i].outcome : i \in DOMAIN turns}
                     \cup IF Len(turns) < Len(raw.turns) THEN {"error"} ELSE {}
    OBVIOUS
  <2>2. turns \in Seq(TurnResult)
    BY <1>2 DEF ChatTyped
  <2>3. \A i \in DOMAIN turns : turns[i] \in TurnResult
    BY <2>2
  <2>4. \A i \in DOMAIN turns : turns[i].outcome \in AttemptOutcomes
    BY <2>3 DEF TurnResult
  <2>5. 1 \in DOMAIN turns
    BY <1>2, <2>2
  <2>6. S \in SUBSET AttemptOutcomes /\ S # {}
    <3>1. "error" \in AttemptOutcomes
      BY DEF AttemptOutcomes
    <3> QED BY <2>1, <2>4, <2>5, <3>1
  <2>7. Combine(S) \in AttemptOutcomes
    BY <2>6, CombineSays
  <2>8. AttemptOutcome = Combine(S)
    BY <2>1 DEF AttemptOutcome
  <2> QED BY <1>1, <2>7, <2>8
<1>4. ChatTyped'
  <2>1. stage' \in Stages
    BY <1>1 DEF Stages
  <2> QED BY <1>1, <1>2, <1>3, <2>1 DEF ChatTyped
<1>5. SavedIsTrue'
  <2>1. PICK S, top : S = DOMAIN chat \cup {0} /\ top = Max(S)
    OBVIOUS
  <2>2. /\ saved'.clock = clock /\ saved'.maxId = top /\ saved'.nextBot = nextBot
    BY <1>1, <2>1
  <2>3. /\ clock \in Int /\ nextBot \in Nat /\ IsFiniteSet(DOMAIN chat)
        /\ \A id \in DOMAIN chat : id \in Nat \ {0} /\ id < nextBot
    BY <1>2 DEF ChatTyped
  <2>4. IsFiniteSet(S)
    BY <2>1, <2>3, FS_AddElement
  <2>5. S \in SUBSET Nat /\ S \in SUBSET Int /\ S # {}
    BY <2>1, <2>3
  <2>6. Max(S) \in S /\ \A x \in S : x <= Max(S)
    BY <2>4, <2>5, FiniteEnds
  <2>7. top \in Nat /\ \A id \in DOMAIN chat : id <= top
    BY <2>1, <2>5, <2>6
  <2>8. ~dated => clock >= DefaultStart
    BY <1>1, <1>2 DEF TimeIsAhead
  <2> QED BY <1>1, <2>2, <2>3, <2>7, <2>8 DEF SavedIsTrue
<1>6. /\ NothingYet' /\ IdsAreFree' /\ TimeIsAhead' /\ AnsweredInItsTime' /\ RemindersEnd'
      /\ NothingIsOverwritten'
  BY <1>1, <1>2 DEF NothingYet, IdsAreFree, TimeIsAhead, AnsweredInItsTime, RemindersEnd,
                    NothingIsOverwritten
<1> QED BY <1>1, <1>4, <1>5, <1>6 DEF ChatInv

LEMMA ChatSteps ==
    ASSUME ChatInv, SandboxInv, [SandboxNext]_sandboxVars
    PROVE  ChatInv'
<1>1. CASE \E s \in Played : Begin(s)
  BY <1>1, BeginsChat
<1>2. CASE \E s \in Continuations : Continue(s)
  BY <1>2, ContinuesChat
<1>3. CASE DeliverReminders
  BY <1>3, DeliversChat
<1>4. CASE Receive
  BY <1>4, ReceivesChat
<1>5. CASE Ask
  BY <1>5, AsksChat
<1>6. CASE \E a \in Answers : AnswerTurn(a)
  BY <1>6, AnswersChat
<1>7. CASE Finish
  BY <1>7, FinishesChat
<1>8. CASE UNCHANGED sandboxVars
  BY <1>8 DEF sandboxVars, ChatInv, RemindersEnd, ChatTyped, NothingYet, IdsAreFree, Ahead,
              TimeIsAhead, SavedIsTrue, NothingIsOverwritten, AnsweredInItsTime, Coming
<1> QED BY <1>1, <1>2, <1>3, <1>4, <1>5, <1>6, <1>7, <1>8 DEF SandboxNext

LEMMA ChatBegins == ASSUME SandboxInit PROVE ChatInv
<1>0. PICK zero, empty : zero = 0 /\ empty = << >>
  OBVIOUS
<1>1. /\ zero = 0 /\ empty = << >>
      /\ stage = "idle" /\ script = empty /\ pos = 1 /\ clock = zero /\ heard = zero
      /\ DOMAIN chat = {} /\ nextBot = zero /\ reminders = {} /\ lastAnswer = Unset
      /\ turns = empty /\ outcome = "" /\ saved = NotStarted /\ played = zero
      /\ dated = FALSE /\ named = FALSE
  BY <1>0 DEF SandboxInit
<1>2. ChatTyped
  <2>1. stage \in Stages
    BY <1>1 DEF Stages
  <2>2. script \in Seq(Parsed) /\ turns \in Seq(TurnResult)
    <3>1. empty \in Seq(Parsed) /\ empty \in Seq(TurnResult)
      BY <1>0
    <3> QED BY <1>1, <3>1, Zenon
  <2>3. IsFiniteSet(DOMAIN chat) /\ IsFiniteSet(reminders)
    BY <1>1, FS_EmptySet
  <2>4. played \in 0 .. MaxPlayed
    <3>1. MaxPlayed \in Nat /\ zero = 0
      BY <1>1, LabSandboxAssumption
    <3>2. zero \in 0 .. MaxPlayed
      BY <3>1
    <3> QED BY <1>1, <3>2, Zenon
  <2>5. clock \in Int /\ heard \in Nat /\ nextBot \in Nat /\ pos \in Nat \ {0}
    <3>1. zero \in Int /\ zero \in Nat
      BY <1>0
    <3>2. clock = zero /\ heard = zero /\ nextBot = zero /\ pos = 1
      BY <1>1, Zenon
    <3> QED BY <3>1, <3>2
  <2>6. dated \in BOOLEAN /\ named \in BOOLEAN
    BY <1>1
  <2> QED BY <1>1, <2>1, <2>2, <2>3, <2>4, <2>5, <2>6 DEF ChatTyped
<1>3. NothingIsOverwritten
  <2>1. Cardinality(DOMAIN chat) = 0
    BY <1>1, FS_EmptySet
  <2> QED BY <1>1, <2>1 DEF NothingIsOverwritten
<1>4. NothingYet /\ IdsAreFree /\ TimeIsAhead /\ SavedIsTrue /\ AnsweredInItsTime /\ RemindersEnd
  BY <1>1 DEF NothingYet, IdsAreFree, TimeIsAhead, SavedIsTrue, AnsweredInItsTime, RemindersEnd
<1> QED BY <1>1, <1>2, <1>3, <1>4 DEF ChatInv

LEMMA ChatIsSound == SandboxSpec => []ChatInv
<1>1. SandboxInit => ChatInv
  BY ChatBegins
<1>2. ChatInv /\ SandboxInv /\ [SandboxNext]_sandboxVars => ChatInv'
  BY ChatSteps
<1> QED BY <1>1, <1>2, SandboxIsSound, PTL DEF SandboxSpec

LEMMA ChatFollows ==
    ASSUME ChatInv
    PROVE  ChatIsTrue
<1>1. ChatTyped /\ NothingIsOverwritten /\ AnsweredInItsTime
  BY DEF ChatInv
<1>2. SandboxTypeOK
  <2>1. \A id \in DOMAIN chat : id \in Nat \ {Unset} /\ chat[id].date \in Int
    BY <1>1 DEF ChatTyped, Unset
  <2>2. \A i \in DOMAIN turns : turns[i] \in TurnResult
    <3>1. turns \in Seq(TurnResult)
      BY <1>1 DEF ChatTyped
    <3> QED BY <3>1
  <2>3. /\ stage \in Stages /\ pos \in Nat /\ clock \in Int /\ heard \in Nat /\ nextBot \in Nat
        /\ lastAnswer \in DOMAIN chat \cup {Unset} /\ \A r \in reminders : r \in Reminder
        /\ outcome \in AttemptOutcomes \cup {""} /\ played \in 0 .. MaxPlayed
        /\ dated \in BOOLEAN /\ named \in BOOLEAN
    BY <1>1 DEF ChatTyped
  <2> QED BY <2>1, <2>2, <2>3 DEF SandboxTypeOK
<1> QED BY <1>1, <1>2 DEF ChatIsTrue

\* The chat a model reads in a sandbox is what was said there by then: over
\* all attempts of a conversation no message takes the ID of another, unless a
\* scenario that continues another names IDs itself, and a turn is answered at
\* its own time, with every reminder due by then delivered, unless a scenario
\* gives dates of its own.
THEOREM ChatsAreTrue == SandboxSpec => []ChatIsTrue
<1>1. ChatInv => ChatIsTrue
  BY ChatFollows
<1> QED BY <1>1, ChatIsSound, PTL
=============================================================================
