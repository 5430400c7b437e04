--------------------------- MODULE MCModelQueue ---------------------------
(* Small instances of ModelQueue for TLC. *)
EXTENDS ModelQueue, TLC

CONSTANTS f1, f2, b1, b2  \* model values

OneReply == {f1}
TwoReplies == {f1, f2}
OneAndTwo == {f1, b1, b2}
TwoAndOne == {f1, f2, b1}

\* One request of each priority may wait: the other meets a full queue.
OneWaiting == [p \in Priorities |-> 1]
TwoWaiting == [p \in Priorities |-> 2]

With(parallel, background, reserved, paused) ==
    [parallel |-> parallel, background |-> background,
     reserved |-> reserved, paused |-> paused]

\* One slot; two with one kept for replies; two without; paused.
AllChoices == {With(1, 1, 1, FALSE), With(2, 2, 1, FALSE),
               With(2, 2, 0, FALSE), With(2, 1, 0, TRUE)}
FewChoices == {With(1, 1, 1, FALSE), With(2, 1, 0, TRUE)}

SamePriority == Permutations({f1, f2}) \cup Permutations({b1, b2})
=============================================================================
