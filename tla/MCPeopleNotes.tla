---------------------------- MODULE MCPeopleNotes ----------------------------
(* Small instances of PeopleNotes for TLC. *)
EXTENDS PeopleNotes, TLC

CONSTANTS u1, u2, c1, c2

\* "Ann" is a part of "Annie".
AnnAndAnnie == {"Ann", "Annie"}
AnnInAnnie == {<<"Ann", "Annie">>}
LiveNames == u1 :> "Annie" @@ u2 :> "Ann"
ExportNames == u1 :> "Ann" @@ u2 :> "Annie"
SameChats == Permutations(Chats)
=============================================================================
