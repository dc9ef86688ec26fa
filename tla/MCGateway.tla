----------------------------- MODULE MCGateway -----------------------------
(* An instance of Gateway for TLC.                                          *)
EXTENDS Gateway, TLC

CONSTANTS root, ann, room, lab, annsBucket

Ask(op, u, r, arg) == [op |-> op, user |-> u, resource |-> r, arg |-> arg]

TheAsks == {Ask("create", root, room, NoArg), Ask("grant", root, room, ann),
            Ask("revoke", root, room, ann), Ask("deactivate", root, room, ann),
            Ask("open", ann, room, 1), Ask("close", ann, room, 1), Ask("retire", ann, lab, NoArg),
            Ask("book", ann, room, 1), Ask("cancel", root, room, NoArg),
            Ask("join", ann, room, NoArg), Ask("leave", ann, room, NoArg)}

BucketSize  == [k \in Keys |-> 1]
MembersOf   == [r \in Resources |-> {}]
ThrottlesOf == [u \in Users |-> <<annsBucket>>]

AlikeWorkers == Permutations(Workers)
=============================================================================
