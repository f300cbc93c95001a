--------------------------- MODULE MCSpongeSocket ---------------------------
(***************************************************************************)
(* The circumstances SpongeSocketSpec is checked in.                       *)
(***************************************************************************)
EXTENDS SpongeSocketSpec

Situation(listens, other, owner_bytes, peer_bytes) ==
    [listens |-> listens, peer |-> other, owner_bytes |-> owner_bytes,
     peer_bytes |-> peer_bytes]

\* Every way to open, to fail and to be heard out.
MCWorlds ==
    {Situation(TRUE, "polite", 1, 1), Situation(FALSE, "polite", 0, 2),
     Situation(FALSE, "absent", 1, 0), Situation(FALSE, "resets", 0, 1)}

\* A peer that sends more than the socket pair holds, and then resets.
ResetWorlds == {Situation(FALSE, "resets", 0, 2)}

\* An ordinary connection.
PoliteWorlds == {Situation(FALSE, "polite", 0, 0)}
=============================================================================
