---------------------------- MODULE MCAnticipated ----------------------------
(* Backward analysis of small branching, looping and ghosted functions. *)
EXTENDS AnticipatedChecks, MCPrograms

MCValues == -1 .. 4

Steps(n) ==
    CASE n = "A" -> <<<<>>, Access(vi, 3), Access(vi, 3) \o Dec(vi), Inc(vi)>>
      [] n \in {"B", "H"} -> <<Icmp, Access(vi, 3), Access(vi, 2), Dec(vi) \o Access(vi, 2),
                              Access(vi, 3) \o Access(vi, 2), Twice(vi), Half(vi) \o Access(vi, 2)>>
      [] n = "C" -> <<Icmp, Access(vi, 3), Access(vj, 3) \o Read(vi) \o Access(vi, 2), Neg(vi),
                     AccessPost(vi, "add", 3)>>
      [] n = "G" -> <<<<>>, Access(vi, 2)>>
      [] n \in {"D", "X", "E"} -> <<Access(vi, 3), Set(vi, 0) \o Access(vi, 2)>>

MCProgs == Fill(Diamond, Steps) \cup Fill(Loop, Steps) \cup Fill(Ghosted, Steps)
             \cup Fill(EarlyReturn, Steps)
=============================================================================
