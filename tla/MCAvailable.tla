------------------------------ MODULE MCAvailable ------------------------------
(* Forward analysis of small branching, looping and ghosted functions. *)
EXTENDS AvailableChecks, MCPrograms

MCValues == -1 .. 4

Steps(n) ==
    CASE n = "A" -> <<<<>>, Access(vi, 3), Access(vi, 3) \o Access(vj, 2),
                      Access(vi, 2) \o Inc(vi)>>
      [] n \in {"B", "H"} -> <<Icmp, Access(vi, 3), Access(vi, 3) \o Inc(vi), Dec(vi),
                              Access(vi, 2) \o Half(vi), Copy(vj, vi), Read(vi)>>
      [] n = "C" -> <<Icmp, Access(vi, 3), Inc(vi) \o Access(vi, 3), Twice(vi),
                     AccessPost(vi, "add", 3), Neg(vi)>>
      [] n = "G" -> <<<<>>, Access(vi, 3)>>
      [] n \in {"D", "X", "E"} -> <<Access(vi, 3), Set(vi, 0) \o Access(vi, 2)>>

MCProgs == Fill(Diamond, Steps) \cup Fill(Loop, Steps) \cup Fill(LoopAfter, Steps)
             \cup Fill(Ghosted, Steps)
=============================================================================
