------------------------------- MODULE MCGlobal -------------------------------
(* All the stages, and the functions that come out of them. *)
EXTENDS GlobalElimination, MCPrograms

CONSTANT vu         \* another value loaded

MCValues == -1 .. 4
MCGlobalTmps == {vt, vu}

\* The values of two loads are checked in the opposite order.
Crossed(v, top) ==
    <<load(vt, v)>> \o Dec(v) \o
    <<load(vu, v), call("max", vu, v, 0, top), call("max", vt, v, 0, top)>>

Steps(n) ==
    CASE n = "A" -> <<<<>>, Access(vi, 3), Access(vi, 3) \o Access(vi, 2),
                      Access(vi, 3) \o Dec(vi), Access(vi, 3) \o Access(vj, 3) \o Access(vi, 3)>>
      [] n \in {"B", "H"} -> <<Icmp, Access(vi, 3), Access(vi, 2), Access(vi, 3) \o Inc(vi),
                              Dec(vi) \o Access(vi, 2), Half(vi)>>
      [] n = "C" -> <<Icmp, Access(vi, 3), Access(vj, 3) \o Read(vi) \o Access(vi, 2), Neg(vi),
                     AccessPost(vi, "sub", 3), Crossed(vi, 3)>>
      [] n = "G" -> <<<<>>, Inc(vi) \o Access(vi, 2) \o Access(vi, 2)>>
      [] n \in {"D", "X", "E"} -> <<Access(vi, 3), Access(vi, 2) \o Access(vi, 2)>>

MCProgs == Fill(Diamond, Steps) \cup Fill(Loop, Steps) \cup Fill(Ghosted, Steps)
             \cup Fill(EarlyReturn, Steps)

-----------------------------------------------------------------------------
\* Report.pdf, page 2: c[j]; if (i > 0) { b[j] } else { j++; a[j] }, with
\* arrays of 4, 2 and 3 elements for its 200, 50 and 100.
ReportSteps(n) ==
    CASE n = "A" -> <<Access(vj, 4)>>
      [] n = "B" -> <<Access(vj, 2)>>
      [] n = "C" -> <<Inc(vj) \o Access(vj, 3)>>
ReportValues == -1 .. 6
ReportProgs == Fill(Fork, ReportSteps)

\* Report.pdf, page 1: the inserted functions "terminated the program if an
\* violation of bound has happened".  This should be so after the stages too.
TerminatesOnViolation == status = "violated" => trapped
=============================================================================
