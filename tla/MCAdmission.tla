------------------------------ MODULE MCAdmission ------------------------------
(***************************************************************************)
(* Instances of Admission and ExportRun for TLC.                           *)
(***************************************************************************)
EXTENDS Admission

MCChannels == 1 .. 2
\* a skipped hit, a short line, and one that fills a part alone
MCLines == {0, 1, 3}

Body(s, start, end) == [scope |-> s, start |-> start, end |-> end]

\* Every scope up to MaxScope with the longest range there may be, and requests that
\* fail each of the checks, some of them several.
MCRequests ==
  {Body(s, 5, 5 + MaxRange) : s \in UNION {[1 .. n -> Channels] : n \in 1 .. MaxScope}}
    \union
  { Body(<<>>, 0, 0), Body(<<1, 2, 1>>, 0, 0), Body(<<1, NoChannel>>, 5, 6),
    Body(<<1>>, 0, 6), Body(<<1>>, 5, MsThreshold), Body(<<1>>, 6, 5),
    Body(<<1>>, 5, 6 + MaxRange) }

=============================================================================
