SPECIFICATION EvidenceSpec
CONSTANTS
  S1 = S1
  S2 = S2
  P1 = P1
  P2 = P2
  Shas = {S1, S2}
  PullRequests = {S1}
  Pushed = {S1}
  Tagged = {S1}
  Publishers = {P1, P2}
  NoNote = NoNote
  NoRun = NoRun
  MaxBegun = 2
SYMMETRY Symmetry
INVARIANTS ReleaseJustified SkipJustified RerunTied
CHECK_DEADLOCK FALSE
