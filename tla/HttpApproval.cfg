SPECIFICATION Spec
CONSTANTS
  s1 = s1
  s2 = s2
  p1 = p1
  p2 = p2
  p3 = p3
  r1 = r1
  r2 = r2
  NoProposal = NoProposal
  NoBody = NoBody
  Session = {s1}
  Proposal = {p1, p2}
  Request = {r1, r2}
  SessionOf <- OneSession
  Dangerous = {p2}
  Overlap = TRUE
INVARIANTS DecidedRight
PROPERTIES WindowCloses ImplementsGate
