SPECIFICATION Spec
CONSTANTS
  Names = {gate, work}
  Default = gate
  Requests = {r1, r2}
  Attachments = {a1, a2, a3}
  None = None
  MaxOthers = 1
SYMMETRY Symmetry
INVARIANTS
  OneClientEach
  CreatesTogether
PROPERTY OthersCounted
