SPECIFICATION Spec
CONSTANTS
  Structures = {relaxed, strained}
  Zero = zero
  Fields = {zero, strong}
  Size = 2
  Coupled = {1, 2}
  Dispersed = {2}
  FieldCalc = 1
  Params = {initial, other}
  Uses <- UsesDispersed
  None = None
INVARIANTS MembersServe
