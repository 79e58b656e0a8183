SPECIFICATION Spec
CONSTANTS
  l1 = l1
  l2 = l2
  q1 = q1
  q2 = q2
  None = None
  Listeners = {l1, l2}
  Quics = {q1, q2}
  Bindable <- MCBindable
  MaxRevision = 2
SYMMETRY Symmetry
INVARIANTS
  EndpointChangeSurfaced
