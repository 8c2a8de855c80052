SPECIFICATION Spec
CONSTANTS
  c1 = c1
  c2 = c2
  v1 = v1
  v2 = v2
  here = here
  there = there
  Calls <- OneCall
  Scalars <- NoFields
  SingleRefs <- NoFields
  Arrays <- NoFields
  Values <- TwoValues
  Containers <- TwoContainers
  Visible <- SeenFrom
  Default <- Defaults
  MaxTouched = 1
INVARIANT RefsInScope
