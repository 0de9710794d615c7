SPECIFICATION Spec
CONSTANTS
  Tasks = {child, grandchild}
  Direct = child
  Listed = {listed}
  Unlisted = {unlisted}
  MaxCalls = 2
INVARIANT NothingLeftToSupervise
