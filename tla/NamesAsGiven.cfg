SPECIFICATION NamesSpec
CONSTANTS
  Templates = {1, 2}
  Labels = {"a", "b", "c"}
  MaxRenames = 0
  Steps = {"x"}
  MaxDepth = 1
  MaxPaths = 0
INVARIANT AsGivenFirst
