CONSTANT
  Cases <- FieldCases
SPECIFICATION Spec
INVARIANT MasksAsInOnePlace
INVARIANT EdgesAsInOnePlace
INVARIANT LabelsAsInOnePlace
INVARIANT CollectsAsInOnePlace
INVARIANT GeometryAsInOnePlace
