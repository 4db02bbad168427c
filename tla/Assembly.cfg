CONSTANT
  Cases <- PassCases
SPECIFICATION StagesSpec
INVARIANT StartsFromUserFlags
INVARIANT StencilsComplete
INVARIANT ConnectionsWhole
INVARIANT DonorsAreNoReceivers
INVARIANT InnerFringeOccluded
