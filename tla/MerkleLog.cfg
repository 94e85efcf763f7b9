SPECIFICATION Spec
CONSTANTS
  Leaf <- TwoLeaves
  MaxLeaves = 5
INVARIANTS
  BundleVerifies
  OnlyMembersProved
  RootDetermines
  ProofMatchesAnchor
  AnchorBinds
