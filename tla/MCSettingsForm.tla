--------------------------- MODULE MCSettingsForm ---------------------------
EXTENDS SettingsForm, TLC

Symmetry ==
  Permutations(Nodes) \cup Permutations(Fields) \cup Permutations(Values)
=============================================================================
