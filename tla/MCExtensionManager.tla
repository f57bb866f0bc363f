------------------------ MODULE MCExtensionManager ------------------------
EXTENDS ExtensionManager, TLC

CallSymmetry == Permutations(Calls)
===========================================================================
