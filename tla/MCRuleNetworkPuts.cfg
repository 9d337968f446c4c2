\* The Router of the branch example in front of consumers that may be slow.
CONSTANTS
    Networks <- BranchNetworks
    Values = 2
    Computed <- Sum
SPECIFICATION Spec
INVARIANTS
    PutsWaitForRoom
