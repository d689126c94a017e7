\* Two builders and a cargo build over one output directory, with every failure.
CONSTANTS
    b1 = b1  b2 = b2  c0 = c0  c1 = c1
    Builders <- MCBuilders
    Revisions <- MCRevisions
    Versions = {1, 2}
    Faults = {"build", "replace", "rmtree", "kill"}
    MaxRuns = 2
    MaxFailures = 3
SPECIFICATION Spec
SYMMETRY MCSymmetry
INVARIANTS
    BuilderInv OutputIsWhole MissingOnlyInside SomeCopySurvives ReuseIsCurrent
