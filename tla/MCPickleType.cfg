SPECIFICATION Spec
CONSTANTS
    Names <- MCNames
    Texts <- MCTexts
    Named <- MCNamed
    Classes <- MCClasses
    Reconstructors <- MCReconstructors
    FromBuffer = "numpy._frombuffer"
    Array = "numpy.ndarray"
    Atoms = {"dict"}
    Unknown = "unknown"
    Nobody = "nobody"
    MaxOps = 5
INVARIANT LabelsMatch
CHECK_DEADLOCK FALSE
