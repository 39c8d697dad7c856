SPECIFICATION Spec
CONSTANTS
    Client   = {c1, c2, c3}
    Backends = {"file", "gcs", "abfs", "s3"}
    MaxRuns  = 3
    Resends  = {}
    Says     = {{}}
    None     = None
    Unread   = Unread
SYMMETRY Symmetry
PROPERTIES
    ImplementsRegister
