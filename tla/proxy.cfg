SPECIFICATION Spec
CONSTANTS
    Conns = {c1, c2}
    Digests = {"sha256:m", "sha256:b"}
    Setups <- MCSetups
INVARIANTS
    TokenScoped
    SeenWithinWindow
    SignatureValid
SYMMETRY ConnSymmetry
CHECK_DEADLOCK FALSE
