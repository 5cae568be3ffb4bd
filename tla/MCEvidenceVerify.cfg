SPECIFICATION Spec
CONSTANTS
    Ops = {o1, o2}
    Evidence = {e1}
    Recoverers = {r1}
    Genesis = Genesis
INVARIANT CheckpointVerifies
