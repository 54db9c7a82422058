SPECIFICATION PipelineSpec
CONSTANTS
    t1 = t1
    t2 = t2
    own = own
    other = other
    a = a
    b = b
    Threads = {t1, t2}
    Pipes = {own, other}
    Own = own
    Targets = {"host", "wasm"}
    Wasm = {"wasm"}
    EnvTarget = "host"
    Calls = {"realize", "compile", "bounds"}
    MaxDirectives = 1
    Conditions = {"condition"}
    MaxAdded = 1
    Inputs <- TwoInputs
    MaxSize = 1
    Queries <- OneQuery
    MaxIters = 3
CONSTRAINT Explored
INVARIANTS RunsCurrent ArgsMatchCode NoInternalError InferredSettled
PROPERTY EveryCallReturns
