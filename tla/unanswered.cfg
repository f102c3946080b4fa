SPECIFICATION AlgorithmsSpec
CONSTANT Inputs <- MCInputs
CHECK_DEADLOCK FALSE
INVARIANT EveryCallAnswered
