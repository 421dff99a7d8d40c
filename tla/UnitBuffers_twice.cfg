\* Two files of the library, imported for the compiler itself and for a target.
SPECIFICATION Spec
CONSTANTS
    Files = {cstdarg, string}
    Targets = {voidc, aot}
    MaxProcesses = 2
INVARIANTS LoadedOnce
CHECK_DEADLOCK FALSE
