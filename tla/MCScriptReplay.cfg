CONSTANT
  Inputs <- SmallInputs
SPECIFICATION Spec
INVARIANT
  ScriptGivesDst
