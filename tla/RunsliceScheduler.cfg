\* Two identifiers, an argument list and two entries; handlers use the scheduler.
CONSTANTS
  Identifiers = {id1, id2}
  Callables = {f}
  Arguments = {a}
  NullPtr = NullPtr
  Indeterminate = Indeterminate
  NoArguments = NoArguments
  MaxEntries = 2
  MaxDepth = 1
SYMMETRY Symmetry
SPECIFICATION Spec
INVARIANT TypeOK
INVARIANT LookupBacked
INVARIANT NeverUndefined
INVARIANT PriorityCreditNeverAccrues
INVARIANT ArgumentsBindKnownFunction
PROPERTY ImplementsRegistry
\* An assert that fails ends the process.
CHECK_DEADLOCK FALSE
