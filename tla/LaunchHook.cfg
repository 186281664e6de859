SPECIFICATION HookSpec
INVARIANT
  StatesAgree
