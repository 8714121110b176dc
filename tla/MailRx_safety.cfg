SPECIFICATION Spec
CONSTANTS
  Accounts = {a1, a2}
  NoAccount = none
  NMsgs = 3
  MaxFaults = 2
INVARIANTS
  TypeOK NumbersHold DeletedWasHandled HandledOnce
