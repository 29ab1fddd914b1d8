SPECIFICATION Spec
CONSTANTS
  Wallets <- TwoWallets
  Keys <- AllKeys
  Calls <- AllCalls
  Opening <- Balances
  Web = {g1, g2}
  Celery = {c1}
  NoProc = NoProc
  NoCall = NoCall
  MaxCrashes = 1
SYMMETRY Workers
CONSTRAINT TwoRequests
INVARIANTS
  TypeOK
  IndInv
  NoOverdraft
  HeldIsPending
  EntriesMatchStatus
  MoneyConserved
PROPERTIES
  TerminalIsFinal
  KeepsPromise
