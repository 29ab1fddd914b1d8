SPECIFICATION Spec
CONSTANTS
  Wallets <- OneWallet
  Keys <- PayKeys
  Calls <- PayCalls
  Opening <- PayOpening
  Web = {g1, g2}
  Celery = {c1}
  NoProc = NoProc
  NoCall = NoCall
  MaxCrashes = 0
PROPERTY
  RetryGetsTheRequest
