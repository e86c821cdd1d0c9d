SPECIFICATION Spec
CONSTANTS
  Callers = {"a", "b"}
  Wallets = {w0, w1}
  MinimumConfirmations = 2
  MaxTxs = 3
  MaxHeads = 2
  PaymentAmounts = {1}
  Values = {1, 2}
  Programs <- MCPrograms
  FirstWallet = w0
  Supply = 3
  NoContract = NoContract
INVARIANTS NilMeansIncluded NoNonceGap OnlyOthersReplace StoreReadsLastSet
PROPERTY CallsReturn
