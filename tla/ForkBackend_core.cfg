SPECIFICATION FairSpec
CONSTANTS
  c1 = c1
  c2 = c2
  weth = weth
  balance = balance
  number = number
  Clients <- MCClients
  Accounts <- MCAccounts
  Slots <- MCSlots
  Numbers <- MCNumbers
  AccountOf <- MCAccountOf
INVARIANTS
  TypeOK
  OneFetchPerKey
  ListenedIsFetched
  NobodyForgotten
  NoLostWakeup
  NoPhantomAccount
PROPERTIES
  AnsweredInTheEnd
