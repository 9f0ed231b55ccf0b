SPECIFICATION FairSpec
CONSTANTS
  f = f
  g = g
  h = h
  g1 = g1
  g2 = g2
  f1 = f1
  f2 = f2
  h1 = h1
  a = a
  b = b
  NoSig = NoSig
  NoEntry = NoEntry
  NoInode = NoInode
  Torn = Torn
  NoPayload = NoPayload
  Name = {h}
  Source = {h1}
  Contract = {a, b}
  Modes = {TRUE, FALSE}
  Proc = {p1, p2}
  Inode = {i1, i2, i3}
  NameOf <- MCNameOf
  Callees <- MCCallees
  ContractOf <- MCContractOf
  Provable <- MCProvable
INVARIANTS
  VerifiedIsProved
  DiskFaithful
PROPERTIES
  CallReturns
