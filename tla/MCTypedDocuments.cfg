CONSTANTS
  DigestLen = 2
  OwnerLen = 1
  Base = 2
  None = None
  Owners = {"0xb"}
  ChainIds = {1, 100}
  ZeroAddress = "0x0"
  Receivers = {"0x0", "0xa"}
  StructHash <- CreateStructHash
  ApiStructHash <- StandardHash
  StructNames <- MCStructNames
  Documents <- MCDocuments
SPECIFICATION TypedSpec
CHECK_DEADLOCK FALSE
INVARIANTS
  ExpectedUidAccepted
  UidRoundTrip
  StandardDigests
  StandardDomains
  DigestsIdentify
