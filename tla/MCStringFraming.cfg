\* Bytes of base 3, headers of two bytes, strings of up to four: a length may
\* need both bytes of the header.
CONSTANTS
  HeaderLen = 2
  Base = 3
  Plans <- MCPlans
  MaxLen = 4
  NetCap = 4
SPECIFICATION FairSpec
INVARIANTS IInv ReceivedIsSent
PROPERTIES IsMessageStream AllReceived
