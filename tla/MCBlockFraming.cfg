\* Bytes of base 3, headers of two bytes: offsets 0, 3 and 6 of a file of
\* seven bytes in blocks of three, the last one short.  hash_file() may find
\* the file shrunk to five or six bytes, as announced, or grown to nine.
CONSTANTS
  HeaderLen = 2
  Base = 3
  BlockSize = 3
  FileSize = 7
  HashedSizes = {5, 6, 7, 9}
  Source <- MCSource
  NetCap = 4
SPECIFICATION FairSpec
INVARIANTS IInv ReceivedIsSent DestIsSource
PROPERTY AllWritten
