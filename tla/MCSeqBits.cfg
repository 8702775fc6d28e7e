SPECIFICATION FairBitsSpec
CONSTANTS
  Tasks = {t1, t2, t3}
  Bits <- MCBits
  Words <- MCWords
  WordOf <- MCWordOf
  Requests <- MCRequests
  NoRequest = NoRequest
  NoBits <- MCNoBits
  MaxSeq = 4
PROPERTIES ImplementsRegister WritesEnd
