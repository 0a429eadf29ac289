\* An address beside the startup address, two keys, and all ciphertexts of up
\* to seven bytes.
CONSTANTS
  Addresses = {adr}
  Keys = {k1, k2}
  Secrets = {s}
  None = None
  MaxCiphertext = 7
SPECIFICATION MCSpec
INVARIANT TypeOK
INVARIANT KeysComeInPairs
INVARIANT TagIsFound
PROPERTY SearchEnds
\* The search ends, and so does a process with a failed assert or undefined
\* behaviour.
CHECK_DEADLOCK FALSE
