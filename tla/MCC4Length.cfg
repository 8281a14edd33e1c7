SPECIFICATION Spec
CONSTANTS
  Packets <- MCPackets
  Encrypted <- MCEncrypted
  Damages <- MCDamages
  Capacity = 516
  modulus <- MCModulus
  encryption_key <- MCEncryptionKey
  decryption_key <- MCDecryptionKey
  xor_key <- MCXorKey
INVARIANTS EncryptedC2Parsed
CHECK_DEADLOCK FALSE
