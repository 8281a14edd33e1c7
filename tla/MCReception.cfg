SPECIFICATION Spec
CONSTANTS
  Packets <- MCPackets
  Encrypted <- MCEncrypted
  Damages <- MCDamages
  Capacity = 516
  modulus <- MCModulus
  encryption_key <- MCEncryptionKey
  decryption_key <- MCDecryptionKey
  xor_key <- MCXorKey
INVARIANTS TypeOK XorInPlace Delivered NothingLost FirstBlockChecked
CHECK_DEADLOCK FALSE
