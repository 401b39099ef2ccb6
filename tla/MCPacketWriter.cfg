CONSTANTS
  tcp = tcp
  tick = tick
  small = small
  full = full
  over = over
  huge = huge
  key1 = key1
  key2 = key2
  Thread = {tcp, tick}
  TCPThread = tcp
  Packet <- MCPacket
  EncryptKey = key1
  DecryptKey = key2
  Size <- MCSize
  SeqModulus = 3
  MaxPackets = 4
SPECIFICATION WriterSpec
CHECK_DEADLOCK FALSE
INVARIANTS
  WriterTypeOK
  OneWriter
  QueueIsServed
  FramesExact
  EncryptedAfterKey
PROPERTIES
  ImplementsStream
  DeliversStream
