\* Two clients and the collector over two keys.
CONSTANTS
  Client = {c1, c2}
  Key <- MCKey
  EmptyKey = EmptyKey
  Value <- MCValue
  EmptyValue = EmptyValue
  Absent = Absent
  Prefix <- MCPrefix
  Made <- MCMade
  NoRequest = NoRequest
  NoView = NoView
  v = v

SPECIFICATION Spec

INVARIANTS
  TypeOK
  NoOperationOnClosed

PROPERTIES
  CallsReturn
  CollectorStops
  ImplementsStore
