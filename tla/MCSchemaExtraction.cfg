\* Fewer places than types; nested types, Structs and dataclasses that contain themselves.
SPECIFICATION ContractSpec
CONSTANTS
  t1 = t1
  t2 = t2
  order = order
  item = item
  tree = tree
  node = node
  part = part
  nodes = nodes
  blob = blob
  begin = begin
  finish = finish
  walk = walk
  plain = plain
  bare = bare
  builtin = builtin
  NoThread = NoThread
  Str = Str
  AnyType = AnyType
  Dict = Dict
  Unannotated = Unannotated
  NoneType = NoneType
  Custom = Custom
  None = None
  Unset = Unset
  NoBlueprint = NoBlueprint
  Threads = {t1, t2}
  Types = {order, item, tree, node, part, nodes, blob, Str, AnyType, Dict, Unannotated}
  Nested <- nested
  Raw <- raw
  Dataclasses = {order, node, part}
  Forward = {part}
  Opaque = {blob}
  Generic = {nodes}
  MaxSize = 2
  Room = 2
  MaxStack = 3
  MaxCalls = 2
  Functions = {begin, finish, walk, plain, bare, builtin}
  Signature <- signature
  Contracts <- contracts
  Asks <- asks
  Direct <- direct
  Structured = {order, item, tree, node, part}
  Simple = {Str}
INVARIANTS TypeOK BoundedTypeCache CompleteCached AttributesDue ContractDue
PROPERTIES FirstObjectStays RequestsEnd
CHECK_DEADLOCK FALSE
