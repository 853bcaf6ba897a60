SPECIFICATION Spec
CONSTANTS
    version1 = version1
    Version = {version1, version2, version3}
    Broken = Broken
    Size = 3
    Position = {1, 2}
    OnCell = {1}
    None = None
    Null = Null
    MaxPresses = 4
    Layer = Layer
    group1 = group1
    inner1 = inner1
    beside1 = beside1
    copy1 = copy1
    edge1 = edge1
    edge2 = edge2
    Vertex = {group1, inner1, beside1, copy1}
    Edge = {edge1, edge2}
    Copy = copy1
    Home <- HomeValue
    Ends <- EndsValue
    Editable = {beside1}
    Tipped = {beside1}
    Selections = {{}, {inner1}, {edge1}, {beside1, group1}}
    MaxGestures = 1
    MaxRemoved = 1
INVARIANTS
    NeverBroken Chained
    MouseDownAsSeen
    GestureEndsWithButton OneGesture
PROPERTIES
    EventsInOrder
    SourceThere OneOutcome TypedTextKept
CHECK_DEADLOCK FALSE
