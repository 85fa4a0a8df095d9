\* What the documentation says and the code does not do: tlc -continue.
SPECIFICATION MessageSpec
CONSTANTS
    Characters = {"/", "a", "b"}
    Topics <- MCTopics
    Lens = {1, 8, 9, 66}
    MaxMessageSize = 20
    Word = 64
INVARIANTS
    OnlyDescendants
    TooBigThrows
    CreatedCanBePosted
CHECK_DEADLOCK FALSE
