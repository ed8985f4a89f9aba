SPECIFICATION Spec
CONSTANTS
    Content = {c1, c2, c3}
    Empty = Empty
    Down = Down
    NoFile = NoFile
    Zero = Zero
    Part = Part
    Faults = {"write", "power"}
PROPERTIES
    IsAtomic
