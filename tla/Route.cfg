SPECIFICATION RouteSpec
CONSTANTS
    W = 4
    ByteBits = 2
    MaxRoutes = 2
    FileLines <- MCFileLines
    Garbage <- MCGarbage
    Absent = Absent
    Bad = Bad
INVARIANTS LongestPrefix TableIsFile
CHECK_DEADLOCK FALSE
