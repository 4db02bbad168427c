CONSTANTS
    Users = {u1, u2, u3}
    Components = {c1, c2}
    None = None
    Edited = c1
    Handles = {h1, h2, h3}
    MaxReleased = 2
SPECIFICATION DomainSpec
INVARIANT IInv
INVARIANT OnlySlidAreMissed
INVARIANT OnlySlidStayBound
CHECK_DEADLOCK FALSE
