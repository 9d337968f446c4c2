\* The same circuit with a reset input per domain.
CONSTANTS
    None = None
    Data = {a, b}
    AWidth = 2
SPECIFICATION SpecDomainResets
INVARIANTS
    NoPointerDesync
