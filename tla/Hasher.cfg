SPECIFICATION HSpec
CONSTANTS
    Requests = {r1, r2, r3, r4}
    Limit = 2
INVARIANTS SlotsConserved
PROPERTIES Served ToldSo
