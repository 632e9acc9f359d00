CONSTANTS
    Batches = {b1, b2}
    Sales = {1, 2, 3, 4}
    Educators = {1, 2}
    EducatorOf <- FirstTwoOfFirst
    AmountOf <- FirstIsDouble
    Direct = {4}
    JobSales = {2}
    ChunkSize = 1
    Unset = Unset
    Requests = {r1, r2}
    Practices = {"careful", "free"}
SPECIFICATION PaySpec
CHECK_DEADLOCK FALSE
SYMMETRY Symmetric
INVARIANTS
    BooksExact EarnedOnce
