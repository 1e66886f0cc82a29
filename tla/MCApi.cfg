SPECIFICATION MCSpec
CONSTANTS
    \* Pages from none to more rows than there are.
    Nil = Nil
    Row = {1, 2, 3, 4, 5}
    Sizes = {0, 1, 2, 3, 6}
    HalfRange = 16
    Resolver = {x1, x2}
    \* Bytes are 0..3, and the varint of a length of two already has two of them.
    Base = 2
    Bytes <- MCBytes
    Ints <- MCInts
    Ids <- MCIds
    MaxIds = 2
    \* Numbers up to three, two ids: every row with every pair of cursors.
    MaxField = 3
    MaxId = 2
    \* Three calls and one write of another request.
    Calls = {c1, c2, c3}
    Users = {"u1", "u2"}
    Wallets = {"w1"}
    Splits = {"s1"}
    Names = {"Bob", "bob", "eve"}
    NoName = ""
    Lower <- MCLower
    Tables0 <- MCTables
    MaxWrites = 1
    \* Two fields below each of three mutations.
    Field = {f1, f2}
    MaxMutations = 3
    MaxVersion = 3
    Gateway = {w1, w2, w3}
    RecurseRawReturns = TRUE
INVARIANTS
    PageIsRight
    WalkIsExact
    RoundTrip
    WindowIsExact
    AnswersWereTrue
    HitsStayCached
    ReadsOwnWrites
    GoodAnswerWins
SYMMETRY Symmetry
CHECK_DEADLOCK FALSE
