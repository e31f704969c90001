SPECIFICATION CommentsSpec
CONSTANTS
    Absent = Absent
    Invalid = Invalid
    Posts = {p1, p2, p3, p4, p5}
    Lengths = {0, 1, 2, 3}
    minCommentBodyLength = 1
    maxCommentBodyLength = 2
    CommentLimits <- MCLimits
    defaultCommentsLimit = 1
    maxCommentsLimit = 2
    MaxTime = 5
    MaxFaults = 1
SYMMETRY MCSymmetry
INVARIANTS
    WalkMissesOnlyLatecomers
    EmptyPageMeansDeleted
