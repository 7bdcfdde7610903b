\* Two updates at a time, an owner and an author,
\* two suggestions, pages of one: queue refills, double taps, ban races; then the author
\* is made an admin and demoted, and two admins walk through one suggestion.
SPECIFICATION Spec
CONSTANTS
    h1 = h1
    h2 = h2
    Handler = {h1, h2}
    owner = owner
    author = author
    User <- MCUser
    Owner = owner
    Suggestion = {1, 2}
    AuthorOf <- MCOneAuthor
    PageSize = 1
    RoleMenu = {"admin"}
    NoSuggestion = NoSuggestion
    NoUser = NoUser
SYMMETRY HandlerSymmetry
INVARIANTS
    JudgedWasShown
    BannedHasNothingPending
CONSTRAINT AdminBound
PROPERTIES
    ImplementsLifecycle
CHECK_DEADLOCK FALSE
