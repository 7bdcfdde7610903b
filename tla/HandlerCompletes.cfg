\* Locks of verdicts, bans from the viewer, bans and unbans from the menu.
SPECIFICATION LiveSpec
CONSTANTS
    h1 = h1
    h2 = h2
    Handler = {h1, h2}
    owner = owner
    author = author
    User <- MCUser
    Owner = owner
    Suggestion = {1}
    AuthorOf <- MCOneAuthor
    PageSize = 1
    RoleMenu = {"user", "banned"}
    NoSuggestion = NoSuggestion
    NoUser = NoUser
CHECK_DEADLOCK FALSE
PROPERTIES
    HandlerCompletes
