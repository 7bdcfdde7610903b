\* One update at a time, an author who may be made an admin, a redelivery or a death of the worker.
SPECIFICATION PipelineLiveSpec
CONSTANTS
    h1 = h1
    Handler = {h1}
    owner = owner
    author = author
    User <- MCUser
    Owner = owner
    Suggestion = {1}
    Task = {1}
    AuthorOf <- MCOneAuthor
    PageSize = 1
    RoleMenu = {"admin"}
    MaxRedelivery = 1
    NoSuggestion = NoSuggestion
    NoUser = NoUser
INVARIANTS
    PostsAreAccepted
PROPERTIES
    AcceptedIsPosted
CHECK_DEADLOCK FALSE
