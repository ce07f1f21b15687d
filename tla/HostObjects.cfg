SPECIFICATION Spec
CONSTANTS
    static = static
    css = css
    file = file
    get = get
    post = post
    data1 = data1
    data2 = data2
    ContentLength = length
    ContentType = type
    Key = {length, type}
    Spelling = {lower, upper}
    Lower = lower
    None = None
    MaxLength = 1
    MaxHeaders = 4
    Url <- MCUrl
    Reply = {r1, r2}
    NotFound = NotFound
    MaxSent = 3
    Method <- MCMethod
    Handler = {h1, h2}
    Middleware <- MCMiddleware
    Prefix <- MCPrefix
    Files <- MCFiles
    MaxRoutes = 2
    MaxMiddleware = 2
    Path = {p, q}
    Data = {d1, d2}
    MaxFiles = 4
INVARIANT ObjectsSound
PROPERTY ImplementsHeaderMap
PROPERTY RoutesKept
PROPERTY FilesKept
PROPERTY ReadsKept
