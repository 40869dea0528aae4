\* Four calls, in any of the projects and spread over any number of runs.
CONSTANTS
    own = own  var = var  a = a  b = b  p = p
    Root = Root  Nothing = Nothing  Empty = Empty
    Sub = {own, var}
    HasVariable = {var}
    Name = {a, b}
    Lists <- MCLists
    Path = {Empty, p}
    SubVersion <- MCSubVersion
    Provider <- MCProvider
    Installed <- MCInstalled
    MaxCalls = 4
VIEW Seen
SPECIFICATION Spec
INVARIANTS
    TypeOK
    SameDependency
    NothingOfAFailedSubproject
    FoundIsMerged
    CacheFollowsPath
