SPECIFICATION FairSpec
CONSTANTS
    dash = dash
    good = good
    gone1 = gone1
    deep = deep
    broken = broken
    locked = locked
    top = top
    sub = sub
    mount = mount
    link = link
    d1 = d1
    d2 = d2
    d3 = d3
    bad = bad
    Stdin = dash
    Files <- MCFiles
    Dirs <- MCDirs
    Links <- MCLinks
    Listing <- MCListing
    Walk <- MCWalk
    Contents <- MCContents
    Bad = bad
    Unreadable = {locked}
    Volatile = {gone1, deep, link}
    Arguments <- MCArguments
INVARIANTS
    TypeOK
    OneFileOpen
    LoadsEverything
PROPERTY
    Terminates
CHECK_DEADLOCK FALSE
