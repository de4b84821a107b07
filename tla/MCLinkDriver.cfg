CONSTANTS
    MaxGroups = 3
    Separate <- MCSeparate
    Flags <- MCFlags
    Unlisted <- MCUnlisted
    Lone <- MCLone
    Spellings <- MCSpellings
    Lists <- MCLists
    Readable <- MCReadable
    CommandLines <- MCCommandLines
SPECIFICATION Spec
INVARIANT
    TypeOK
PROPERTIES
    ImplementsLinkStep
    Terminates
