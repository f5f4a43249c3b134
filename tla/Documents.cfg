CONSTANTS
    Threads = {t1, t2}
    MaxDepth = 10
    MaxPartials = 2
    MaxNesting = 64
    Today = 5
    Partials <- ThePartials
    Common <- TheCommon
    OwnCommon <- TheOwnCommon
    Calls <- TheCalls
    Views <- TheViews
    Outer <- TheOuter
    References <- TheReferences
    Dictionary <- TheDictionary
    Dotted = {"v1.0", "feed.xml", "sitemap.xml", "robots.txt", "search-index.json", "404.html"}
    Slugs <- TheSlugs
    RequestLine <- TheRequestLine
    HeaderLine <- TheHeaderLine
    BodySize <- TheBodySize
    MissingSize = 1
    MaxRequest = 8
    Alphabet <- TheAlphabet
    LayoutPages <- TheLayoutPages
    Contents <- TheContents
    Configurations <- TheConfigurations
SYMMETRY Symmetric
SPECIFICATION Spec
INVARIANT BlocksKeepWords
INVARIANT ContainersAreTransparent
INVARIANT InlinesKeepText
INVARIANT NoLinkInLink
INVARIANT ExpressionsFollowGrammar
INVARIANT LayoutsPrintTheirLines
INVARIANT FragmentsAreFresh
INVARIANT LinksLead
INVARIANT RequestsAreAnswered
CHECK_DEADLOCK FALSE
