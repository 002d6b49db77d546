SPECIFICATION Spec
CONSTANTS
    Vocabularies <- MCVocabularies
    PageLength = 6
    MaxTokens = 6
    MaxLinks = 2
    Target <- MCTarget
    SameOrigin <- MCSameOrigin
    Skipped = Skipped
    NoResult = NoResult
INVARIANTS
    ResultIsOfWholePage
    LinksAccountForPage
    LoginFormsAreFound
    BalancedFormsAreExact
