CONSTANTS
    Names <- TokenNames
    Literal <- Literals
    Regex <- Regexes
    Scalar <- Scalars
    Levels <- ScopeLevels
    Requests <- SomeRequests
    Stores <- SomeStores
    Web <- WebPages
    Written <- SomeWrites
    MaxWrites = 1
    MaxFaults = 1
    None = None
    Contexts <- AllContexts
    ParseQ <- parse_q_or
    ParseScopeQ <- parse_scope_alternatives
    QMatches <- q_expression_matches
    ScopeQMatches <- scope_expression_matches
    UsesLinked <- q_expression_uses_linked_entity
    SimplifiedValue <- simplify_attribute_value
SPECIFICATION Spec
INVARIANTS
    WritingsParse
    OperatorsAgree
    TermsAreThoseReached
    AnswerIsExact
    DiscoveryAgreesWithQueries
    SubscriptionsSelectLikeQueries
    NotifiedOnceOrBehindFailure
PROPERTY
    Answered
