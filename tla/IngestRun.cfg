SPECIFICATION Spec
CONSTANTS
    Setups <- MCSetups
    MinWriteConfidence = 2
    Batches <- MCBatches
    Groupings <- MCGroupings
    Answers <- MCAnswers
    HandoffReviews <- MCHandoffReviews
    InitialGraph <- MCInitialGraph
    OtherRelations <- MCOtherRelations
    OtherPropositions <- MCOtherPropositions
    TextNegates <- MCTextNegates
    Qualified <- MCQualified
    AlikeTexts <- MCAlikeTexts
    SharesWord <- MCSharesWord
    StableId <- MCStableId
    PublicUrls <- MCPublicUrls
    AllowedUrls <- MCAllowedUrls
    CanonicalUrl <- MCCanonicalUrl
    FinalUrls <- MCFinalUrls
    PageLinks <- MCPageLinks
    PageBytes <- MCPageBytes
    BlankPages = {"b"}
    MaxCrawlDepth = 1
    MaxCrawlPages = 3
    MaxPageBytes = 2
    MaxTotalBytes = 3
INVARIANTS
    TypeOK
    ApprovalSupported
    StoreMatchesReport
    CrawlWithinBudget
    
