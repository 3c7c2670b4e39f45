SPECIFICATION Spec
CONSTANTS
    Word <- MCWord
    Page <- MCPage
    Null = Null
INVARIANTS NoViewLost ExtractedAccepted ProviderTextBounded
