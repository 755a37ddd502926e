SPECIFICATION Spec
INVARIANTS
    ServerSurvives
    MetadataUnderstood
    OwnMessageAccepted
