SPECIFICATION Spec
INVARIANT SchemaCountsMatch
