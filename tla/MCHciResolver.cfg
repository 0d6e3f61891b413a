SPECIFICATION Spec
INVARIANTS ResolvesRegisteredOpcode ValidationPasses
