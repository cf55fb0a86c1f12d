CONSTANTS
    Name <- SampleNames
    Ino = {23, 50, 51}
SPECIFICATION Spec
INVARIANT KeysSeparate
INVARIANT ListingExact
