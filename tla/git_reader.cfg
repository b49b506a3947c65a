CONSTANTS
    b1 = b1
    b2 = b2
    Blobs = {b1, b2}
    LostBlobs = {}
    MaxTroubles = 1
    Workers = {w1}
    Pairs <- MCPairs
    BlobsOf <- TwoBlobs
    Nobody = Nobody
    Names <- MCNames
    SrcdiffXml = SrcdiffXml
    ResultsJson = ResultsJson
    MaxOperations = 1
    Compared = {}
SPECIFICATION Spec
INVARIANTS ExportFailsOnItsOwn
CHECK_DEADLOCK FALSE
