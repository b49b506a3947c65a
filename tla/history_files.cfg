CONSTANTS
    b1 = b1
    b2 = b2
    Blobs = {b1, b2}
    LostBlobs = {}
    MaxTroubles = 2
    Workers = {w1}
    Pairs <- MCPairs
    BlobsOf <- OneBlob
    Nobody = Nobody
    Names <- MCNames
    SrcdiffXml = SrcdiffXml
    ResultsJson = ResultsJson
    MaxOperations = 4
    Compared = {1}
SPECIFICATION Spec
CHECK_DEADLOCK FALSE
INVARIANTS DatabaseIsWhole OneTool WhatIsKeptIsTrue
PROPERTIES FilesAreSettled
