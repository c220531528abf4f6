SPECIFICATION FairSpec
CONSTANTS
    s1 = s1
    s2 = s2
    s3 = s3
    NoMsg = NoMsg
    Msgs = {1, 2, 3, 4, 5, 6, 7}
    Segs = {s1, s2, s3}
    SegSize = 2
    MaxMsgs = 7
    Payload <- Numbered
INVARIANTS NoOverwrite NoLostWake
PROPERTIES FifoSpec Delivered 
