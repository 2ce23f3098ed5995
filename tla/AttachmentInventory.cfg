CONSTANTS
    Row = {row1, row2, row3}
    Attachment = {image, clip}
    Ref = {ref1, ref2}
    Content = {bytes1, bytes2}
    Nothing = Nothing
    MaxEvidence = 4
    MaxLost = 1
SPECIFICATION Spec
SYMMETRY MCSymmetry
INVARIANTS TypeOK RecordsHaveObjects OneRecordEach FullHasEveryAttachment
           StaleOnlyByEmptySeal
PROPERTY SealIsFinal
CHECK_DEADLOCK FALSE
