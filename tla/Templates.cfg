\* One key, two records in turn, two builds, two deletes and one host create.
SPECIFICATION FairSpec
CONSTANTS
    k1 = k1
    i1 = i1
    Key = {k1}
    Image = {i1}
    ImageOf <- OneImage
    MaxRows = 2
    Builder = {b1, b2}
    Deleter = {d1, d2}
    Lessee = {r1}
    Nobody = Nobody
INVARIANT TemplatesInv
PROPERTIES DeletesSpare BuildsEnd
CHECK_DEADLOCK FALSE
