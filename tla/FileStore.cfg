\* One caller and one block: what ends does not depend on the data.
CONSTANTS
    Client = {c1}
    Block = {b1}
    IndexKey = {k}
    IndexValue = {v}
SPECIFICATION FairSpec
PROPERTY GoroutinesEnd
