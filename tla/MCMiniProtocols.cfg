CONSTANTS
    u1 = u1
    u2 = u2
    u3 = u3
    Tables <- MCTables
    MaxAhead = 3
    MaxStream = 5
SPECIFICATION MCSpec
CHECK_DEADLOCK FALSE
INVARIANTS
    SoundTable
    QuiescedIsIdle
    
    OneInstance
    
    BytesAccounted
    

    
