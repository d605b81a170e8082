SPECIFICATION Spec
CONSTANTS
    t1 = t1
    t2 = t2
    bad = bad
    s1 = s1
    s2 = s2
    n1 = n1
    n2 = n2
    n3 = n3
    m1 = m1
    m2 = m2
    badm = badm
    Tables <- MCTables
    Malformed <- MCMalformed
    Strings <- MCStrings
    Lists <- MCLists
    MaxResumes = 2
    Name <- MCName
    Metric <- MCMetric
    Unregistrable <- MCUnregistrable
    Scripts <- MCScripts
INVARIANTS
    TypeOK
    AnswersAreOfThisCall
    StartIsDecidedByTheScript
