\* One group of two members and two keys; a transcript of two lines.
CONSTANTS
    Builds = {FALSE}
    Conditions <- MCConditions
    MAX_MESSAGES = 2
    MAX_VOICE_CHUNKS = 1
    MaxMade = 3
    MaxNow = 1
    Null = Null
    Torn = Torn
    Groups = {"g"}
    MAX_MEMBERS_PER_GROUP = 2
    GSK_BOOK_MAX = 2
    MaxKeys = 2
    NoFile = NoFile
    MaxWipes = 1
    MaxBesides = 2
SPECIFICATION Spec
CHECK_DEADLOCK FALSE
INVARIANTS
    SavedBookLoads WipeForgets DecoyNotSaved MembersKeepTheirKeys
