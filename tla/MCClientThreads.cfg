SPECIFICATION FairSpec
CONSTANTS
    Reader = Reader
    ReConnect = ReConnect
    Keeper = Keeper
    Info = Info
    NoOne = NoOne
INVARIANTS TypeOK KeeperTablesStable NoThreadOutlivesClients
PROPERTIES ShutdownEnds ReaderKeepsReading
CHECK_DEADLOCK FALSE
