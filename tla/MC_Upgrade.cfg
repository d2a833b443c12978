CONSTANTS
    fw1 = "fw1"
    fw2 = "fw2"
    box = "box"
    file = "file"
    MongoContents <- MCMongoContents
    ResultKeys = {"entropy_analysis_graph", "strings", "password", "other", "architectures"}
    Users = {"alice", "bob"}
    UserTables = {"old", "new"}
    MaxStops = 2
    Installations = {{"db", "frontend", "backend"}, {"frontend"}}
    MaxOutages = 1
    MaxFailures = 1
SPECIFICATION MCSpec
INVARIANTS DataSurvives NothingLeftBehind
PROPERTY StarterEnds
