SPECIFICATION Spec
CONSTANTS
    api = api
    applier = applier
    databaseInstance = databaseInstance
    rabbitMqClusterName = rabbitMqClusterName
    None = None
    Services = {api, applier}
    Required = {databaseInstance, rabbitMqClusterName}
    MaxRelease = 3
    MaxChanges = 3
SYMMETRY ServiceSymmetry
INVARIANT TypeOK OwnWritesPass NoEmptyImage
CHECK_DEADLOCK FALSE
