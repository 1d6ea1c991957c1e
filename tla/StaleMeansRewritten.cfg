CONSTANT Services = {wifi, wired}
SPECIFICATION HostSpec
PROPERTY StaleMeansRewritten
