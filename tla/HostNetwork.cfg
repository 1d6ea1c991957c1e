CONSTANT Services = {wifi, wired}
SPECIFICATION HostSpec
INVARIANTS HostTypeOK LoadedFilters
PROPERTIES ImplementsNetblock OverrideCanBeUndone CommandsTell
