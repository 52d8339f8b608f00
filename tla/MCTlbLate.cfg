SPECIFICATION Spec
CONSTANTS
    Cpus = {1, 2}
    Roots = {}
    Kernel = Kernel
    None = None
    Global = Global
    Jobs = {1}
    Home <- MCHome
    Masked = {}
    Async = {}
    UserPages = {}
    KernelPages = {1}
    Capacity = 1
    Inline = 1
    MaxSequence = 1
    AtBoot = {1}
    Switchers = {1}
    Caches = {1, 2}
INVARIANTS NoStaleUseAnywhere
