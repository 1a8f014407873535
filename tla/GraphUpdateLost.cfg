\* The same instance, for the promise of forceReparseFiles.
CONSTANTS
    a1 = a1
    b1 = b1
    b2 = b2
    a = a
    b = b
    x = x
    y = y
    Files <- MCFiles
    Directories <- MCDirectories
    DirOf <- MCDirOf
    Packages <- MCDirectories
    PackageOf <- MCDirOf
    Names <- MCNames
    Texts <- MCTexts
    Scopes <- MCScopes
    None = None
    Unreadable = Unreadable
SPECIFICATION Spec
VIEW graphState
PROPERTY ReadCallersKeepCalls
