SPECIFICATION Spec
CONSTANTS
    Folders = {f1}
    NoFolder = NoFolder
    Nothing = Nothing
    Earlier = 1
    MaxWorkspaces = 2
    MaxThreads = 2
    MaxChoices = 2
    MaxPanes = 2
    MaxCalls = 2
INVARIANT FoldersAreChosen
INVARIANT LayoutIsSound
PROPERTY ActiveThreadIsShown
