CONSTANTS
    notes = notes
    script = script
    home = home
    sub = sub
    snap = snap
    None = None
    Files <- MCFiles
    Dirs <- MCDirs
    Entries <- MCEntries
    Home = home
    ROOT_NOISE <- MCNoise
    Reqs = {r1, r2}
    MaxEdits = 2
SYMMETRY Symmetry
SPECIFICATION Spec
INVARIANTS TypeOK OwnText CalmEditsKept BarIsTrue SaveOffered TreeIsOfPath
