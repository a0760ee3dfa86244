\* Every encoding, both byte orders of the client, two encoding threads.
SPECIFICATION EncSpec
CONSTANTS
    EncTypes = {"Raw", "RRE", "CoRRE", "HexTile", "Zlib", "TRLE", "ZRLE", "LZ4", "TJPG", "QOI", "ZQOI"}
    EncFormats = {"same", "swapped"}
    EncSize <- McSize
    EncScripts <- McScripts
    EncOpts = TRUE
    EncThreads = 2
    EncFast = 64
\* the script of drawings ends
CHECK_DEADLOCK FALSE
INVARIANTS
    EncShown
    EncJobsSound
