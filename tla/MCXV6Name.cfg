\* Every path of up to 4 characters over '/', 'a', 'b', every content of
\* a 3-byte name buffer, and every entry name of 1 to 4 letters: short,
\* exact-DIRSIZ and over-long components, leading, repeated and trailing
\* slashes, and stale bytes after the NUL.
CONSTANTS
    DIRSIZ = 3
    MAXPATH = 4
    Letters <- MCLetters
SPECIFICATION Spec
INVARIANT SkipelemSplitsPath
INVARIANT NamecmpMatchesTrunc
