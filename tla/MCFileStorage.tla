--------------------------- MODULE MCFileStorage ---------------------------
EXTENDS FileStorage, TLC

CONSTANTS c1, c2, short, long

\* Two contents whose encodings differ in length.
MCSize == short :> 1 @@ long :> 2

\* One writer per file: c1 writes, c2 reads, watches and changes objects in place,
\* which stores nothing.
AllowedOneWriter == c1 :> {"create", "put", "patch", "apply", "delete"} @@ c2 :> {"get", "list", "watch", "inplace"}

\* Two writers of one file, against whom the storage promises little.
AllowedTwoWriters == c1 :> {"create", "put", "delete"} @@ c2 :> {"put", "apply", "watch"}
=============================================================================
