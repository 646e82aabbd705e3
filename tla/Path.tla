-------------------------------- MODULE Path --------------------------------
(***************************************************************************)
(* How fopen takes a name apart (fs/Path.cpp, fs/file.c).                  *)
(***************************************************************************)
EXTENDS Strings

Slash == 47
Drive == <<48, 58, Slash>>      \* "0:/"

valid(path) == strlen(path) # 0 /\ strcmp(Drive, path) = 0

\* Mutated: the buffer of a part is shorter than the part.
CutPart(parts, c) ==
    IF c = Slash THEN Append(parts, << >>)
    ELSE IF Len(parts[Len(parts)]) = 2 THEN parts
    ELSE [parts EXCEPT ![Len(parts)] = Append(@, c)]

\* One character of the path: a slash begins a new part.
AddChar(parts, c) ==
    IF c = Slash THEN Append(parts, << >>) ELSE [parts EXCEPT ![Len(parts)] = Append(@, c)]

\* The parts, of which an invalid path has none.
parse(path) ==
    LET parsed[k \in 0 .. Len(path)] ==
            IF k = 0 THEN <<<< >>>> ELSE AddChar(parsed[k - 1], path[k])
    IN  IF ~valid(path) THEN << >> ELSE parsed[Len(path)]

\* The first letter tells, so that "rw" opens for reading.
file_get_mode_by_string(str) ==
    CASE strncmp(str, <<114>>, 1) = 0 -> "FILE_MODE_READ"
      [] strncmp(str, <<119>>, 1) = 0 -> "FILE_MODE_WRITE"
      [] strncmp(str, <<97>>, 1) = 0  -> "FILE_MODE_APPEND"
      [] OTHER                        -> "FILE_MODE_INVALID"

\* fopen joins the first n parts like this, and looks for a mount of that name by
\* length and contents.
reconstructed_path(parts, n) ==
    LET joined[j \in 0 .. n] ==
            IF j = 0 THEN << >>
            ELSE joined[j - 1] \o (IF j = 1 THEN << >> ELSE <<Slash>>) \o parts[j]
    IN  joined[n]

IsMounted(path, filename) == strlen(path) = strlen(filename) /\ strcmp(path, filename) = 0
=============================================================================
