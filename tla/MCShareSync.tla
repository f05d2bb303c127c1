---------------------------- MODULE MCShareSync ----------------------------
EXTENDS ShareSync

Flat == [p \in Path |-> {}]
\* Path 2 is below path 1, path 3 is not.
Nested == [p \in Path |-> IF p = 2 THEN {1} ELSE {}]

FilesAndNothing == {File(x, m) : x \in Data, m \in Mode} \cup {NoNode}
FilesAndDirs == {File(x, 0) : x \in Data} \cup {Dir(0), NoNode}
LinksAndNothing == {Link(x) : x \in Data} \cup {NoNode}

FilesDirsAndLinks == FilesAndDirs \cup {Link(x) : x \in Data}
=============================================================================
