-------------------------- MODULE MCHandleDatabase --------------------------
EXTENDS HandleDatabase

CONSTANTS d1, d2

\* A disk and a partition of it; a path of two instances is asked for.
Disk == Node("HW", <<d1>>)
Partition == Node("HW", <<d1, d2>>)

MCPaths == {Disk \o EndNode, Disk \o Partition \o EndNode}

MCAsked == {Partition \o EndNode, Disk \o Partition \o Disk \o EndNode,
            Disk \o Node("INSTANCE", << >>) \o Partition \o EndNode}

\* The stack holds anything.
AnyStack == [2 .. MaxPairs + 1 -> {Null, Stray}]
=============================================================================
