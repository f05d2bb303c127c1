---------------------------- MODULE MCShareSetup ----------------------------
EXTENDS MCShareSync, ShareSetup

\* The owner starts with the same file at every path.
FilesInit == SetupInit /\ disk[Owner] = [p \in Path |-> File(1, 0)]
OwnerHasFiles == FilesInit /\ [][SetupNext]_<<vars, original>> /\ SessionFairness
=============================================================================
