----------------------------- MODULE ShareSetup -----------------------------
(***************************************************************************)
(* ShareSync with a history variable: what the owner recorded when init    *)
(* set the share up, against which the devices that join are judged.       *)
(***************************************************************************)
EXTENDS ShareSync

VARIABLE original   \* the manifest init saved on the owner

SetupInit == Init /\ original = manifest[Owner]
SetupNext == Next /\ UNCHANGED original
SetupSpec == SetupInit /\ [][SetupNext]_<<vars, original>>

SetUp == {p \in Path : original[p] # NoRecord}

\* As long as nobody changed a file since the share was set up, no device records
\* anything else at a path that the owner recorded, and what the owner has there
\* stays: a joining device publishes its directory only after sync_with_peer has
\* applied all of a remote manifest, whatever fails or restarts in between.
JoinYieldsToOwner ==
  edits = 0 => \A p \in SetUp :
    /\ \A d \in Device : manifest[d][p] \in {NoRecord, original[p]}
    /\ disk[Owner][p] = original[p].node

\* A device that counts its initial sync as complete has all that the owner set up,
\* in its directory and in its manifest, as long as nobody changed it.
JoinedHasAll ==
  edits = 0 => \A d \in Device : complete[d] =>
    \A p \in SetUp : manifest[d][p] = original[p] /\ disk[d][p] = original[p].node
=============================================================================
