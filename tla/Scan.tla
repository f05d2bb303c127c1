-------------------------------- MODULE Scan --------------------------------
(***************************************************************************)
(* scan_manifest: compares the shared directory with the manifest, gives   *)
(* every path that changed a fresh version and turns every recorded path   *)
(* that is no longer on disk into a tombstone.  disk is a function from    *)
(* Path to Node or NoNode; reading the tree and hashing files (whose size  *)
(* and times merely save a hash) are part of its abstraction to Data.      *)
(***************************************************************************)
EXTENDS Manifest

\* Changed on disk, of a new kind included, or gone from it.
Changed(m, disk) ==
  {p \in Path : IF Live(disk[p]) THEN m[p].node # disk[p] ELSE Live(m[p].node)}

\* Ticks are handed out to the discovered files, directories and links, then
\* to the missing files, directories and links, by path within each group.
ScanGroup(m, disk, p) ==
  CASE disk[p].kind = "file" -> 1
    [] disk[p].kind = "dir"  -> 2
    [] disk[p].kind = "link" -> 3
    [] m[p].node.kind = "file" -> 4
    [] m[p].node.kind = "dir"  -> 5
    [] OTHER -> 6

ScanBefore(m, disk, p, q) ==
  LET g == ScanGroup(m, disk, p)
      h == ScanGroup(m, disk, q)
  IN  g < h \/ (g = h /\ p < q)

\* How many ticks the scan has taken when it versions p, p's included.
TickNumber(m, disk, p) ==
  Cardinality({q \in Changed(m, disk) : q = p \/ ScanBefore(m, disk, q, p)})

ScannedNode(disk, p) == IF Live(disk[p]) THEN disk[p] ELSE Deleted

\* The manifest and the clock a scan by device d returns.
scan_manifest(m, disk, c, d, now) ==
  [p \in Path |->
     IF p \in Changed(m, disk)
     THEN [node    |-> ScannedNode(disk, p),
           version |-> VersionAt(TickTimes(c, now, TickNumber(m, disk, p)), d)]
     ELSE m[p]]

ScannedClock(m, disk, c, now) ==
  TickTimes(c, now, Cardinality(Changed(m, disk)))

\* Variant of ScanSucceeds: a counter that overflows is not an error.
ScanSucceedsUnchecked(m, disk, c, d, now) == validate(scan_manifest(m, disk, c, d, now))

\* A tick past the largest counter, or a manifest that does not validate, is
\* an error: the caller then saves nothing.
ScanSucceeds(m, disk, c, d, now) ==
  /\ ScannedClock(m, disk, c, now).last_counter <= MaxCounter
  /\ validate(scan_manifest(m, disk, c, d, now))
=============================================================================
