---------------------------- MODULE MCEntryState ----------------------------
(* Model-checking instance of EntryState: three DNSEntry objects, two DNS  *)
(* names, n1 in a zone a provider serves and n2 in a foreign zone.        *)
EXTENDS EntryState

CONSTANTS n1, n2, z1, z2

MCObjects == 1..3
MCObjects2 == 1..2
MCNames == {n1, n2}
MCZones == {z1, z2}
MCZoneOf == [n \in MCNames |-> IF n = n1 THEN z1 ELSE z2]
MCProviderZones == {z1}
MCRenameNames == {n1}
MCAllNames == MCNames
\* one DNS name contested by all three objects
MCOneName == {n1}
MCOneZoneOf == [n \in MCOneName |-> z1]
=============================================================================
