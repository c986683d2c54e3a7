---------------------------- MODULE MCRocksStore ----------------------------
(* Values of RocksStore's constants for TLC.                               *)
EXTENDS RocksStore

CONSTANTS k1, k2

\* Writes of one key, then one of another: an old log replayed over a newer
\* snapshot shows.
MCKeyOf == <<k1, k1, k1, k2>>
\* One more, for a snapshot that is newer than two logs.
MCKeyOfLong == <<k1, k1, k1, k1, k2>>
=============================================================================
