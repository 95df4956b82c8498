----------------------------- MODULE MCConfigDbuf -----------------------------
(* Configuration files for checking ConfigDbuf with TLC: a pair before any *)
(* header; a key set twice, then another section; a header without a name. *)
EXTENDS ConfigDbuf

CONSTANTS Size, Backup, Unknown, Misc

FilesMC == {
    <<Pair(Size, 1), Header(Log), Pair(Backup, 1)>>,
    <<Header(Log), Pair(Size, 1), Pair(Size, 0), Header(Misc), Pair(Size, 1)>>,
    <<Header(Log), Ignored, Pair(Unknown, 1), Header(NoSection), Pair(Size, 1)>> }

=============================================================================
