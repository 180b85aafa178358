--------------------------- MODULE MCGuildStorage ---------------------------
(* Small instances of GuildStorage for TLC. *)
EXTENDS GuildStorage

=============================================================================
