------------------------------- MODULE MCOAuth -------------------------------
(***************************************************************************)
(* Small instances of OAuth: a full bundle, a refresh-only one and an access *)
(* token alone, or a login under way.                                       *)
(***************************************************************************)
EXTENDS OAuth

Full == [access |-> TRUE, refresh |-> TRUE]
RefreshOnly == [access |-> FALSE, refresh |-> TRUE]
AccessOnly == [access |-> TRUE, refresh |-> FALSE]

Bundles == [claude |-> {Full}, codex |-> {AccessOnly, RefreshOnly}, xai |-> {RefreshOnly}]
=============================================================================
