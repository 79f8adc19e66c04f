-------------------------------- MODULE MCInbox --------------------------------
(***************************************************************************)
(* Inbox for TLC: an issue or pull request of the maintainer's with two    *)
(* options, and a pull request the user contributed.                       *)
(***************************************************************************)
EXTENDS Inbox

CONSTANTS maint, contr

MCPlan == (maint :> <<"fix", "merge">>) @@ (contr :> <<"comment">>)
MCMaxRecs == (maint :> 2) @@ (contr :> 1)

=============================================================================
