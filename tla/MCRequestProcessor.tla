-------------------------- MODULE MCRequestProcessor --------------------------
(***************************************************************************)
(* Values for the constants of RequestProcessor: one text for each kind of *)
(* command that only another client sends, one without any field and one   *)
(* that is no JSON.                                                        *)
(***************************************************************************)
EXTENDS RequestProcessor, TLC

CommandOnly(command) == "command" :> command

OtherTexts ==
  {CommandOnly(command) : command \in {"find", "adduser", "deleteuser", "drop"}}
  \cup {CommandOnly("delete") @@ ("messageId" :> "mine"), "key" :> "k", NotJson}
=============================================================================
