------------------------------ MODULE MCFsAccess ------------------------------
(* FsAccess with the rule prefixes of MCAcl: a root rule, a directory      *)
(* rule, and a longer rule that "/A" is a string prefix of.                *)
EXTENDS FsAccess

MCRulePrefixes == {<<"/">>, <<"/", "A">>, <<"/", "A", "B">>}

=============================================================================
