-------------------------------- MODULE MCAcl --------------------------------
(* The stateless functions of the system, one call per state: Acl with     *)
(* rule prefixes "/", "/A" and "/AB" (a root rule, a directory rule, and a *)
(* longer rule that "/A" is a string prefix of); a path request            *)
(* (authorize_path) with its ACL file, a login request (authorize) with   *)
(* its users file, the --ip option's text parse_ip reads, or one call of  *)
(* Serialize::deserialize (Codec).  What a call does not consult is left   *)
(* at a fixed value.                                                       *)
EXTENDS Login, ParseIp, Codec

MCRulePrefixes == {<<"/">>, <<"/", "A">>, <<"/", "A", "B">>}

\* The decode a non-codec state carries: the exact encoding of LoginReply{}.
NoDecode ==
    /\ ty = "LoginReply" /\ orig = <<>> /\ form = "exact"
    /\ input = Encode(Catalog["LoginReply"], orig)

NoAclRequest ==
    /\ lines = <<>> /\ path = <<"/">>
    /\ user = CHOOSE u \in Users : TRUE

NoLoginRequest ==
    /\ usersLines = <<>>
    /\ loginName = CHOOSE u \in Users : TRUE
    /\ loginPassword = CHOOSE p \in Passwords : TRUE

PathRequest  == Init /\ NoLoginRequest /\ ipText = <<>> /\ NoDecode
LoginRequest == LoginInit /\ NoAclRequest /\ ipText = <<>> /\ NoDecode
IpRequest    == IpInit /\ NoAclRequest /\ NoLoginRequest /\ NoDecode
DecodeCall   == DecodeInit /\ NoAclRequest /\ NoLoginRequest /\ ipText = <<>>

allVars == <<vars, loginVars, ipText, wireVars>>

MCSpec == (PathRequest \/ LoginRequest \/ IpRequest \/ DecodeCall)
          /\ [][UNCHANGED allVars]_allVars

=============================================================================
