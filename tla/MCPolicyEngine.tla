--------------------------- MODULE MCPolicyEngine ---------------------------
(***************************************************************************)
(* A small instance of PolicyEngine.  The hosts are a domain, the domain   *)
(* in capitals, a subdomain and a foreign name; the resource lists         *)
(* hold every form of pattern the matcher tells apart, and one list that   *)
(* mixes an exact pattern with a wildcard.                                 *)
(***************************************************************************)
EXTENDS PolicyEngine

MCLabel == {"com", "COM", "api", "org"}
MCFold == [l \in MCLabel |-> IF l = "COM" THEN "com" ELSE l]
MCPort == {"443", "80", "22"}

apex == <<"com">>
APEX == <<"COM">>
api == <<"api", "com">>
org == <<"org">>
MCHost == {apex, APEX, api, org}

pat(form, host, port) == [form |-> form, host |-> host, port |-> port]

MCResourceSets ==
  { {pat("exact", api, "443")},
    {pat("sub", apex, AnyPort)},
    {pat("all", NoHost, AnyPort)},
    {pat("exact", org, "22"), pat("anyhost", NoHost, "443")} }

\* Lists as another engine lists them: empty, a gap in the numbering, default
\* rules behind and before numbered ones.
rule(id, decision, resources, scope) ==
  [id |-> id, decision |-> decision, resources |-> resources, scope |-> scope]

MCRuleLists ==
  { << >>,
    << rule(2, "allow", {pat("deepsub", apex, "443")}, Global),
       rule(-1, "deny", {pat("anyhost", NoHost, "443")}, Global) >>,
    << rule(-2, "deny", {pat("exact", apex, StarPort), pat("noport", api, AnyPort)}, Global),
       rule(2, "deny", {pat("noportstar", apex, AnyPort), pat("exact", apex, "80")}, Global) >> }
=============================================================================
