------------------------------- MODULE MCCli -------------------------------
(* Two people, two namespaces, one bootstrap pod in each, a controller in *)
(* the first and a bridge in the second.                                   *)
EXTENDS Cli, TLC

CONSTANTS n1, n2, b1, b2, c1, g2

MCNsOf == (b1 :> n1) @@ (b2 :> n2) @@ (c1 :> n1) @@ (g2 :> n2)
MCCrdFiles == <<"ecnetconfig", "serviceimport">>

MCInstalled == {<<n2, "other">>}

MCCommands ==
  { newInstallCmd(n1, "ecnet", TRUE), newInstallCmd(n1, "other", FALSE), newInstallCmd(n2, "other", FALSE),
    newEcnetUpgradeCmd(n2, "other"),
    newUninstallCniCmd(n1, absent, FALSE, FALSE, FALSE), newUninstallCniCmd(n1, "other", TRUE, TRUE, TRUE),
    newNamespaceAdd(n1, "other"), newNamespaceRemove(n1, "other"), newNamespaceIgnore(n1) }
=============================================================================
